------------------------------ MODULE MCSearch ------------------------------
(***************************************************************************)
(* Small instances of Search for TLC: the windows of 100 to 5000 rows are  *)
(* scaled down to 2 to 3, the default limit to 1 and the largest to 2, and *)
(* the largest int to 5.                                                   *)
(***************************************************************************)
EXTENDS SearchInv, TLC

CONSTANTS u1, u2, q1, q2, q3, q4

\* Two rows of one moment among them.
MCCreated == (q1 :> 1) @@ (q2 :> 2) @@ (q3 :> 2) @@ (q4 :> 4)

MCSeededAge == (q1 :> 0) @@ (q2 :> 1) @@ (q3 :> 0) @@ (q4 :> 0)

LOCAL Make(ops, creds, questions, matches, ages, offsets, limits) ==
  [op : ops, cred : creds, question : questions, match : matches, age : ages,
   offset : offsets, limit : limits]

LOCAL User == AccessToken(u1, {"is_active"})
LOCAL Admin == AccessToken(u1, {"is_active", "is_admin"})
LOCAL Credential == {User, Admin, RefreshToken(u1), AccessToken(u1, {}),
               [bearer |-> "missing", sub |-> u1, claims |-> {}]}

LOCAL Of(S) == S \X Texts
LOCAL First(S) == S \X {FirstText}

\* The questions of S only once their text has been changed.
LOCAL Second(S) == First(Questions \ S) \cup S \X (Texts \ {FirstText})

MCCalls ==
  Make({"unanswered"}, {User}, {q1}, {Of(Questions)}, {NoAge}, {-1, 1, 4}, {-1, 0, 3})
    \cup Make({"searchWithAuth"}, {User}, {q1}, {Of(Questions)}, {NoAge}, {0, 1}, {0, 2})
    \cup Make({"unanswered", "search"}, {User}, {q1}, {Second({q3})}, {0, NoAge}, {0}, {2})
    \cup Make({"get"}, {User}, {q1}, {{}}, {NoAge}, {1}, {2})
    \cup Make({"options", "optionsWithAuth"}, {User}, {q4}, {{}}, {NoAge}, {0}, {0})
    \cup Make({"adminOptions"}, {Admin}, {q4}, {{}}, {NoAge}, {0}, {0})
    \cup Make({"searchQuestions"}, {User}, {q1}, {First(Questions)}, {NoAge}, {0}, {0})
    \cup Make({"withCategories", "byLanguage", "mine"}, {User}, {q1}, {Of(Questions \ {q1})},
              {NoAge}, {0}, {0})
    \cup Make({"getOne", "submissions"}, Credential, {q1}, {{}}, {NoAge}, {0}, {0})
=============================================================================
