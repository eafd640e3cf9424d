---------------------------- MODULE SearchProofs ----------------------------
(***************************************************************************)
(* Theorems about Search and their proofs.                                 *)
(***************************************************************************)
EXTENDS SearchPages

(***************************************************************************)
(* Operators.                                                              *)
(***************************************************************************)
\* A page is cut from rows of the set that was sorted.
LEMMA CutRows ==
  ASSUME NEW S \in SUBSET Questions, NEW s \in Sorted(S),
         NEW offset \in Nat, NEW limit \in Nat
  PROVE  /\ Cut(s, offset, limit) \in Seq(Questions)
         /\ Elements(Cut(s, offset, limit)) \subseteq S
<1>1. Cardinality(S) \in Nat
  BY SearchAssumption, FS_Subset, FS_CardinalityType
<1>2. s \in [1..Cardinality(S) -> S]
  BY DEF Sorted
<1>3. s \in Seq(S) /\ Len(s) \in Nat
  BY <1>1, <1>2
<1> DEFINE last == IF limit = 0 THEN Len(s) ELSE Least(offset + limit, Len(s))
<1>4. last \in Int /\ last <= Len(s) /\ offset + 1 \in Int
  BY <1>3 DEF Least
<1>5. Cut(s, offset, limit) = SubSeq(s, offset + 1, last)
  BY DEF Cut
<1>6. \A i \in (offset + 1)..last : s[i] \in S
  BY <1>3, <1>4
<1> HIDE DEF last
<1>7. Cut(s, offset, limit) \in Seq(S)
  BY <1>4, <1>5, <1>6, SubSeqProperties
<1>8. Elements(Cut(s, offset, limit)) \subseteq S
  <2>1. \A t \in Seq(S) : Elements(t) \subseteq S
    BY DEF Elements
  <2>. QED
    BY <1>7, <2>1
<1>. QED
  BY <1>7, <1>8

\* Rows a search keeps are questions.
LEMMA ElementsOfRows ==
  ASSUME NEW s \in Seq(Questions)
  PROVE  /\ Elements(s) \subseteq Questions
         /\ \A F, from, to : Remaining(s, F, from, to) \subseteq Elements(s) \ F
  BY DEF Elements, Remaining

\* What a call carries.
LEMMA CallFields ==
  ASSUME NEW c \in Calls
  PROVE  /\ c # NoCall /\ c \in CallType /\ c.op # "none"
         /\ c.question \in Questions /\ Caller(c) \in Users
         /\ Offset(c) \in Nat /\ Limit(c) \in Nat
         /\ Required(c) \subseteq Int
         /\ Refusal(c.op, c.cred) \in {0, 401, 403, 423}
         /\ Permitted(c) \subseteq Questions /\ Answered(c) \subseteq Questions
<1>1. c \in CallType
  BY CallsAssumption
<1>2. /\ c.op \in Searches \cup Lists \cup OptionReads /\ c.question \in Questions
      /\ c.cred \in Credentials /\ c.offset \in Int /\ c.limit \in Int
  BY <1>1 DEF CallType
<1>3. Caller(c) \in Users
  BY <1>2 DEF Caller, Credentials
<1>4. Offset(c) \in Nat /\ Limit(c) \in Nat
  BY <1>2, SearchAssumption DEF Offset, Limit, Least
<1>5. Required(c) \subseteq Int
  BY <1>4, SearchAssumption DEF Required
<1>6. Refusal(c.op, c.cred) \in {0, 401, 403, 423}
  BY DEF Refusal, JwtAuthFilter, AdminAuthFilter
<1>7. c.op # "none"
  BY <1>2 DEF Searches, Lists, OptionReads
<1>8. Permitted(c) \subseteq Questions /\ Answered(c) \subseteq Questions
  BY DEF Permitted, Answered
<1>. QED
  BY <1>1, <1>2, <1>3, <1>4, <1>5, <1>6, <1>7, <1>8 DEF NoCall

\* Every approved question may be seen, with every operation but the searches.
LEMMA SeeApproved ==
  ASSUME NEW c, c.op \notin Searches
  PROVE  /\ Permitted(c) = {q \in Questions : Visible(c, q)}
         /\ \A q \in Questions : status[q] = "approved" => Visible(c, q)
  BY DEF Permitted, Visible

\* Every step, one case per action.
LEMMA NextCases ==
  ASSUME [Next]_vars
  PROVE  \/ \E r \in Requests : Arrive(r)
         \/ \E r \in Requests : Serve(r)
         \/ \E r \in Requests : StatementFails(r)
         \/ Change
         \/ Restart
         \/ UNCHANGED vars
  BY DEF Next, Finished

(***************************************************************************)
(* What a handler's step may tell its client.                              *)
(***************************************************************************)
\* A list of questions a request may answer with.
Good(r, S, F) ==
  /\ S \subseteq permitted[r] /\ S \subseteq Questions /\ F \subseteq Questions
  /\ call[r].op = "searchWithAuth" => /\ S \cap kept[r] \subseteq F
                                      /\ F \subseteq touched[r]
  /\ call[r].op = "unanswered" => S \cap kept[r] = {}
  /\ call[r].op \in OptionReads /\ S = {} => status[call[r].question] = "gone"

\* The request moves on, shows a good list, or refuses with a reason.
Outcome(r) ==
  \/ /\ \E label \in Waiting : Goto(r, label)
     /\ UNCHANGED <<page, answered, reply>>
  \/ \E S \in SUBSET Questions, F \in SUBSET Questions : Show(r, S, F) /\ Good(r, S, F)
  \/ /\ \E code \in {404, 500} :
          /\ Respond(r, code)
          /\ code = 500 => /\ call[r].op \in Searches
                           /\ Suspects(r) \ Translated # {}
     /\ UNCHANGED <<page, answered>>

\* What a request that is being served knows.
LEMMA Served ==
  ASSUME AnswersOK, NEW r \in Requests, pc[r] \in Waiting
  PROVE  /\ call[r] \in Calls
         /\ Permitted(call[r]) \subseteq permitted[r]
         /\ kept[r] \subseteq Answered(call[r])
         /\ Answered(call[r]) \subseteq touched[r]
         /\ Refusal(call[r].op, call[r].cred) = 0
<1>1. pc[r] # "new"
  BY DEF Waiting
<1>2. call[r] \in Calls
  BY <1>1 DEF AnswersOK, TypeOK, HandlerOK
<1>. QED
  BY <1>1, <1>2 DEF AnswersOK, HistoryOK, HandlerOK

\* A list read by one statement holds what the caller may see now.
LEMMA ListGood ==
  ASSUME AnswersOK, NEW r \in Requests, pc[r] \in Waiting, call[r].op \in Lists,
         NEW S \in SUBSET Questions, \A q \in S : Visible(call[r], q)
  PROVE  Good(r, S, {})
<1>1. S \subseteq permitted[r]
  <2>1. call[r].op \notin Searches
    BY DEF Lists, Searches
  <2>. QED
    BY <2>1, Served, SeeApproved
<1>. QED
  BY <1>1 DEF Good, Lists, OptionReads

LEMMA ListOutcome ==
  ASSUME AnswersOK, NEW r \in Requests,
         \/ Get(r) \/ GetOne(r) \/ WithCategories(r) \/ SearchQuestions(r)
         \/ ByLanguage(r) \/ GetMySubmissions(r) \/ ListSubmissions(r)
  PROVE  Outcome(r)
<1>0. pc[r] \in Waiting /\ call[r].op \in Lists
  BY DEF Waiting, Lists, Get, GetOne, WithCategories, SearchQuestions, ByLanguage,
         GetMySubmissions, ListSubmissions
<1>1. call[r] \in Calls /\ call[r].op \notin Searches
  BY <1>0, Served DEF Lists, Searches
<1>2. \A q \in Questions : status[q] = "approved" => Visible(call[r], q)
  BY <1>1, SeeApproved
<1>3. ASSUME NEW S \in SUBSET Questions, \A q \in S : Visible(call[r], q),
             Show(r, S, {})
      PROVE  Outcome(r)
  BY <1>0, <1>3, ListGood DEF Outcome
<1>4. CASE Get(r)
  BY <1>2, <1>3, <1>4 DEF Get, Approved
<1>5. CASE GetOne(r)
  <2>1. call[r].question \in Questions
    BY <1>1, CallFields
  <2>2. CASE status[call[r].question] = "approved" /\ Show(r, {call[r].question}, {})
    BY <1>2, <1>3, <2>1, <2>2
  <2>3. CASE Respond(r, 404) /\ UNCHANGED <<page, answered>>
    BY <2>3 DEF Outcome
  <2>. QED
    BY <1>5, <2>2, <2>3 DEF GetOne
<1>6. CASE WithCategories(r)
  BY <1>2, <1>3, <1>6 DEF WithCategories, Approved
<1>7. CASE SearchQuestions(r)
  <2>. DEFINE S == {q \in Approved : <<q, text[q]>> \in call[r].match}
  <2>1. S \in SUBSET Questions /\ \A q \in S : Visible(call[r], q)
    BY <1>2 DEF Approved
  <2>2. Show(r, S, {})
    BY <1>7 DEF SearchQuestions
  <2>. HIDE DEF S
  <2>. QED
    BY <1>3, <2>1, <2>2
<1>8. CASE ByLanguage(r)
  <2>. DEFINE S == {q \in Approved : <<q, text[q]>> \in call[r].match}
  <2>1. S \in SUBSET Questions /\ \A q \in S : Visible(call[r], q)
    BY <1>2 DEF Approved
  <2>2. Show(r, S, {})
    BY <1>8 DEF ByLanguage
  <2>. HIDE DEF S
  <2>. QED
    BY <1>3, <2>1, <2>2
<1>9. CASE GetMySubmissions(r)
  BY <1>3, <1>9 DEF GetMySubmissions, Visible
<1>10. CASE ListSubmissions(r)
  <2>1. call[r].op = "submissions" /\ Refusal(call[r].op, call[r].cred) = 0
    BY <1>0, <1>10, Served DEF ListSubmissions
  <2>2. {"is_active", "is_admin"} \subseteq call[r].cred.claims
    BY <2>1 DEF Refusal, Open, AdminOnly, AdminAuthFilter
  <2>3. \A q \in Questions : status[q] \in {"pending", "rejected"} => Visible(call[r], q)
    BY <2>1, <2>2 DEF Visible, AdminOnly
  <2>4. PICK filter \in {{"pending"}, {"rejected"}, {"pending", "rejected"}} :
          Show(r, {q \in Questions : status[q] \in filter}, {})
    BY <1>10 DEF ListSubmissions
  <2>. QED
    BY <1>3, <2>3, <2>4
<1>. QED
  BY <1>4, <1>5, <1>6, <1>7, <1>8, <1>9, <1>10

LEMMA OptionsOutcome ==
  ASSUME AnswersOK, NEW r \in Requests,
         \/ GetAnswerOptions(r) \/ GetAnswerOptionsWithAuth(r) \/ GetAdminAnswerOptions(r)
         \/ SelectOptions(r)
  PROVE  Outcome(r)
<1>1. CASE \E found \in BOOLEAN : Lookup(r, found)
  BY <1>1 DEF Lookup, Outcome, Waiting
<1>2. CASE SelectOptions(r)
  <2> DEFINE q == call[r].question
             S == {p \in {q} : status[p] \notin {"undrawn", "gone"}}
  <2>1. pc[r] = "options" /\ Show(r, S, {})
    BY <1>2 DEF SelectOptions
  <2>2. call[r] \in Calls /\ q \in Questions
    BY <2>1, Served, CallFields DEF Waiting
  <2>3. q \in permitted[r] /\ status[q] # "undrawn" /\ call[r].op \in OptionReads
    BY <2>1 DEF AnswersOK, RowsOK, HandlerOK
  <2>4. S = {} => status[q] = "gone"
    BY <2>2, <2>3 DEF AnswersOK, TypeOK, Statuses
  <2>5. S \subseteq {q}
    OBVIOUS
  <2> HIDE DEF q, S
  <2>6. Good(r, S, {})
    BY <2>2, <2>3, <2>4, <2>5 DEF Good, OptionReads, q
  <2>. QED
    BY <2>1, <2>2, <2>5, <2>6 DEF Outcome
<1>. QED
  BY <1>1, <1>2 DEF GetAnswerOptions, GetAnswerOptionsWithAuth, GetAdminAnswerOptions

\* A search shows its rows, or fails because of one of them.
LEMMA ShowOutcome ==
  ASSUME AnswersOK, NEW r \in Requests, pc[r] \in Waiting, call[r].op \in Searches,
         NEW converted \in SUBSET Suspects(r),
         NEW S \in SUBSET Questions, NEW F \in SUBSET Questions, Good(r, S, F),
         ShowOr500(r, converted, S, F)
  PROVE  Outcome(r)
  BY DEF ShowOr500, Outcome

\* What a search has found may be seen.
LEMMA FoundSeen ==
  ASSUME AnswersOK, NEW r \in Requests, pc[r] \in Waiting, call[r].op \in Searches,
         NEW s \in Sorted({q \in Questions : Matches(call[r], q)}),
         NEW offset \in Nat, NEW limit \in Nat
  PROVE  /\ Cut(s, offset, limit) \in Seq(Questions)
         /\ Elements(Cut(s, offset, limit)) \subseteq Permitted(call[r])
         /\ Elements(Cut(s, offset, limit)) \subseteq permitted[r]
         /\ Elements(Cut(s, offset, limit)) \subseteq Questions
<1>1. /\ Cut(s, offset, limit) \in Seq(Questions)
      /\ Elements(Cut(s, offset, limit)) \subseteq {q \in Questions : Matches(call[r], q)}
  BY CutRows
<1>2. {q \in Questions : Matches(call[r], q)} = Permitted(call[r])
  BY DEF Permitted
<1>. QED
  BY <1>1, <1>2, Served

LEMMA SearchOutcome ==
  ASSUME AnswersOK, NEW r \in Requests,
         RestSearch(r) \/ RestSearchWithAuth(r) \/ FlagAnswered(r)
  PROVE  Outcome(r)
<1>0. pc[r] \in Waiting /\ call[r].op \in Searches
  BY DEF RestSearch, RestSearchWithAuth, FlagAnswered, Waiting, Searches
<1>1. call[r] \in Calls /\ Offset(call[r]) \in Nat /\ Limit(call[r]) \in Nat
  BY <1>0, Served, CallFields
<1>2. CASE RestSearch(r)
  <2>1. PICK s \in Sorted({q \in Questions : Matches(call[r], q)}) :
          LET t == Cut(s, Offset(call[r]), Limit(call[r])) IN
          ShowOr500(r, Elements(t), Elements(t), {})
    BY <1>2 DEF RestSearch, Found
  <2> DEFINE S == Elements(Cut(s, Offset(call[r]), Limit(call[r])))
  <2>2. S \subseteq permitted[r] /\ S \subseteq Questions
    BY <1>0, <1>1, FoundSeen
  <2>3. ShowOr500(r, S, S, {}) /\ call[r].op = "search"
    BY <1>2, <2>1 DEF RestSearch
  <2> HIDE DEF S
  <2>4. Good(r, S, {})
    BY <2>2, <2>3 DEF Good, OptionReads
  <2>5. S \subseteq Suspects(r)
    BY <2>2, <2>3 DEF Suspects
  <2>. QED
    BY <1>0, <2>2, <2>3, <2>4, <2>5, ShowOutcome
<1>3. CASE RestSearchWithAuth(r)
  <2>1. CASE Show(r, {}, {})
    <3>1. Good(r, {}, {})
      BY <1>3 DEF Good, RestSearchWithAuth, OptionReads
    <3>. QED
      BY <2>1, <3>1 DEF Outcome
  <2>2. CASE Goto(r, "answered") /\ UNCHANGED <<page, answered, reply>>
    BY <2>2 DEF Outcome, Waiting
  <2>. QED
    BY <1>3, <2>1, <2>2 DEF RestSearchWithAuth
<1>4. CASE FlagAnswered(r)
  <2> DEFINE S == Elements(rows[r])
             F == S \cap Answered(call[r])
  <2>1. /\ pc[r] = "answered" /\ call[r].op = "searchWithAuth"
        /\ ShowOr500(r, S, S, F)
    BY <1>4 DEF FlagAnswered, AnsweredIds
  <2>2. S \subseteq permitted[r] /\ S \subseteq Questions
    BY <2>1, ElementsOfRows DEF AnswersOK, TypeOK, RowsOK
  <2>3. /\ S \cap kept[r] \subseteq F /\ F \subseteq touched[r] /\ F \subseteq Questions
    BY <1>0, <2>2, Served
  <2> HIDE DEF S, F
  <2>4. Good(r, S, F)
    BY <2>1, <2>2, <2>3 DEF Good, OptionReads
  <2>5. S \subseteq Suspects(r)
    BY <2>1, <2>2 DEF Suspects
  <2>. QED
    BY <1>0, <2>1, <2>2, <2>3, <2>4, <2>5, ShowOutcome
<1>. QED
  BY <1>2, <1>3, <1>4

LEMMA UnansweredOutcome ==
  ASSUME AnswersOK, NEW r \in Requests, SelectWindow(r) \/ AnswerWindow(r)
  PROVE  Outcome(r)
<1>0. /\ pc[r] \in Waiting /\ call[r].op \in Searches /\ call[r].op = "unanswered"
      /\ call[r] \in Calls
  BY Served DEF SelectWindow, AnswerWindow, Waiting, Searches
<1>1. CASE SelectWindow(r)
  <2>1. CASE Show(r, {}, {})
    <3>1. Good(r, {}, {})
      BY <1>0 DEF Good, OptionReads
    <3>. QED
      BY <2>1, <3>1 DEF Outcome
  <2>2. CASE Goto(r, "answered") /\ UNCHANGED <<page, answered, reply>>
    BY <2>2 DEF Outcome, Waiting
  <2>. QED
    BY <1>1, <2>1, <2>2 DEF SelectWindow
<1>2. CASE AnswerWindow(r)
  <2> DEFINE c == call[r]
             F == AnsweredIds(r)
             last == IF Limit(c) = 0 THEN Len(rows[r]) ELSE Offset(c) + Limit(c)
             converted == Remaining(rows[r], F, 0, last + 1)
             S == Remaining(rows[r], F, Offset(c), last)
  <2>1. CASE ShowOr500(r, converted, S, {})
    <3>1. pc[r] = "answered"
      BY <1>2 DEF AnswerWindow
    <3>2. /\ Elements(rows[r]) \subseteq permitted[r]
          /\ Elements(rows[r]) \subseteq Questions
      BY <3>1, ElementsOfRows DEF AnswersOK, TypeOK, RowsOK
    <3>3. /\ converted \subseteq Elements(rows[r]) \ F
          /\ S \subseteq Elements(rows[r]) \ F
      BY ElementsOfRows DEF AnswersOK, TypeOK
    <3>4. Elements(rows[r]) \cap kept[r] \subseteq F
      BY <1>0, Served DEF AnsweredIds
    <3> HIDE DEF c, F, last, converted, S
    <3>5. Good(r, S, {})
      BY <1>0, <3>2, <3>3, <3>4 DEF Good, OptionReads
    <3>6. converted \subseteq Suspects(r) /\ S \subseteq Questions
      BY <1>0, <3>2, <3>3, <3>4 DEF Suspects
    <3>. QED
      BY <1>0, <2>1, <3>5, <3>6, ShowOutcome
  <2>2. CASE Goto(r, "select") /\ UNCHANGED <<page, answered, reply>>
    BY <2>2 DEF Outcome, Waiting
  <2>. QED
    BY <1>2, <2>1, <2>2 DEF AnswerWindow
<1>. QED
  BY <1>1, <1>2

LEMMA ServeOutcome ==
  ASSUME AnswersOK, NEW r \in Requests, Serve(r)
  PROVE  /\ Outcome(r)
         /\ pc[r] \in Waiting
         /\ UNCHANGED <<tables, call, history>>
<1>1. Outcome(r)
  BY ListOutcome, OptionsOutcome, SearchOutcome, UnansweredOutcome DEF Serve
<1>2. pc[r] \in Waiting /\ UNCHANGED <<tables, call, history>>
  BY DEF Serve, Get, GetOne, WithCategories, SearchQuestions, ByLanguage,
         GetMySubmissions, ListSubmissions, GetAnswerOptions, GetAnswerOptionsWithAuth,
         GetAdminAnswerOptions, Lookup, SelectOptions, RestSearch, RestSearchWithAuth,
         FlagAnswered, SelectWindow, AnswerWindow, Waiting
<1>. QED
  BY <1>1, <1>2

(***************************************************************************)
(* The invariant.                                                          *)
(***************************************************************************)
LEMMA AnswersInit == Init => AnswersOK
<1> SUFFICES ASSUME Init PROVE AnswersOK
  OBVIOUS
<1>1. TypeOK
  <2>1. <<>> \in Seq(Questions)
    OBVIOUS
  <2>. QED
    BY <2>1, SearchAssumption DEF Init, TypeOK, Statuses, Waiting, Ended
<1>2. HistoryOK /\ HandlerOK /\ RowsOK
  BY DEF Init, HistoryOK, HandlerOK, RowsOK, Waiting
<1>3. ShowsVisible /\ FlagsTrue /\ EmptyMeansDeleted /\ ErrorsSeen
  BY DEF Init, ShowsVisible, FlagsTrue, EmptyMeansDeleted, ErrorsSeen
<1>. QED
  BY <1>1, <1>2, <1>3 DEF AnswersOK

\* A request arrives.
LEMMA ArriveStep ==
  ASSUME AnswersOK, NEW r \in Requests, Arrive(r)
  PROVE  AnswersOK'
<1>1. PICK c \in Calls :
        /\ pc[r] = "new"
        /\ call' = [call EXCEPT ![r] = c]
        /\ permitted' = [permitted EXCEPT ![r] = Permitted(c)]
        /\ kept' = [kept EXCEPT ![r] = Answered(c)]
        /\ touched' = [touched EXCEPT ![r] = Answered(c)]
        /\ calm' = [calm EXCEPT ![r] = TRUE]
        /\ UNCHANGED <<tables, rows, page, answered>>
        /\ \/ /\ Refusal(c.op, c.cred) # 0
              /\ pc' = [pc EXCEPT ![r] = "done"]
              /\ reply' = [reply EXCEPT ![r] = Refusal(c.op, c.cred)]
              /\ window' = window
           \/ /\ Refusal(c.op, c.cred) = 0
              /\ pc' = [pc EXCEPT ![r] = "select"]
              /\ reply' = reply
              /\ \E n \in Required(c) : window' = [window EXCEPT ![r] = Clamp(n)]
  BY DEF Arrive, Respond, Goto
<1>2. /\ c # NoCall /\ c.op # "none" /\ Required(c) \subseteq Int
      /\ Refusal(c.op, c.cred) \in {0, 401, 403, 423}
      /\ Permitted(c) \subseteq Questions /\ Answered(c) \subseteq Questions
  BY CallFields
<1>3. \A n \in Int : Clamp(n) \in 0..MaxWindow
  BY SearchAssumption DEF Clamp, Least
<1>4. page[r] = {} /\ reply[r] = 0
  BY <1>1 DEF AnswersOK, HandlerOK
<1>5. TypeOK'
  <2>1. window' \in [Requests -> 0..MaxWindow]
    <3>1. window \in [Requests -> 0..MaxWindow]
      BY DEF AnswersOK, TypeOK
    <3>2. \/ window' = window
          \/ \E n \in 0..MaxWindow : window' = [window EXCEPT ![r] = n]
      BY <1>1, <1>2, <1>3
    <3>. QED
      BY <3>1, <3>2
  <2>2. /\ pc' \in [Requests -> Waiting \cup Ended \cup {"new"}]
        /\ reply' \in [Requests -> {0, 200, 401, 403, 404, 423, 500}]
    <3>1. /\ pc \in [Requests -> Waiting \cup Ended \cup {"new"}]
          /\ reply \in [Requests -> {0, 200, 401, 403, 404, 423, 500}]
      BY DEF AnswersOK, TypeOK
    <3>. QED
      BY <1>1, <1>2, <3>1 DEF Waiting, Ended
  <2>3. /\ call' \in [Requests -> Calls \cup {NoCall}]
        /\ permitted' \in [Requests -> SUBSET Questions]
        /\ kept' \in [Requests -> SUBSET Questions]
        /\ touched' \in [Requests -> SUBSET Questions]
        /\ calm' \in [Requests -> BOOLEAN]
    BY <1>1, <1>2 DEF AnswersOK, TypeOK
  <2>. QED
    BY <1>1, <2>1, <2>2, <2>3 DEF AnswersOK, TypeOK, tables
<1>6. HistoryOK'
  <2>1. \A d : Permitted(d)' = Permitted(d) /\ Answered(d)' = Answered(d)
    BY <1>1 DEF tables, Permitted, Answered, Matches, Visible
  <2>2. \A s \in Requests \ {r} : /\ pc'[s] = pc[s] /\ call'[s] = call[s]
                                  /\ permitted'[s] = permitted[s] /\ kept'[s] = kept[s]
                                  /\ touched'[s] = touched[s]
    BY <1>1 DEF AnswersOK, TypeOK
  <2>3. /\ call'[r] = c /\ permitted'[r] = Permitted(c)
        /\ kept'[r] = Answered(c) /\ touched'[r] = Answered(c)
    BY <1>1 DEF AnswersOK, TypeOK
  <2>4. SUFFICES ASSUME NEW s \in Requests, pc'[s] # "new"
                 PROVE  (/\ Permitted(call[s]) \subseteq permitted[s]
                         /\ kept[s] \subseteq Answered(call[s])
                         /\ Answered(call[s]) \subseteq touched[s])'
    BY DEF HistoryOK
  <2>5. CASE s = r
    BY <1>1, <2>3, <2>5 DEF tables, Permitted, Answered, Matches, Visible
  <2>6. CASE s # r
    BY <1>1, <2>2, <2>4, <2>6
       DEF AnswersOK, HistoryOK, tables, Permitted, Answered, Matches, Visible
  <2>. QED
    BY <2>5, <2>6
<1>7. HandlerOK' /\ RowsOK'
  BY <1>1, <1>2, <1>4 DEF AnswersOK, TypeOK, HandlerOK, RowsOK, tables, Waiting
<1>8. ShowsVisible' /\ FlagsTrue' /\ EmptyMeansDeleted'
  BY <1>1, <1>2, <1>4
     DEF AnswersOK, TypeOK, tables, ShowsVisible, FlagsTrue, EmptyMeansDeleted
<1>9. ErrorsSeen'
  <2>1. reply'[r] # 500
    BY <1>1, <1>2, <1>4 DEF AnswersOK, TypeOK
  <2>2. ASSUME NEW s \in Requests \ {r}
        PROVE  /\ pc'[s] = pc[s] /\ reply'[s] = reply[s] /\ call'[s] = call[s]
               /\ permitted'[s] = permitted[s] /\ kept'[s] = kept[s]
    BY <1>1, <2>2 DEF AnswersOK, TypeOK
  <2>. QED
    BY <2>1, <2>2 DEF AnswersOK, ErrorsSeen, Suspects
<1>. QED
  BY <1>5, <1>6, <1>7, <1>8, <1>9 DEF AnswersOK

\* A statement fails, or nothing happens.
LEMMA FailStep ==
  ASSUME AnswersOK, NEW r \in Requests, StatementFails(r)
  PROVE  AnswersOK'
<1>1. /\ pc[r] \in Waiting
      /\ pc' = [pc EXCEPT ![r] = "failed"] /\ reply' = [reply EXCEPT ![r] = 500]
      /\ UNCHANGED <<tables, call, window, rows, page, answered, history>>
  BY DEF StatementFails, Goto
<1>2. TypeOK'
  BY <1>1 DEF AnswersOK, TypeOK, tables, history, Waiting, Ended
<1>3. HistoryOK'
  BY <1>1 DEF AnswersOK, TypeOK, HistoryOK, tables, history, Permitted, Answered, Matches,
        Visible, Waiting
<1>4. HandlerOK' /\ RowsOK'
  BY <1>1 DEF AnswersOK, TypeOK, HandlerOK, RowsOK, tables, history, Waiting
<1>5. ShowsVisible' /\ FlagsTrue' /\ EmptyMeansDeleted' /\ ErrorsSeen'
  BY <1>1 DEF AnswersOK, TypeOK, tables, history, ShowsVisible, FlagsTrue,
        EmptyMeansDeleted, ErrorsSeen, Suspects
<1>. QED
  BY <1>2, <1>3, <1>4, <1>5 DEF AnswersOK

\* A handler's step.
LEMMA ServeTypes ==
  ASSUME AnswersOK, NEW r \in Requests, Serve(r)
  PROVE  /\ window' \in [Requests -> 0..MaxWindow]
         /\ rows' \in [Requests -> Seq(Questions)]
         /\ \A s \in Requests \ {r} : rows'[s] = rows[s] /\ window'[s] = window[s]
<1>1. /\ window \in [Requests -> 0..MaxWindow]
      /\ rows \in [Requests -> Seq(Questions)]
  BY DEF AnswersOK, TypeOK
<1>2. \/ window' = window
      \/ window' = [window EXCEPT ![r] = Widened(window[r])]
  BY DEF Serve, Get, GetOne, WithCategories, SearchQuestions, ByLanguage,
         GetMySubmissions, ListSubmissions, GetAnswerOptions, GetAnswerOptionsWithAuth,
         GetAdminAnswerOptions, Lookup, SelectOptions, RestSearch, RestSearchWithAuth,
         FlagAnswered, SelectWindow, AnswerWindow
<1>3. \A n \in 0..MaxWindow : Widened(n) \in 0..MaxWindow
  BY SearchAssumption DEF Widened, Least
<1>4. \/ rows' = rows
      \/ \E t \in Seq(Questions) : rows' = [rows EXCEPT ![r] = t]
  <2>1. CASE RestSearchWithAuth(r)
    <3>1. /\ pc[r] \in Waiting /\ call[r].op \in Searches
      BY <2>1 DEF RestSearchWithAuth, Waiting, Searches
    <3>2. Offset(call[r]) \in Nat /\ Limit(call[r]) \in Nat
      BY <3>1, Served, CallFields
    <3>3. Found(call[r]) \subseteq Seq(Questions)
      BY <3>1, <3>2, FoundSeen DEF Found
    <3>. QED
      BY <2>1, <3>3 DEF RestSearchWithAuth
  <2>2. CASE SelectWindow(r)
    <3>1. /\ pc[r] \in Waiting /\ call[r].op \in Searches
      BY <2>2 DEF SelectWindow, Waiting, Searches
    <3>2. \A s \in Sorted({q \in Questions : Matches(call[r], q)}) :
             Cut(s, 0, window[r]) \in Seq(Questions)
      <4>1. 0 \in Nat /\ window[r] \in Nat
        BY <1>1, SearchAssumption
      <4>. QED
        BY <3>1, <4>1, FoundSeen
    <3>. QED
      BY <2>2, <3>2 DEF SelectWindow
  <2>3. CASE ~RestSearchWithAuth(r) /\ ~SelectWindow(r)
    BY <2>3
    DEF Serve, Get, GetOne, WithCategories, SearchQuestions, ByLanguage,
         GetMySubmissions, ListSubmissions, GetAnswerOptions, GetAnswerOptionsWithAuth,
         GetAdminAnswerOptions, Lookup, SelectOptions, RestSearch, FlagAnswered,
         AnswerWindow
  <2>. QED
    BY <2>1, <2>2, <2>3
<1>. QED
  BY <1>1, <1>2, <1>3, <1>4

\* Where a handler goes on, and with which rows.
LEMMA ServeNext ==
  ASSUME AnswersOK, NEW r \in Requests, Serve(r)
  PROVE  /\ pc'[r] = "answered" =>
              /\ call[r].op \in {"searchWithAuth", "unanswered"}
              /\ Elements(rows'[r]) \subseteq permitted[r]
         /\ pc'[r] = "options" =>
              /\ call[r].op \in OptionReads
              /\ call[r].question \in permitted[r]
              /\ status[call[r].question] # "undrawn"
<1>0. /\ pc \in [Requests -> Waiting \cup Ended \cup {"new"}]
      /\ rows \in [Requests -> Seq(Questions)]
      /\ window[r] \in Nat /\ 0 \in Nat
  BY SearchAssumption DEF AnswersOK, TypeOK
<1>1. CASE RestSearchWithAuth(r) \/ SelectWindow(r)
  <2>1. /\ pc[r] \in Waiting /\ call[r].op \in Searches
        /\ call[r].op \in {"searchWithAuth", "unanswered"}
    BY <1>1 DEF RestSearchWithAuth, SelectWindow, Waiting, Searches
  <2>2. Offset(call[r]) \in Nat /\ Limit(call[r]) \in Nat
    BY <2>1, Served, CallFields
  <2>3. pc'[r] \in {"answered", "done"}
    BY <1>0, <1>1 DEF RestSearchWithAuth, SelectWindow, Show, Respond, Goto
  <2>4. pc'[r] = "answered" => Elements(rows'[r]) \subseteq permitted[r]
    <3>1. SUFFICES ASSUME pc'[r] = "answered"
                   PROVE  Elements(rows'[r]) \subseteq permitted[r]
      OBVIOUS
    <3>2. PICK s \in Sorted({q \in Questions : Matches(call[r], q)}),
               offset \in Nat, limit \in Nat :
            rows' = [rows EXCEPT ![r] = Cut(s, offset, limit)]
      <4>1. CASE RestSearchWithAuth(r)
        <5>1. PICK t \in Found(call[r]) : rows' = [rows EXCEPT ![r] = t]
          BY <1>0, <3>1, <4>1 DEF RestSearchWithAuth, Show, Respond, Goto
        <5>. QED
          BY <5>1, <2>2 DEF Found
      <4>2. CASE SelectWindow(r)
        <5>1. PICK s \in Sorted({q \in Questions : Matches(call[r], q)}) :
                rows' = [rows EXCEPT ![r] = Cut(s, 0, window[r])]
          BY <1>0, <3>1, <4>2 DEF SelectWindow, Show, Respond, Goto
        <5>. QED
          BY <1>0, <5>1
      <4>. QED
        BY <1>1, <4>1, <4>2
    <3>3. rows'[r] = Cut(s, offset, limit)
      BY <1>0, <3>2
    <3>. QED
      BY <2>1, <3>3, FoundSeen
  <2>. QED
    BY <2>1, <2>3, <2>4
<1>2. CASE \/ GetAnswerOptions(r) \/ GetAnswerOptionsWithAuth(r)
           \/ GetAdminAnswerOptions(r)
  <2> DEFINE q == call[r].question
  <2>1. /\ pc[r] \in Waiting /\ call[r].op \in OptionReads
        /\ pc'[r] \in {"options", "done"}
    BY <1>0, <1>2 DEF GetAnswerOptions, GetAnswerOptionsWithAuth, GetAdminAnswerOptions,
          Lookup, Waiting, OptionReads, Goto, Respond
  <2>2. /\ call[r].op \notin Searches /\ q \in Questions
        /\ Permitted(call[r]) \subseteq permitted[r]
        /\ Refusal(call[r].op, call[r].cred) = 0
    BY <2>1, Served, CallFields DEF OptionReads, Searches
  <2>3. pc'[r] = "options" => Visible(call[r], q)
    <3>1. CASE GetAnswerOptions(r)
      BY <1>0, <3>1 DEF GetAnswerOptions, Lookup, Goto, Respond, Visible
    <3>2. CASE GetAnswerOptionsWithAuth(r)
      BY <1>0, <3>2 DEF GetAnswerOptionsWithAuth, Lookup, Goto, Respond, Visible
    <3>3. CASE GetAdminAnswerOptions(r)
      <4>1. call[r].op = "adminOptions"
        BY <3>3 DEF GetAdminAnswerOptions
      <4>2. {"is_active", "is_admin"} \subseteq call[r].cred.claims
        BY <2>2, <4>1 DEF Refusal, Open, AdminOnly, AdminAuthFilter
      <4>. QED
        BY <1>0, <3>3, <4>1, <4>2 DEF GetAdminAnswerOptions, Lookup, Goto, Respond, Visible,
              AdminOnly
    <3>. QED
      BY <1>2, <3>1, <3>2, <3>3
  <2>4. Visible(call[r], q) => q \in permitted[r] /\ status[q] # "undrawn"
    BY <2>2, SeeApproved DEF Visible
  <2>. QED
    BY <2>1, <2>3, <2>4
<1>3. CASE ~(\/ RestSearchWithAuth(r) \/ SelectWindow(r) \/ GetAnswerOptions(r)
             \/ GetAnswerOptionsWithAuth(r) \/ GetAdminAnswerOptions(r))
  <2>1. pc'[r] \in {"done", "select"}
    BY <1>0, <1>3
    DEF Serve, Get, GetOne, WithCategories, SearchQuestions, ByLanguage,
        GetMySubmissions, ListSubmissions, SelectOptions, RestSearch, FlagAnswered,
        AnswerWindow, ShowOr500, Show, Respond, Goto
  <2>. QED
    BY <2>1
<1>. QED
  BY <1>1, <1>2, <1>3

\* The effect of an outcome on the replies.
LEMMA OutcomeEffect ==
  ASSUME AnswersOK, NEW r \in Requests, Outcome(r), pc[r] \in Waiting
  PROVE  /\ pc' \in [Requests -> Waiting \cup Ended \cup {"new"}]
         /\ page' \in [Requests -> SUBSET Questions]
         /\ answered' \in [Requests -> SUBSET Questions]
         /\ reply' \in [Requests -> {0, 200, 401, 403, 404, 423, 500}]
         /\ \A s \in Requests \ {r} : /\ pc'[s] = pc[s] /\ page'[s] = page[s]
                                      /\ answered'[s] = answered[s]
                                      /\ reply'[s] = reply[s]
         /\ pc'[r] \in Waiting \cup {"done"}
         /\ pc'[r] # "done" => page'[r] = {} /\ reply'[r] = 0
         /\ page'[r] \subseteq permitted[r]
         /\ reply'[r] = 200 => Good(r, page'[r], answered'[r])
         /\ reply'[r] = 500 => /\ call[r].op \in Searches
                               /\ Suspects(r) \ Translated # {}
<1>1. /\ pc \in [Requests -> Waiting \cup Ended \cup {"new"}]
      /\ page \in [Requests -> SUBSET Questions]
      /\ answered \in [Requests -> SUBSET Questions]
      /\ reply \in [Requests -> {0, 200, 401, 403, 404, 423, 500}]
  BY DEF AnswersOK, TypeOK
<1>2. page[r] = {} /\ reply[r] = 0
  BY DEF AnswersOK, HandlerOK, Waiting
<1>3. CASE /\ \E label \in Waiting : Goto(r, label)
           /\ UNCHANGED <<page, answered, reply>>
  BY <1>1, <1>2, <1>3 DEF Goto, Waiting
<1>4. CASE \E S \in SUBSET Questions, F \in SUBSET Questions :
             Show(r, S, F) /\ Good(r, S, F)
  <2>1. PICK S \in SUBSET Questions, F \in SUBSET Questions :
          Show(r, S, F) /\ Good(r, S, F)
    BY <1>4
  <2>2. /\ pc' = [pc EXCEPT ![r] = "done"] /\ reply' = [reply EXCEPT ![r] = 200]
        /\ page' = [page EXCEPT ![r] = S] /\ answered' = [answered EXCEPT ![r] = F]
    BY <2>1 DEF Show, Respond, Goto
  <2>3. page'[r] = S /\ answered'[r] = F /\ reply'[r] = 200 /\ pc'[r] = "done"
    BY <1>1, <2>2
  <2>4. S \subseteq permitted[r]
    BY <2>1 DEF Good
  <2>. QED
    BY <1>1, <2>1, <2>2, <2>3, <2>4 DEF Waiting, Ended
<1>5. CASE /\ \E code \in {404, 500} :
                /\ Respond(r, code)
                /\ code = 500 => /\ call[r].op \in Searches
                                 /\ Suspects(r) \ Translated # {}
           /\ UNCHANGED <<page, answered>>
  BY <1>1, <1>2, <1>5 DEF Respond, Goto, Waiting, Ended
<1>. QED
  BY <1>3, <1>4, <1>5 DEF Outcome

LEMMA ServeStep ==
  ASSUME AnswersOK, NEW r \in Requests, Serve(r)
  PROVE  AnswersOK'
<1>1. /\ Outcome(r) /\ pc[r] \in Waiting
      /\ UNCHANGED <<tables, call, history>>
  BY ServeOutcome
<1>2. /\ pc' \in [Requests -> Waiting \cup Ended \cup {"new"}]
      /\ page' \in [Requests -> SUBSET Questions]
      /\ answered' \in [Requests -> SUBSET Questions]
      /\ reply' \in [Requests -> {0, 200, 401, 403, 404, 423, 500}]
      /\ \A s \in Requests \ {r} : /\ pc'[s] = pc[s] /\ page'[s] = page[s]
                                   /\ answered'[s] = answered[s]
                                   /\ reply'[s] = reply[s]
      /\ pc'[r] \in Waiting \cup {"done"}
      /\ pc'[r] # "done" => page'[r] = {} /\ reply'[r] = 0
      /\ page'[r] \subseteq permitted[r]
      /\ reply'[r] = 200 => Good(r, page'[r], answered'[r])
      /\ reply'[r] = 500 => /\ call[r].op \in Searches
                            /\ Suspects(r) \ Translated # {}
  BY <1>1, OutcomeEffect
<1>3. /\ window' \in [Requests -> 0..MaxWindow]
      /\ rows' \in [Requests -> Seq(Questions)]
      /\ \A s \in Requests \ {r} : rows'[s] = rows[s]
  BY ServeTypes
<1>4. TypeOK'
  BY <1>1, <1>2, <1>3 DEF AnswersOK, TypeOK, tables, history
<1>5. \A s \in Requests : pc'[s] # "new" => pc[s] # "new"
  BY <1>1, <1>2 DEF Waiting
<1>6. HistoryOK'
  BY <1>1, <1>5
     DEF AnswersOK, HistoryOK, tables, history, Permitted, Answered, Matches, Visible
<1>7. HandlerOK'
  <2>1. /\ call[r] # NoCall /\ pc'[r] # "new"
        /\ Refusal(call[r].op, call[r].cred) = 0
    BY <1>1, <1>2, Served, CallFields DEF Waiting
  <2>2. /\ pc'[r] = "answered" => call[r].op \in {"searchWithAuth", "unanswered"}
        /\ pc'[r] = "options" => call[r].op \in OptionReads
    BY ServeNext
  <2>3. SUFFICES ASSUME NEW s \in Requests
                 PROVE  /\ pc'[s] = "new" <=> call'[s] = NoCall
                        /\ pc'[s] # "done" => page'[s] = {}
                        /\ pc'[s] \in Waiting \cup {"new", "lost"} => reply'[s] = 0
                        /\ pc'[s] = "failed" => reply'[s] = 500
                        /\ pc'[s] = "answered" =>
                             call'[s].op \in {"searchWithAuth", "unanswered"}
                        /\ pc'[s] = "options" => call'[s].op \in OptionReads
                        /\ pc'[s] \in Waiting => Refusal(call'[s].op, call'[s].cred) = 0
    BY DEF HandlerOK, Refusal, Open, AdminOnly, JwtAuthFilter, AdminAuthFilter, Verified,
           OptionReads, Waiting
  <2>4. CASE s = r
    BY <1>1, <1>2, <2>1, <2>2, <2>4 DEF Waiting
  <2>5. CASE s # r
    BY <1>1, <1>2, <2>5 DEF AnswersOK, HandlerOK
  <2>. QED
    BY <2>4, <2>5
<1>8. RowsOK'
  <2>1. SUFFICES ASSUME NEW s \in Requests
                 PROVE  /\ pc'[s] = "answered" =>
                             Elements(rows'[s]) \subseteq permitted'[s]
                        /\ pc'[s] = "options" =>
                             /\ call'[s].question \in permitted'[s]
                             /\ status'[call'[s].question] # "undrawn"
    BY DEF RowsOK, Elements
  <2>2. CASE s = r
    BY <1>1, <2>2, ServeNext DEF tables, history
  <2>3. CASE s # r
    <3>1. /\ pc'[s] = pc[s] /\ rows'[s] = rows[s]
          /\ call' = call /\ permitted' = permitted /\ status' = status
      BY <1>1, <1>2, <1>3, <2>3 DEF tables, history
    <3>2. /\ pc[s] = "answered" => Elements(rows[s]) \subseteq permitted[s]
          /\ pc[s] = "options" => /\ call[s].question \in permitted[s]
                                 /\ status[call[s].question] # "undrawn"
      BY DEF AnswersOK, RowsOK
    <3>3. Elements(rows'[s]) = Elements(rows[s])
      BY <3>1
    <3>. QED
      BY <3>1, <3>2, <3>3
  <2>. QED
    BY <2>2, <2>3
<1>9. ShowsVisible' /\ FlagsTrue' /\ EmptyMeansDeleted' /\ ErrorsSeen'
  <2>1. ShowsVisible'
    BY <1>1, <1>2 DEF AnswersOK, ShowsVisible, history
  <2>2. FlagsTrue'
    BY <1>1, <1>2 DEF AnswersOK, FlagsTrue, history, Good
  <2>3. EmptyMeansDeleted'
    BY <1>1, <1>2 DEF AnswersOK, EmptyMeansDeleted, tables, Good
  <2>4. ErrorsSeen'
    BY <1>1, <1>2 DEF AnswersOK, ErrorsSeen, Suspects, history
  <2>. QED
    BY <2>1, <2>2, <2>3, <2>4
<1>. QED
  BY <1>4, <1>6, <1>7, <1>8, <1>9 DEF AnswersOK

\* What others change: rows keep their types, and what is gone stays gone.
LEMMA TablesMove ==
  ASSUME AnswersOK, Change \/ Restart
  PROVE  /\ status' \in [Questions -> Statuses]
         /\ min_age' \in [Questions -> Ages]
         /\ text' \in [Questions -> Texts]
         /\ submitted_by' \in [Questions -> Users \cup {NoUser}]
         /\ question_user' \subseteq Row
         /\ key' \in Keys
         /\ \A q \in Questions : status[q] # "undrawn" => status'[q] # "undrawn"
         /\ \A q \in Questions : status[q] = "gone" => status'[q] = "gone"
<1>1. /\ status \in [Questions -> Statuses]
      /\ min_age \in [Questions -> Ages]
      /\ text \in [Questions -> Texts]
      /\ submitted_by \in [Questions -> Users \cup {NoUser}]
      /\ question_user \subseteq Row
      /\ key \in Keys
  BY DEF AnswersOK, TypeOK
<1>2. CASE Restart
  BY <1>1, <1>2 DEF Restart
<1>3. CASE Change
  <2>1. PICK q \in Questions, u \in Users, age \in Ages :
          \/ Submit(q, u) \/ Approve(q, age) \/ Reject(q)
          \/ ChangeQuestionText(q) \/ DeleteQuestion(q)
          \/ Answer(q, u) \/ Withdraw(q, u) \/ DeleteUser(u)
    BY <1>3 DEF Change
  <2>2. Hash(u, q, key) \in Row
    BY <1>1 DEF Hash, Row
  <2>3. CASE Submit(q, u)
    BY <1>1, <2>3 DEF Submit, Statuses
  <2>4. CASE Approve(q, age) \/ Reject(q)
    BY <1>1, <2>4 DEF Approve, Reject, Statuses
  <2>5. CASE DeleteQuestion(q)
    BY <1>1, <2>5 DEF DeleteQuestion, Statuses
  <2>6. CASE ChangeQuestionText(q)
    BY <1>1, <2>6 DEF ChangeQuestionText
  <2>7. CASE Answer(q, u) \/ Withdraw(q, u)
    BY <1>1, <2>2, <2>7 DEF Answer, Withdraw
  <2>8. CASE DeleteUser(u)
    BY <1>1, <2>8 DEF DeleteUser
  <2>. QED
    BY <2>1, <2>3, <2>4, <2>5, <2>6, <2>7, <2>8
<1>. QED
  BY <1>2, <1>3

\* Whatever changes, or even stops, the history follows and answers stay.
LEMMA ChangeStep ==
  ASSUME AnswersOK, Change \/ Restart
  PROVE  AnswersOK'
<1>1. /\ UNCHANGED <<call, window, rows, page, answered, reply>>
      /\ pc' \in [Requests -> Waiting \cup Ended \cup {"new"}]
      /\ \A r \in Requests : \/ pc'[r] = pc[r]
                             \/ pc[r] \in Waiting /\ pc'[r] = "lost"
  BY DEF Change, Restart, AnswersOK, TypeOK, InFlight, Ended
<1>2. /\ Changed
      /\ changes' \in 0..MaxChanges
  BY SearchAssumption DEF Change, Restart, Changed, AnswersOK, TypeOK
<1>3. \A r \in Requests : pc[r] # "new" =>
        /\ permitted'[r] = permitted[r] \cup Permitted(call[r])'
        /\ kept'[r] = kept[r] \cap Answered(call[r])'
        /\ touched'[r] = touched[r] \cup Answered(call[r])'
  BY <1>2 DEF Changed
<1>4. \A r \in Requests : pc[r] = "new" =>
        permitted'[r] = {} /\ kept'[r] = {} /\ touched'[r] = {}
  BY <1>2 DEF Changed
<1>5. \A r \in Requests :
        Permitted(call[r])' \subseteq Questions /\ Answered(call[r])' \subseteq Questions
  BY DEF Permitted, Answered
<1>6. TypeOK'
  <2>1. /\ permitted' \in [Requests -> SUBSET Questions]
        /\ kept' \in [Requests -> SUBSET Questions]
        /\ touched' \in [Requests -> SUBSET Questions]
        /\ calm' \in [Requests -> BOOLEAN]
    <3>1. /\ permitted \in [Requests -> SUBSET Questions]
          /\ kept \in [Requests -> SUBSET Questions]
          /\ touched \in [Requests -> SUBSET Questions]
      BY DEF AnswersOK, TypeOK
    <3>. QED
      BY <1>2, <1>5, <3>1 DEF Changed
  <2>2. /\ status' \in [Questions -> Statuses]
        /\ min_age' \in [Questions -> Ages]
         /\ text' \in [Questions -> Texts]
        /\ submitted_by' \in [Questions -> Users \cup {NoUser}]
        /\ question_user' \subseteq Row
        /\ key' \in Keys
    BY TablesMove
  <2>. QED
    BY <1>1, <1>2, <2>1, <2>2 DEF AnswersOK, TypeOK
<1>7. HistoryOK'
  <2>1. SUFFICES ASSUME NEW r \in Requests, pc'[r] # "new"
                 PROVE  /\ Permitted(call[r])' \subseteq permitted'[r]
                        /\ kept'[r] \subseteq Answered(call[r])'
                        /\ Answered(call[r])' \subseteq touched'[r]
    BY DEF HistoryOK
  <2>2. pc[r] # "new"
    BY <1>1, <2>1 DEF Waiting
  <2>. QED
    BY <1>3, <2>2
<1>8. HandlerOK'
  BY <1>1 DEF AnswersOK, HandlerOK, Refusal, Open, AdminOnly, JwtAuthFilter, AdminAuthFilter,
        Verified, Waiting
<1>9. RowsOK'
  <2>1. SUFFICES ASSUME NEW r \in Requests
                 PROVE  /\ pc'[r] = "answered" =>
                             Elements(rows'[r]) \subseteq permitted'[r]
                        /\ pc'[r] = "options" =>
                             /\ call'[r].question \in permitted'[r]
                             /\ status'[call'[r].question] # "undrawn"
    BY DEF RowsOK, Elements
  <2>2. CASE pc'[r] \in {"answered", "options"}
    <3>1. pc[r] = pc'[r] /\ pc[r] \in Waiting
      BY <1>1, <2>2 DEF Waiting
    <3>2. permitted[r] \subseteq permitted'[r] /\ call[r].question \in Questions
      BY <1>3, <3>1, Served, CallFields DEF Waiting
    <3>. QED
      BY <1>1, <3>1, <3>2, TablesMove DEF AnswersOK, RowsOK
  <2>. QED
    BY <2>2
<1>10. \A r \in Requests : pc[r] # "new" =>
         /\ permitted[r] \subseteq permitted'[r] /\ kept'[r] \subseteq kept[r]
         /\ touched[r] \subseteq touched'[r]
  BY <1>3
<1>11. \A r \in Requests : pc[r] = "new" => page[r] = {} /\ reply[r] = 0
  BY DEF AnswersOK, HandlerOK
<1>12. ShowsVisible' /\ FlagsTrue' /\ EmptyMeansDeleted' /\ ErrorsSeen'
  <2>1. ShowsVisible'
    BY <1>1, <1>10, <1>11 DEF AnswersOK, ShowsVisible
  <2>2. FlagsTrue'
    BY <1>1, <1>10, <1>11 DEF AnswersOK, FlagsTrue
  <2>3. EmptyMeansDeleted'
    <3>1. SUFFICES ASSUME NEW r \in Requests, reply[r] = 200,
                          call[r].op \in OptionReads, page[r] = {}
                   PROVE  status'[call[r].question] = "gone"
      BY <1>1 DEF EmptyMeansDeleted, OptionReads
    <3>2. pc[r] # "new" /\ call[r] \in Calls
      BY <1>11, <3>1 DEF AnswersOK, TypeOK, HandlerOK
    <3>3. call[r].question \in Questions /\ status[call[r].question] = "gone"
      BY <3>1, <3>2, CallFields DEF AnswersOK, EmptyMeansDeleted
    <3>. QED
      BY <3>3, TablesMove
  <2>4. ErrorsSeen'
    BY <1>1, <1>10, <1>11 DEF AnswersOK, ErrorsSeen, Suspects
  <2>. QED
    BY <2>1, <2>2, <2>3, <2>4
<1>. QED
  BY <1>6, <1>7, <1>8, <1>9, <1>12 DEF AnswersOK

LEMMA AnswersStep == AnswersOK /\ [Next]_vars => AnswersOK'
<1> SUFFICES ASSUME AnswersOK, [Next]_vars PROVE AnswersOK'
  OBVIOUS
<1>1. CASE UNCHANGED vars
  <2>1. TypeOK' /\ HistoryOK'
    BY <1>1 DEF AnswersOK, vars, tables, history, TypeOK, HistoryOK, Permitted, Answered,
          Matches, Visible
  <2>2. HandlerOK' /\ RowsOK'
    BY <1>1 DEF AnswersOK, vars, tables, history, HandlerOK, RowsOK
  <2>3. ShowsVisible' /\ FlagsTrue' /\ EmptyMeansDeleted' /\ ErrorsSeen'
    BY <1>1 DEF AnswersOK, vars, tables, history, ShowsVisible, FlagsTrue,
          EmptyMeansDeleted, ErrorsSeen, Suspects
  <2>. QED
    BY <2>1, <2>2, <2>3 DEF AnswersOK
<1>. QED
  BY <1>1, NextCases, ArriveStep, ServeStep, FailStep, ChangeStep

(***************************************************************************)
(* The growing window.                                                     *)
(***************************************************************************)
\* Where the tables stay, what a search may find and what it may meet stays.
LEMMA CausesStay ==
  ASSUME UNCHANGED tables, NEW r \in Requests, call'[r] = call[r]
  PROVE  /\ Found(call[r])' = Found(call[r])
         /\ Meets(r) => Meets(r)'
<1> DEFINE M(c) == {q \in Questions : Matches(c, q)}
<1>1. \A c : M(c)' = M(c) /\ Answered(c)' = Answered(c)
  BY DEF tables, Matches, Answered
<1>2. \A c : Found(c)' = Found(c)
  BY <1>1 DEF Found
<1>3. Meets(r) => Meets(r)'
  BY <1>1, <1>2 DEF Meets
<1>. QED
  BY <1>2, <1>3

\* Where a request is not served besides, its rows and its page are what they were.
LEMMA Untouched ==
  ASSUME UNCHANGED tables, NEW r \in Requests,
         call'[r] = call[r], window'[r] = window[r], rows'[r] = rows[r],
         page'[r] = page[r]
  PROVE  /\ FirstRows(r) => FirstRows(r)'
         /\ RightPage(r) => RightPage(r)'
         /\ rows[r] \in Found(call[r]) => rows'[r] \in Found(call[r])'
         /\ Meets(r) => Meets(r)'
<1> DEFINE M(c) == {q \in Questions : Matches(c, q)}
<1>1. \A c : M(c)' = M(c) /\ Answered(c)' = Answered(c)
  BY DEF tables, Matches, Answered
<1>2. FirstRows(r) => FirstRows(r)'
  BY <1>1 DEF FirstRows
<1>3. RightPage(r) => RightPage(r)'
  BY <1>1 DEF RightPage
<1>. QED
  BY <1>2, <1>3, CausesStay

\* The search first asks for at least one row, and for no fewer later on.
LEMMA WindowsGrow ==
  /\ \A n \in Int : Clamp(n) \in 1..MaxWindow
  /\ \A n \in 1..MaxWindow : Widened(n) \in 1..MaxWindow
BY SearchAssumption DEF Clamp, Widened, Least

\* A window that is read holds the first rows; one that suffices gives the page.
LEMMA ServePages ==
  ASSUME IInv, NEW r \in Requests, Serve(r), call[r].op = "unanswered"
  PROVE  /\ pc'[r] \in Waiting => window'[r] >= 1
         /\ pc'[r] = "answered" /\ calm[r] => FirstRows(r)'
         /\ reply'[r] = 200 /\ calm[r] => RightPage(r)'
<1>1. /\ AnswersOK /\ pc[r] \in Waiting /\ UNCHANGED <<tables, call, history>>
      /\ pc \in [Requests -> Waiting \cup Ended \cup {"new"}]
      /\ window \in [Requests -> 0..MaxWindow] /\ rows \in [Requests -> Seq(Questions)]
      /\ page \in [Requests -> SUBSET Questions]
      /\ reply \in [Requests -> {0, 200, 401, 403, 404, 423, 500}]
      /\ reply[r] = 0
  BY ServeOutcome DEF IInv, AnswersOK, TypeOK, HandlerOK
<1>2. /\ window[r] \in 1..MaxWindow
      /\ pc[r] = "answered" /\ calm[r] => FirstRows(r)
  BY <1>1, SearchAssumption DEF IInv, WindowOK
<1>3. /\ call[r] \in Calls /\ Offset(call[r]) \in Nat /\ Limit(call[r]) \in 0..MaxLimit
  <2>1. call[r] \in Calls
    BY <1>1, Served
  <2>2. Offset(call[r]) \in Nat /\ Limit(call[r]) \in Nat /\ call[r].limit \in Int
    BY <2>1, CallFields, CallsAssumption DEF CallType
  <2>3. Limit(call[r]) <= MaxLimit
    BY <2>2, SearchAssumption DEF Limit, Least
  <2>. QED
    BY <2>1, <2>2, <2>3, SearchAssumption
<1> DEFINE M == {q \in Questions : Matches(call[r], q)}
           A == Answered(call[r])
<1>4. /\ M' = M /\ A' = A /\ call'[r] = call[r] /\ M \in SUBSET Questions
  BY <1>1 DEF tables, Matches, Answered
<1>5. SelectWindow(r) \/ AnswerWindow(r)
  <2>0. pc[r] # "options"
    <3>1. pc[r] = "options" => call[r].op \in OptionReads
      BY <1>1 DEF AnswersOK, HandlerOK
    <3>. QED
      BY <3>1 DEF OptionReads
  <2>1. ~SelectOptions(r)
    BY <2>0 DEF SelectOptions
  <2>. QED
    BY <2>1
    DEF Serve, Get, GetOne, WithCategories, SearchQuestions, ByLanguage,
        GetMySubmissions, ListSubmissions, GetAnswerOptions, GetAnswerOptionsWithAuth,
        GetAdminAnswerOptions, RestSearch, RestSearchWithAuth, FlagAnswered
<1>6. CASE SelectWindow(r)
  <2>1. PICK s \in Sorted(M) :
          /\ window' = window
          /\ \/ s = <<>> /\ Show(r, {}, {})
             \/ /\ s # <<>> /\ rows' = [rows EXCEPT ![r] = Cut(s, 0, window[r])]
                /\ Goto(r, "answered") /\ UNCHANGED <<page, answered, reply>>
    BY <1>6 DEF SelectWindow
  <2>2. CASE s = <<>> /\ Show(r, {}, {})
    <3>1. /\ pc'[r] = "done" /\ page'[r] = {}
      BY <1>1, <2>2 DEF Show, Respond, Goto
    <3>2. \E l \in Left(Cut(s, 0, MaxWindow), A) :
             Elements(Cut(l, Offset(call[r]), Limit(call[r]))) = {}
      <4>1. /\ Offset(call[r]) \in Nat /\ Limit(call[r]) \in Nat /\ s = <<>>
            /\ M \in SUBSET Questions
        BY <1>3, <1>4, <2>2, SearchAssumption
      <4> HIDE DEF M, A
      <4>. QED
        BY ONLY <4>1, PageOfNothing
    <3>3. RightPage(r)'
      BY <1>4, <3>1, <3>2 DEF RightPage
    <3>. QED
      BY <3>1, <3>3 DEF Waiting
  <2>3. CASE /\ s # <<>> /\ rows' = [rows EXCEPT ![r] = Cut(s, 0, window[r])]
             /\ Goto(r, "answered") /\ UNCHANGED <<page, answered, reply>>
    <3>1. /\ rows'[r] = Cut(s, 0, window'[r]) /\ window'[r] >= 1 /\ reply'[r] = 0
      BY <1>1, <1>2, <2>1, <2>3
    <3>2. FirstRows(r)'
      BY <1>4, <3>1 DEF FirstRows
    <3>. QED
      BY <3>1, <3>2
  <2>. QED
    BY <2>1, <2>2, <2>3
<1>7. CASE AnswerWindow(r)
  <2> DEFINE c == call[r]
             F == AnsweredIds(r)
  <2>1. PICK n \in Required(c) :
          \/ /\ Enough(r, F, n) /\ window' = window
             /\ ShowOr500(r, Remaining(rows[r], F, 0, LastRank(c, rows[r]) + 1),
                          Remaining(rows[r], F, Offset(c), LastRank(c, rows[r])), {})
          \/ /\ window' = [window EXCEPT ![r] = Widened(window[r])]
             /\ Goto(r, "select") /\ reply' = reply
    BY <1>7 DEF AnswerWindow, LastRank
  <2>2. CASE /\ window' = [window EXCEPT ![r] = Widened(window[r])]
             /\ Goto(r, "select") /\ reply' = reply
    <3>1. window'[r] = Widened(window[r]) /\ pc'[r] = "select" /\ reply'[r] = 0
      BY <1>1, <2>2 DEF Goto
    <3>2. window'[r] >= 1
      BY <1>2, <3>1, WindowsGrow
    <3>. QED
      BY <3>1, <3>2
  <2>3. CASE /\ Enough(r, F, n) /\ window' = window
             /\ ShowOr500(r, Remaining(rows[r], F, 0, LastRank(c, rows[r]) + 1),
                          Remaining(rows[r], F, Offset(c), LastRank(c, rows[r])), {})
    <3>1. /\ pc'[r] = "done"
          /\ reply'[r] = 200 =>
               page'[r] = Remaining(rows[r], F, Offset(c), LastRank(c, rows[r]))
      BY <1>1, <2>3 DEF ShowOr500, Show, Respond, Goto
    <3>2. ASSUME calm[r], reply'[r] = 200
          PROVE  RightPage(r)'
      <4>1. PICK s \in Sorted(M) : rows[r] = Cut(s, 0, window[r])
        BY <1>2, <1>7, <3>2 DEF FirstRows, AnswerWindow
      <4>2. F = Elements(rows[r]) \cap A /\ Holds(rows[r], F, n, window[r])
        BY <2>3 DEF AnsweredIds, Enough, Holds
      <4> HIDE DEF F, A, M, c
      <4>3. \E l \in Left(Cut(s, 0, MaxWindow), A) :
              Remaining(rows[r], F, Offset(c), LastRank(c, rows[r]))
                = Elements(Cut(l, Offset(c), Limit(c)))
        <5>1. /\ Offset(c) \in Nat /\ Limit(c) \in 0..MaxLimit
              /\ M \in SUBSET Questions /\ window[r] \in 1..MaxWindow
          BY <1>2, <1>3, <1>4 DEF c
        <5>. QED
          BY ONLY <2>1, <4>1, <4>2, <5>1, PageOfWindow
      <4>4. page'[r] = Remaining(rows[r], F, Offset(c), LastRank(c, rows[r]))
        BY <3>1, <3>2 DEF c
      <4>5. PICK l \in Left(Cut(s, 0, MaxWindow), A) :
              page'[r] = Elements(Cut(l, Offset(c), Limit(c)))
        BY <4>3, <4>4
      <4>. QED
        BY <1>4, <4>5 DEF RightPage, c, A, M
    <3>. QED
      BY <3>1, <3>2 DEF Waiting
  <2>. QED
    BY <2>1, <2>2, <2>3
<1>. QED
  BY <1>5, <1>6, <1>7

\* A search that fails has met a question without its category's name in a result that
\* the database may return, and rows kept for the second query are a page of one.
LEMMA ServeCauses ==
  ASSUME IInv, NEW r \in Requests, Serve(r), calm[r]
  PROVE  /\ pc'[r] = "answered" /\ call[r].op = "searchWithAuth" =>
              rows'[r] \in Found(call[r])
         /\ reply'[r] = 500 => Meets(r)
<1>1. /\ AnswersOK /\ pc[r] \in Waiting
      /\ pc \in [Requests -> Waiting \cup Ended \cup {"new"}]
      /\ window \in [Requests -> 0..MaxWindow] /\ rows \in [Requests -> Seq(Questions)]
      /\ reply \in [Requests -> {0, 200, 401, 403, 404, 423, 500}]
      /\ reply[r] = 0
  BY ServeOutcome DEF IInv, AnswersOK, TypeOK, HandlerOK
<1>2. CASE RestSearch(r)
  <2>1. PICK s \in Found(call[r]) : ShowOr500(r, Elements(s), Elements(s), {})
    BY <1>2 DEF RestSearch
  <2>2. /\ call[r].op = "search" /\ pc'[r] = "done"
        /\ reply'[r] = 500 => ~(Elements(s) \subseteq Translated)
    BY <1>1, <1>2, <2>1 DEF RestSearch, ShowOr500, Show, Respond, Goto
  <2>. QED
    BY <2>1, <2>2 DEF Meets
<1>3. CASE RestSearchWithAuth(r)
  BY <1>1, <1>3 DEF RestSearchWithAuth, Show, Respond, Goto
<1>4. CASE FlagAnswered(r)
  <2>1. rows[r] \in Found(call[r]) /\ call[r].op = "searchWithAuth"
    BY <1>4 DEF FlagAnswered, IInv, FoundOK
  <2>2. /\ pc'[r] = "done"
        /\ reply'[r] = 500 => ~(Elements(rows[r]) \subseteq Translated)
    BY <1>1, <1>4 DEF FlagAnswered, ShowOr500, Show, Respond, Goto
  <2>. QED
    BY <2>1, <2>2 DEF Meets
<1>5. CASE SelectWindow(r)
  BY <1>1, <1>5 DEF SelectWindow, Show, Respond, Goto
<1>6. CASE AnswerWindow(r)
  <2> DEFINE c == call[r]
             F == AnsweredIds(r)
             t == rows[r]
             last == LastRank(c, t)
             M == {q \in Questions : Matches(c, q)}
  <2>0. c.op = "unanswered" /\ pc[r] = "answered"
    BY <1>6 DEF AnswerWindow
  <2>1. /\ pc'[r] # "answered"
        /\ reply'[r] = 500 => ~(Remaining(t, F, 0, last + 1) \subseteq Translated)
    BY <1>1, <1>6 DEF AnswerWindow, LastRank, ShowOr500, Show, Respond, Goto
  <2>2. SUFFICES ASSUME ~(Remaining(t, F, 0, last + 1) \subseteq Translated)
                 PROVE  Meets(r)
    BY <2>1
  <2>3. PICK j \in 1..Len(t) : /\ t[j] \notin F /\ t[j] \notin Translated
                               /\ Rank(t, F, j) <= last + 1
    BY <2>2 DEF Remaining
  <2>4. /\ window[r] \in 1..MaxWindow /\ FirstRows(r)
    BY <1>1, <2>0, SearchAssumption DEF IInv, WindowOK, Waiting
  <2>5. PICK s \in Sorted(M) : t = Cut(s, 0, window[r])
    BY <2>4 DEF FirstRows
  <2> DEFINE top == Cut(s, 0, MaxWindow)
             A == Answered(c)
  <2>6. F = Elements(t) \cap A
    BY DEF AnsweredIds
  <2>7. /\ j \in 1..Len(top) /\ top[j] = t[j] /\ top[j] \notin A
        /\ Rank(top, A, j) = Rank(t, F, j)
    <3> HIDE DEF t, top, F, A, M
    <3>1. M \in SUBSET Questions
      BY DEF M
    <3>2. window[r] \in Nat /\ window[r] >= 1 /\ MaxWindow \in Nat /\ MaxWindow >= 1
          /\ window[r] <= MaxWindow
      BY <2>4, SearchAssumption
    <3>3. /\ s \in Seq(Questions) /\ t \in Seq(Questions) /\ top \in Seq(Questions)
          /\ Len(s) \in Nat /\ Len(t) = Least(window[r], Len(s))
          /\ Len(top) = Least(MaxWindow, Len(s))
          /\ \A i \in 1..Len(t) : t[i] = s[i]
          /\ \A i \in 1..Len(top) : top[i] = s[i]
      BY <2>5, <3>1, <3>2, Beginning DEF top
    <3>4. Len(t) \in Nat /\ Len(top) \in Nat /\ Len(t) <= Len(top)
      BY <3>2, <3>3 DEF Least
    <3>5. \A i \in 1..Len(t) : i \in 1..Len(top) /\ t[i] = top[i]
      BY <3>3, <3>4
    <3>6. \A i \in 1..Len(t) : /\ t[i] \notin F <=> top[i] \notin A
                                /\ Rank(t, F, i) = Rank(top, A, i)
      <4>1. /\ top \in Seq(Questions) /\ t \in Seq(Questions) /\ Len(t) <= Len(top)
            /\ \A i \in 1..Len(t) : t[i] = top[i]
        BY <3>3, <3>4, <3>5
      <4>. QED
        BY ONLY <2>6, <4>1, SameRanks
    <3>. QED
      BY <2>3, <3>5, <3>6
  <2>8. Limit(c) = 0 \/ Rank(top, A, j) <= Offset(c) + Limit(c) + 1
    BY <2>3, <2>7 DEF LastRank
  <2>9. top[j] \notin A \cup Translated
    BY <2>3, <2>7
  <2> HIDE DEF top, A, t, F, last
  <2>. QED
    BY <2>0, <2>7, <2>8, <2>9 DEF Meets, top, A
<1>7. CASE ~(RestSearch(r) \/ RestSearchWithAuth(r) \/ FlagAnswered(r)
             \/ SelectWindow(r) \/ AnswerWindow(r))
  <2>1. \/ /\ pc' = [pc EXCEPT ![r] = "done"]
           /\ \E code \in {200, 404} : reply' = [reply EXCEPT ![r] = code]
        \/ pc' = [pc EXCEPT ![r] = "options"] /\ reply' = reply
    BY <1>7 DEF Serve, Get, GetOne, WithCategories, SearchQuestions, ByLanguage,
       GetMySubmissions, ListSubmissions, GetAnswerOptions, GetAnswerOptionsWithAuth,
       GetAdminAnswerOptions, Lookup, SelectOptions, Show, Respond, Goto
  <2>. QED
    BY <1>1, <2>1
<1>. QED
  BY <1>2, <1>3, <1>4, <1>5, <1>6, <1>7

\* No step takes the page or the rows of a window away while nothing changes, nor the
\* cause of a failure.
LEMMA PagesStep ==
  ASSUME IInv, AnswersOK', [Next]_vars
  PROVE  WindowOK' /\ PageRight' /\ FoundOK' /\ ErrorsMet'
<1>1. /\ pc \in [Requests -> Waiting \cup Ended \cup {"new"}]
      /\ call \in [Requests -> Calls \cup {NoCall}]
      /\ window \in [Requests -> 0..MaxWindow]
      /\ reply \in [Requests -> {0, 200, 401, 403, 404, 423, 500}]
      /\ calm \in [Requests -> BOOLEAN]
      /\ AnswersOK
  BY DEF IInv, AnswersOK, TypeOK
<1> DEFINE Unanswered(r) == call[r].op = "unanswered"
           Pages(r) == /\ (pc[r] \in Waiting /\ Unanswered(r)) =>
                            /\ window[r] >= 1
                            /\ pc[r] = "answered" /\ calm[r] => FirstRows(r)
                       /\ (reply[r] = 200 /\ Unanswered(r) /\ calm[r]) => RightPage(r)
                       /\ (pc[r] = "answered" /\ call[r].op = "searchWithAuth" /\ calm[r])
                            => rows[r] \in Found(call[r])
                       /\ (reply[r] = 500 /\ pc[r] = "done" /\ calm[r]) => Meets(r)
<1>2. \A r \in Requests : Pages(r)
  BY DEF IInv, WindowOK, PageRight, FoundOK, ErrorsMet
<1>3. SUFFICES ASSUME NEW r \in Requests
               PROVE  Pages(r)'
  BY DEF WindowOK, PageRight, FoundOK, ErrorsMet
\* Requests that others, or nobody, moved.
<1>4. ASSUME UNCHANGED tables, call'[r] = call[r], window'[r] = window[r],
             rows'[r] = rows[r], page'[r] = page[r], reply'[r] = reply[r],
             pc'[r] = pc[r], calm'[r] = calm[r]
      PROVE  Pages(r)'
  BY <1>2, <1>4, Untouched
<1>5. ASSUME NEW q \in Requests, Arrive(q)
      PROVE  Pages(r)'
  <2>1. CASE q = r
    <3>1. PICK c \in Calls :
            /\ call' = [call EXCEPT ![r] = c]
            /\ \/ Refusal(c.op, c.cred) # 0 /\ Respond(r, Refusal(c.op, c.cred))
               \/ /\ Goto(r, "select") /\ reply' = reply
                  /\ \E n \in Required(c) : window' = [window EXCEPT ![r] = Clamp(n)]
      BY <1>5, <2>1 DEF Arrive
    <3>2. Required(c) \subseteq Int /\ Refusal(c.op, c.cred) \in {0, 401, 403, 423}
      BY CallFields
    <3>3. reply[r] = 0
      BY <1>1, <1>5, <2>1 DEF Arrive, AnswersOK, HandlerOK
    <3>4. CASE Respond(r, Refusal(c.op, c.cred))
      <4>1. pc'[r] = "done" /\ reply'[r] # 200
        BY <1>1, <3>2, <3>4 DEF Respond, Goto
      <4>2. reply'[r] # 500
        BY <1>1, <3>2, <3>4 DEF Respond
      <4>. QED
        BY <4>1, <4>2 DEF Waiting
    <3>5. CASE /\ Goto(r, "select") /\ reply' = reply
               /\ \E n \in Required(c) : window' = [window EXCEPT ![r] = Clamp(n)]
      <4>1. pc'[r] = "select" /\ reply'[r] = 0
        BY <1>1, <3>3, <3>5 DEF Goto
      <4>2. window'[r] \in 1..MaxWindow
        BY <1>1, <3>2, <3>5, WindowsGrow
      <4>3. window'[r] >= 1
        BY <4>2, SearchAssumption
      <4>. QED
        BY <4>1, <4>3
    <3>. QED
      BY <3>1, <3>4, <3>5
  <2>2. CASE q # r
    <3>1. /\ UNCHANGED tables /\ call'[r] = call[r] /\ window'[r] = window[r]
          /\ rows'[r] = rows[r] /\ page'[r] = page[r] /\ reply'[r] = reply[r]
          /\ pc'[r] = pc[r] /\ calm'[r] = calm[r]
      <4>1. /\ UNCHANGED <<tables, rows, page>>
            /\ \E c : call' = [call EXCEPT ![q] = c]
            /\ calm' = [calm EXCEPT ![q] = TRUE]
            /\ \E label : pc' = [pc EXCEPT ![q] = label]
            /\ reply' = reply \/ \E code : reply' = [reply EXCEPT ![q] = code]
            /\ window' = window \/ \E n : window' = [window EXCEPT ![q] = n]
        BY <1>5 DEF Arrive, Respond, Goto
      <4>2. call'[r] = call[r] /\ rows'[r] = rows[r] /\ page'[r] = page[r]
        BY <1>1, <2>2, <4>1
      <4>5. pc'[r] = pc[r]
        BY <1>1, <2>2, <4>1
      <4>6. calm'[r] = calm[r]
        <5>1. calm \in [Requests -> BOOLEAN] /\ calm' = [calm EXCEPT ![q] = TRUE]
          BY <1>1, <4>1
        <5>. QED
          BY ONLY <2>2, <5>1, Zenon
      <4>3. reply'[r] = reply[r]
        BY <1>1, <2>2, <4>1
      <4>4. window'[r] = window[r]
        BY <1>1, <2>2, <4>1
      <4>. QED
        BY <4>1, <4>2, <4>3, <4>4, <4>5, <4>6
    <3>. QED
      BY <1>4, <3>1
  <2>. QED
    BY <2>1, <2>2
<1>6. ASSUME NEW q \in Requests, Serve(q)
      PROVE  Pages(r)'
  <2>1. /\ Outcome(q) /\ pc[q] \in Waiting /\ UNCHANGED <<tables, call, history>>
    BY <1>1, <1>6, ServeOutcome
  <2>2. CASE q = r
    <3>1. /\ call'[r] = call[r] /\ calm'[r] = calm[r] /\ pc'[r] \in Waiting \cup {"done"}
      BY <1>1, <2>1, <2>2, OutcomeEffect DEF history
    <3>2. (reply'[r] = 500 /\ pc'[r] = "done" /\ calm[r]) => Meets(r)'
      <4>1. Meets(r) => Meets(r)'
        BY <2>1, <2>2, CausesStay
      <4>. QED
        BY <1>6, <2>2, <4>1, ServeCauses
    <3>3. (pc'[r] = "answered" /\ call[r].op = "searchWithAuth" /\ calm[r])
            => rows'[r] \in Found(call[r])'
      <4>1. Found(call[r])' = Found(call[r])
        BY <2>1, <2>2, CausesStay
      <4>. QED
        BY <1>6, <2>2, <4>1, ServeCauses
    <3>. QED
      BY <1>6, <2>1, <2>2, <3>1, <3>2, <3>3, ServePages DEF history
  <2>3. CASE q # r
    <3>1. /\ rows'[r] = rows[r] /\ window'[r] = window[r]
      BY <1>1, <1>6, <2>3, ServeTypes
    <3>2. /\ pc'[r] = pc[r] /\ page'[r] = page[r] /\ reply'[r] = reply[r]
      BY <1>1, <2>1, <2>3, OutcomeEffect
    <3>. QED
      BY <1>4, <2>1, <3>1, <3>2 DEF history
  <2>. QED
    BY <2>2, <2>3
<1>7. ASSUME NEW q \in Requests, StatementFails(q)
      PROVE  Pages(r)'
  <2>1. /\ UNCHANGED <<tables, call, window, rows, page, history>>
        /\ pc' = [pc EXCEPT ![q] = "failed"] /\ reply' = [reply EXCEPT ![q] = 500]
    BY <1>7 DEF StatementFails, Goto
  <2>2. CASE q = r
    <3>1. pc'[r] = "failed" /\ reply'[r] = 500
      BY <1>1, <2>1, <2>2
    <3>. QED
      BY <3>1 DEF Waiting
  <2>3. CASE q # r
    BY <1>1, <1>4, <2>1, <2>3 DEF history
  <2>. QED
    BY <2>2, <2>3
<1>8. ASSUME Change \/ Restart
      PROVE  Pages(r)'
  <2>1. calm'[r] = FALSE /\ call' = call /\ window' = window
    BY <1>8 DEF Change, Restart, Changed
  <2>2. pc'[r] \in Waiting => pc[r] \in Waiting
    BY <1>1, <1>8 DEF Change, Restart, InFlight, Waiting
  <2>. QED
    BY <1>2, <2>1, <2>2
<1>9. CASE UNCHANGED vars
  BY <1>4, <1>9 DEF vars, history
<1>. QED
  BY <1>5, <1>6, <1>7, <1>8, <1>9, NextCases

(***************************************************************************)
(* The theorems.                                                           *)
(***************************************************************************)
LEMMA SearchStep == IInv /\ [Next]_vars => IInv'
  BY AnswersStep, PagesStep DEF IInv

LEMMA SearchInit == Init => IInv
<1> SUFFICES ASSUME Init PROVE IInv
  OBVIOUS
<1>1. WindowOK /\ PageRight /\ FoundOK /\ ErrorsMet
  BY DEF Init, WindowOK, PageRight, FoundOK, ErrorsMet, Waiting
<1>. QED
  BY <1>1, AnswersInit DEF IInv

THEOREM SearchInductive == Spec => []IInv
<1>. QED
  BY SearchInit, SearchStep, PTL DEF Spec

\* The tables and handlers keep their types (QuestionController's readers).
THEOREM SearchTypeCorrect == Spec => []TypeOK
<1>1. IInv => TypeOK
  BY DEF IInv, AnswersOK
<1>. QED
  BY <1>1, SearchInductive, PTL

\* No interleaving with reviews and deletions shows a client a question it was
\* never allowed to see.
THEOREM OnlyVisibleShown == Spec => []ShowsVisible
<1>1. IInv => ShowsVisible
  BY DEF IInv, AnswersOK
<1>. QED
  BY <1>1, SearchInductive, PTL

\* The flags of rest_search_with_auth, and what its unanswered form leaves out,
\* agree with the answers the caller had while it was served.
THEOREM FlagsAgree == Spec => []FlagsTrue
<1>1. IInv => FlagsTrue
  BY DEF IInv, AnswersOK
<1>. QED
  BY <1>1, SearchInductive, PTL

\* Options are only missing for a question that has gone in between.
THEOREM OptionsComplete == Spec => []EmptyMeansDeleted
<1>1. IInv => EmptyMeansDeleted
  BY DEF IInv, AnswersOK
<1>. QED
  BY <1>1, SearchInductive, PTL

\* searchRowToJson only throws on a question without its category's name.
THEOREM ErrorsExplained == Spec => []ErrorsHaveCause
<1>1. IInv => ErrorsHaveCause
  BY DEF IInv, AnswersOK, ErrorsHaveCause, ErrorsSeen, ErrorsMet
<1>. QED
  BY <1>1, SearchInductive, PTL

\* executeUnansweredSearch stops widening its window at the right moment: what it
\* cuts out of the rows it has is the page of the whole result.
THEOREM PagesRight == Spec => []PageRight
<1>1. IInv => PageRight
  BY DEF IInv
<1>. QED
  BY <1>1, SearchInductive, PTL

\* What a statement changes of a request's window and place.
LEMMA ServeMoves ==
  ASSUME IInv, NEW r \in Requests, Serve(r)
  PROVE  \/ pc'[r] = "done"
         \/ /\ pc[r] = "select" /\ pc'[r] \in {"answered", "options"}
            /\ window'[r] = window[r]
         \/ /\ pc[r] = "answered" /\ pc'[r] = "select"
            /\ window[r] < window'[r]
<1>1. /\ pc \in [Requests -> Waiting \cup Ended \cup {"new"}]
      /\ window \in [Requests -> 0..MaxWindow]
  BY DEF IInv, AnswersOK, TypeOK
<1>2. CASE GetAnswerOptions(r) \/ GetAnswerOptionsWithAuth(r) \/ GetAdminAnswerOptions(r)
  BY <1>1, <1>2 DEF GetAnswerOptions, GetAnswerOptionsWithAuth, GetAdminAnswerOptions,
                    Lookup, Respond, Goto
<1>3. CASE RestSearchWithAuth(r) \/ SelectWindow(r)
  BY <1>1, <1>3 DEF RestSearchWithAuth, SelectWindow, Show, Respond, Goto
<1>4. CASE AnswerWindow(r)
  <2>1. PICK n \in Required(call[r]) :
          \/ pc' = [pc EXCEPT ![r] = "done"]
          \/ /\ ~Enough(r, AnsweredIds(r), n)
             /\ window' = [window EXCEPT ![r] = Widened(window[r])]
             /\ pc' = [pc EXCEPT ![r] = "select"]
    BY <1>4 DEF AnswerWindow, ShowOr500, Show, Respond, Goto
  <2>2. pc[r] = "answered" /\ call[r].op = "unanswered"
    BY <1>4 DEF AnswerWindow
  <2>3. CASE pc' = [pc EXCEPT ![r] = "done"]
    BY <1>1, <2>3
  <2>4. CASE /\ ~Enough(r, AnsweredIds(r), n)
             /\ window' = [window EXCEPT ![r] = Widened(window[r])]
             /\ pc' = [pc EXCEPT ![r] = "select"]
    <3>1. window[r] >= 1
      BY <2>2 DEF IInv, WindowOK, Waiting
    <3>2. window[r] < MaxWindow
      BY <1>1, <2>4, SearchAssumption DEF Enough
    <3>3. window[r] < Widened(window[r])
      BY <1>1, <3>1, <3>2, SearchAssumption DEF Widened, Least
    <3>. QED
      BY <1>1, <2>2, <2>4, <3>3
  <2>. QED
    BY <2>1, <2>3, <2>4
<1>5. CASE ~(GetAnswerOptions(r) \/ GetAnswerOptionsWithAuth(r)
             \/ GetAdminAnswerOptions(r) \/ RestSearchWithAuth(r) \/ SelectWindow(r)
             \/ AnswerWindow(r))
  <2>1. pc' = [pc EXCEPT ![r] = "done"]
    BY <1>5 DEF Serve, Get, GetOne, WithCategories, SearchQuestions, ByLanguage,
       GetMySubmissions, ListSubmissions, SelectOptions, RestSearch, FlagAnswered,
       ShowOr500, Show, Respond, Goto
  <2>. QED
    BY <1>1, <2>1
<1>. QED
  BY <1>2, <1>3, <1>4, <1>5

\* A request sends at most 2 * MaxWindow statements, whatever others do: with
\* the pool serving every statement, EveryRequestEnds follows.
THEOREM RequestsAdvance == Spec => WorkShrinks
<1>1. ASSUME IInv, IInv', [Next]_vars
      PROVE  [\A r \in Requests : /\ Serve(r) => Work(r)' < Work(r)
                                  /\ pc[r] # "new" => Work(r)' <= Work(r)]_vars
  <2>1. /\ pc \in [Requests -> Waiting \cup Ended \cup {"new"}]
        /\ window \in [Requests -> 0..MaxWindow]
        /\ window' \in [Requests -> 0..MaxWindow] /\ MaxWindow \in Nat
    BY <1>1, SearchAssumption DEF IInv, AnswersOK, TypeOK
  <2>2. ASSUME NEW r \in Requests, Serve(r)
        PROVE  Work(r)' < Work(r)
    <3>1. pc[r] \in Waiting /\ window[r] \in 0..MaxWindow /\ window'[r] \in 0..MaxWindow
      BY <1>1, <2>1, <2>2, ServeOutcome DEF IInv
    <3>2. \/ pc'[r] = "done"
          \/ /\ pc[r] = "select" /\ pc'[r] \in {"answered", "options"}
             /\ window'[r] = window[r]
          \/ /\ pc[r] = "answered" /\ pc'[r] = "select"
             /\ window[r] < window'[r]
      BY <1>1, <2>2, ServeMoves
    <3>. QED
      BY <2>1, <3>1, <3>2 DEF Work, Waiting
  <2>3. ASSUME NEW r \in Requests, pc[r] # "new",
               \/ pc'[r] = pc[r] /\ window'[r] = window[r]
               \/ pc'[r] \notin Waiting
        PROVE  Work(r)' <= Work(r)
    <3>1. window[r] \in 0..MaxWindow /\ window'[r] \in 0..MaxWindow
      BY <2>1
    <3>. QED
      BY <2>1, <2>3, <3>1 DEF Work
  <2>4. ASSUME NEW r \in Requests, pc[r] # "new"
        PROVE  Work(r)' <= Work(r)
    <3>1. CASE Serve(r)
      <4>1. Work(r) \in Int /\ Work(r)' \in Int
        <5>1. window[r] \in 0..MaxWindow /\ window'[r] \in 0..MaxWindow
          BY <2>1
        <5>. QED
          BY <2>1, <5>1 DEF Work
      <4>. QED
        BY <2>2, <3>1, <4>1
    <3>2. ASSUME NEW q \in Requests, Serve(q), q # r
          PROVE  pc'[r] = pc[r] /\ window'[r] = window[r]
      BY <1>1, <3>2, ServeOutcome, OutcomeEffect, ServeTypes DEF IInv
    <3>3. ASSUME NEW q \in Requests, Arrive(q)
          PROVE  pc'[r] = pc[r] /\ window'[r] = window[r]
      BY <2>1, <2>4, <3>3 DEF Arrive, Respond, Goto
    <3>4. ASSUME NEW q \in Requests, StatementFails(q)
          PROVE  \/ pc'[r] = pc[r] /\ window'[r] = window[r]
                 \/ pc'[r] \notin Waiting
      BY <2>1, <3>4 DEF StatementFails, Goto, Waiting
    <3>5. CASE Change \/ Restart
      BY <2>1, <2>3, <2>4, <3>5 DEF Change, Restart, Waiting
    <3>6. CASE UNCHANGED vars
      BY <2>3, <2>4, <3>6 DEF vars
    <3>. QED
      BY <1>1, <2>3, <2>4, <3>1, <3>2, <3>3, <3>4, <3>5, <3>6, NextCases
  <2>. QED
    BY <2>2, <2>4
<1>. QED
  BY <1>1, SearchInductive, PTL DEF Spec, WorkShrinks
=============================================================================
