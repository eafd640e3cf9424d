--------------------------- MODULE SessionsProofs ---------------------------
(***************************************************************************)
(* Theorems about Sessions and their proofs.                               *)
(***************************************************************************)
EXTENDS SessionsInv, FiniteSetTheorems, TLAPS

\* Every step, one case per action: what the case analyses below start from.
LEMMA NextCases ==
  ASSUME Next
  PROVE  \/ \E r \in Requests : Arrive(r)
         \/ \E r \in Requests : LoginSelect(r)
         \/ \E r \in Requests : LoginInsert(r)
         \/ \E r \in Requests : Logout(r)
         \/ \E r \in Requests : RefreshSelect(r)
         \/ \E r \in Requests : RefreshRevoke(r)
         \/ \E r \in Requests : RefreshUser(r)
         \/ \E r \in Requests : RefreshInsert(r)
         \/ \E r \in Requests : ForgotSelect(r)
         \/ \E r \in Requests : ForgotInsert(r)
         \/ \E r \in Requests : Begin(r)
         \/ \E r \in Requests : Claim(r)
         \/ \E r \in Requests : CountAttempt(r)
         \/ \E r \in Requests : UpdatePassword(r)
         \/ \E r \in Requests : RevokeAll(r)
         \/ \E r \in Requests : Commit(r)
         \/ \E r \in Requests : CommitFails(r)
         \/ \E r \in Requests : CommitUnnoticed(r)
         \/ \E r \in Requests : StatementFails(r)
         \/ \E r \in Requests : Preflight(r)
         \/ \E r \in Requests : UpdateMe(r)
         \/ \E r \in Requests : SetActive(r)
         \/ \E r \in Requests : DeleteUser(r)
         \/ \E r \in Requests : Cascade(r)
         \/ \E r \in Requests : Expire(r)
         \/ Crash
         \/ UNCHANGED vars
  BY DEF Next, Serve, Disturb, Finished

\* What a request of each operation carries.
LEMMA CallFields ==
  ASSUME NEW c \in Calls \cup {NoCall}
  PROVE  /\ c.op \in Operations \cup {"none"}
         /\ c # NoCall => c.op \in Operations /\ c.user \in Users
         /\ c = NoCall => c.op = "none"
         /\ c.op \in {"logout", "refresh", "reset"} => c.token \in Requests
         /\ c.op \in {"login", "update", "reset"} => c.password \in Passwords
  BY DEF Calls, NoCall, Operations

\* Setting a flag keeps every row's request and user, and revokes what it names.
LEMMA RevokeRows ==
  ASSUME NEW rows \in SUBSET RefreshToken, NEW gone
  PROVE  /\ Revoke(rows, gone) \in SUBSET RefreshToken
         /\ \A t \in Revoke(rows, gone) :
              \E s \in rows : /\ s.req = t.req /\ s.user = t.user
                              /\ s.revoked => t.revoked
         /\ \A s \in rows :
              \E t \in Revoke(rows, gone) :
                 /\ s.req = t.req /\ s.user = t.user
                 /\ s.revoked \/ s.req \in gone => t.revoked
         /\ \A t \in Revoke(rows, gone) : t.req \in gone => t.revoked
<1> DEFINE kept == {t \in rows : t.req \notin gone}
           hit == {[t EXCEPT !.revoked = TRUE] : t \in {x \in rows : x.req \in gone}}
<1>1. Revoke(rows, gone) = kept \cup hit
  BY DEF Revoke
<1>2. \A x \in rows : LET y == [x EXCEPT !.revoked = TRUE] IN
        y \in RefreshToken /\ y.req = x.req /\ y.user = x.user /\ y.revoked
  BY DEF RefreshToken
<1>3. \A t \in hit : \E x \in rows : x.req \in gone /\ t = [x EXCEPT !.revoked = TRUE]
  OBVIOUS
<1>4. \A x \in rows : x.req \in gone => [x EXCEPT !.revoked = TRUE] \in hit
  OBVIOUS
<1>5. \A t \in kept : t \in rows /\ t.req \notin gone
  OBVIOUS
<1>6. \A x \in rows : x.req \notin gone => x \in kept
  OBVIOUS
<1> HIDE DEF kept, hit
<1>7. kept \cup hit \subseteq RefreshToken
  BY <1>2, <1>3, <1>5
<1>8. \A t \in kept \cup hit :
        /\ \E s \in rows : s.req = t.req /\ s.user = t.user /\ (s.revoked => t.revoked)
        /\ t.req \in gone => t.revoked
  BY <1>2, <1>3, <1>5
<1>9. \A s \in rows : \E t \in kept \cup hit :
        /\ s.req = t.req /\ s.user = t.user
        /\ s.revoked \/ s.req \in gone => t.revoked
  <2> SUFFICES ASSUME NEW s \in rows
               PROVE  \E t \in kept \cup hit :
                        /\ s.req = t.req /\ s.user = t.user
                        /\ s.revoked \/ s.req \in gone => t.revoked
    OBVIOUS
  <2>1. CASE s.req \in gone
    BY <2>1, <1>2, <1>4
  <2>2. CASE s.req \notin gone
    BY <2>2, <1>6
  <2>. QED
    BY <2>1, <2>2
<1>. QED
  BY <1>1, <1>7, <1>8, <1>9

(***************************************************************************)
(* Types.                                                                  *)
(***************************************************************************)
\* The tables hold rows of the right kind, and a handler only runs the
\* statements of its own operation.
Typed == TypeOK /\ HandlerOK

LEMMA TypedInit == Init => Typed
  BY SessionsAssumption
  DEF Init, Typed, TypeOK, HandlerOK, Codes, NoCall, ResetLabels, RefreshLabels

\* The rows a statement writes.
LEMMA RowTypes ==
  ASSUME Typed, NEW r \in Requests, pc[r] # "new"
  PROVE  /\ call[r] \in Calls /\ call[r].op \in Operations /\ call[r].user \in Users
         /\ call[r].op \in {"logout", "refresh", "reset"} => call[r].token \in Requests
         /\ call[r].op \in {"login", "update", "reset"} => call[r].password \in Passwords
         /\ NewToken(r) \in RefreshToken
         /\ [req |-> r, user |-> call[r].user, used |-> FALSE, attempts |-> 0]
              \in PasswordReset
<1>1. call[r] \in Calls \cup {NoCall} /\ call[r] # NoCall
  BY DEF Typed, TypeOK, HandlerOK
<1>. QED
  BY <1>1, CallFields DEF NewToken, RefreshToken, PasswordReset

\* Writing the flag or the counter of a reset token keeps its other columns.
LEMMA ResetRowTypes ==
  ASSUME NEW p \in PasswordReset
  PROVE  /\ [p EXCEPT !.used = TRUE] \in PasswordReset
         /\ [p EXCEPT !.attempts = @ + 1] \in PasswordReset
<1>1. p.attempts + 1 \in Nat
  BY DEF PasswordReset
<1>2. [p EXCEPT !.attempts = p.attempts + 1] \in PasswordReset
  BY <1>1 DEF PasswordReset
<1>. QED
  BY <1>2 DEF PasswordReset

LEMMA ApplyResetTypes ==
  ASSUME Typed, NEW r \in Requests, pc[r] = "commit", ApplyReset(r)
  PROVE  /\ password' \in [Users -> Passwords]
         /\ password_resets' \subseteq PasswordReset
         /\ refresh_tokens' \subseteq RefreshToken
         /\ revoking' \in [Requests -> SUBSET Requests]
         /\ resets' \subseteq Requests
<1>1. call[r].user \in Users /\ call[r].password \in Passwords
  BY RowTypes DEF Typed, HandlerOK, ResetLabels
<1>2. password_resets \subseteq PasswordReset
  BY DEF Typed, TypeOK
<1>3. \A p \in password_resets : [p EXCEPT !.used = TRUE] \in PasswordReset
  BY <1>2, ResetRowTypes
<1>4. password_resets' \subseteq PasswordReset
  BY <1>2, <1>3 DEF ApplyReset
<1>5. refresh_tokens' \subseteq RefreshToken
  BY RevokeRows DEF ApplyReset, Typed, TypeOK
<1>. QED
  BY <1>1, <1>4, <1>5 DEF ApplyReset, Typed, TypeOK

LEMMA CountedTypes ==
  ASSUME Typed, NEW r \in Requests, CountAttempt(r)
  PROVE  password_resets' \subseteq PasswordReset
<1>1. password_resets \subseteq PasswordReset
  BY DEF Typed, TypeOK
<1>2. \A p \in password_resets : [p EXCEPT !.attempts = @ + 1] \in PasswordReset
  BY <1>1, ResetRowTypes
<1>. QED
  BY <1>1, <1>2 DEF CountAttempt

LEMMA TypedNext == Typed /\ [Next]_vars => Typed'
<1> SUFFICES ASSUME Typed, [Next]_vars PROVE Typed'
  OBVIOUS
<1>A. \A r \in Requests :
        (pc[r] = "commit" /\ ApplyReset(r)) =>
          /\ password' \in [Users -> Passwords]
          /\ password_resets' \subseteq PasswordReset
          /\ refresh_tokens' \subseteq RefreshToken
          /\ revoking' \in [Requests -> SUBSET Requests]
          /\ resets' \subseteq Requests
  BY ApplyResetTypes
<1>B. \A r \in Requests : CountAttempt(r) => password_resets' \subseteq PasswordReset
  BY CountedTypes
<1>C. \A r \in Requests : pc[r] # "new" =>
        /\ call[r].user \in Users
        /\ call[r].op \in {"login", "update", "reset"} => call[r].password \in Passwords
        /\ NewToken(r) \in RefreshToken
        /\ [req |-> r, user |-> call[r].user, used |-> FALSE, attempts |-> 0]
             \in PasswordReset
  BY RowTypes
<1>D. \A gone : Revoke(refresh_tokens, gone) \subseteq RefreshToken
  BY RevokeRows DEF Typed, TypeOK
<1> USE SessionsAssumption
    DEF Typed, TypeOK, HandlerOK, ResetLabels, RefreshLabels, tables, locals,
        Goto, Respond, InTrans, Waiting, Ended, Codes
<1>1. ASSUME NEW r \in Requests, Arrive(r) PROVE Typed'
  <2>1. PICK c \in Calls :
          /\ c.op \in Ops
          /\ call' = [call EXCEPT ![r] = c]
          /\ pc' = [pc EXCEPT ![r] = FirstStatement(c.op)]
          /\ reply' = reply
          /\ pc[r] = "new"
    BY <1>1 DEF Arrive
  <2>2. c.op \in Operations /\ c # NoCall
    <3>1. c.op \in Operations
      BY <2>1
    <3>2. NoCall.op = "none" /\ "none" \notin Operations
      BY DEF NoCall, Operations
    <3>. QED
      BY <3>1, <3>2
  <2>3. /\ FirstStatement(c.op) \in Waiting
        /\ FirstStatement(c.op) \in ResetLabels => c.op = "reset"
        /\ FirstStatement(c.op) \in RefreshLabels => c.op = "refresh"
        /\ FirstStatement(c.op) \in {"login_select", "login_insert"} => c.op = "login"
        /\ FirstStatement(c.op) \in {"forgot_select", "forgot_insert"} => c.op = "forgot"
        /\ FirstStatement(c.op) = "logout_update" => c.op = "logout"
    BY <2>2 DEF FirstStatement, Operations
  <2>. QED
    BY <1>1, <2>1, <2>2, <2>3 DEF Arrive
<1>2. ASSUME NEW r \in Requests, LoginSelect(r) PROVE Typed'
  <2>1. CASE pc' = [pc EXCEPT ![r] = "done"] /\ claim' = claim
    BY <1>2, <2>1 DEF LoginSelect
  <2>2. CASE /\ pc' = [pc EXCEPT ![r] = "login_insert"]
             /\ claim' = [claim EXCEPT ![r] = accounts[call[r].user]]
             /\ accounts[call[r].user] # "gone"
    <3>1. pc[r] # "new"
      BY <1>2 DEF LoginSelect
    <3>2. call[r].user \in Users
      BY <1>C, <3>1
    <3>3. accounts[call[r].user] \in {"active", "inactive"}
      BY <2>2, <3>2
    <3>. QED
      BY <1>2, <2>2, <3>3 DEF LoginSelect
  <2>. QED
    BY <1>2, <2>1, <2>2 DEF LoginSelect
<1>3. ASSUME NEW r \in Requests, LoginInsert(r) PROVE Typed'
  <2>0. pc[r] # "new" /\ InsertToken(r)
    BY <1>3 DEF LoginInsert
  <2>1. refresh_tokens' \subseteq RefreshToken
    <3>1. refresh_tokens' \subseteq refresh_tokens \cup {NewToken(r)}
      BY <2>0 DEF InsertToken
    <3>2. NewToken(r) \in RefreshToken
      BY <1>C, <2>0
    <3>. QED
      BY <3>1, <3>2
  <2>2. PICK code \in {200, 500} : /\ pc' = [pc EXCEPT ![r] = "done"]
                                   /\ reply' = [reply EXCEPT ![r] = code]
    BY <1>3 DEF LoginInsert, InsertToken
  <2>. QED
    BY <1>3, <2>1, <2>2 DEF LoginInsert
<1>4. ASSUME NEW r \in Requests, Logout(r) PROVE Typed'
  BY <1>4, <1>D DEF Logout
<1>5. ASSUME NEW r \in Requests, RefreshSelect(r) PROVE Typed'
  BY <1>5 DEF RefreshSelect
<1>6. ASSUME NEW r \in Requests, RefreshRevoke(r) PROVE Typed'
  BY <1>6, <1>D DEF RefreshRevoke
<1>7. ASSUME NEW r \in Requests, RefreshUser(r) PROVE Typed'
  BY <1>7 DEF RefreshUser
<1>8. ASSUME NEW r \in Requests, RefreshInsert(r) PROVE Typed'
  <2>0. pc[r] # "new" /\ InsertToken(r)
    BY <1>8 DEF RefreshInsert
  <2>1. refresh_tokens' \subseteq RefreshToken
    <3>1. refresh_tokens' \subseteq refresh_tokens \cup {NewToken(r)}
      BY <2>0 DEF InsertToken
    <3>2. NewToken(r) \in RefreshToken
      BY <1>C, <2>0
    <3>. QED
      BY <3>1, <3>2
  <2>2. PICK code \in {200, 500} : /\ pc' = [pc EXCEPT ![r] = "done"]
                                   /\ reply' = [reply EXCEPT ![r] = code]
    BY <1>8 DEF RefreshInsert, InsertToken
  <2>. QED
    BY <1>8, <2>1, <2>2 DEF RefreshInsert
<1>9. ASSUME NEW r \in Requests, ForgotSelect(r) PROVE Typed'
  BY <1>9 DEF ForgotSelect
<1>10. ASSUME NEW r \in Requests, ForgotInsert(r) PROVE Typed'
  BY <1>10, <1>C DEF ForgotInsert
<1>11. ASSUME NEW r \in Requests, Begin(r) PROVE Typed'
  BY <1>11 DEF Begin
<1>12. ASSUME NEW r \in Requests, Claim(r) PROVE Typed'
  BY <1>12 DEF Claim
<1>13. ASSUME NEW r \in Requests, CountAttempt(r) PROVE Typed'
  <2>1. password_resets' \subseteq PasswordReset
    BY <1>13, <1>B
  <2>. QED
    BY <1>13, <2>1 DEF CountAttempt
<1>14. ASSUME NEW r \in Requests, UpdatePassword(r) PROVE Typed'
  BY <1>14 DEF UpdatePassword
<1>15. ASSUME NEW r \in Requests, RevokeAll(r) PROVE Typed'
  <2>1. {t.req : t \in {x \in refresh_tokens : x.user = call[r].user}} \subseteq Requests
    BY DEF RefreshToken
  <2>. QED
    BY <1>15, <2>1 DEF RevokeAll
<1>16. ASSUME NEW r \in Requests, Commit(r) \/ CommitUnnoticed(r) PROVE Typed'
  <2>1. pc[r] = "commit" /\ ApplyReset(r)
    BY <1>16 DEF Commit, CommitUnnoticed
  <2>2. UNCHANGED <<accounts, expired, call, claim, verified>>
    BY <2>1 DEF ApplyReset
  <2>3. PICK code \in {200, 500} : /\ pc' = [pc EXCEPT ![r] = "done"]
                                   /\ reply' = [reply EXCEPT ![r] = code]
    BY <1>16 DEF Commit, CommitUnnoticed
  <2>. QED
    BY <1>A, <2>1, <2>2, <2>3
<1>17. ASSUME NEW r \in Requests, CommitFails(r) PROVE Typed'
  BY <1>17 DEF CommitFails
<1>18. ASSUME NEW r \in Requests, StatementFails(r) PROVE Typed'
  <2>1. CASE pc[r] = "count_attempt"
    BY <1>18, <2>1 DEF StatementFails
  <2>2. CASE pc[r] # "count_attempt"
    <3>1. PICK code \in {200, 500} : /\ pc' = [pc EXCEPT ![r] = "done"]
                                     /\ reply' = [reply EXCEPT ![r] = code]
      BY <1>18, <2>2 DEF StatementFails
    <3>. QED
      BY <1>18, <2>2, <3>1 DEF StatementFails
  <2>. QED
    BY <2>1, <2>2
<1>19. ASSUME NEW r \in Requests, Preflight(r) PROVE Typed'
  BY <1>19 DEF Preflight
<1>20. ASSUME NEW r \in Requests, UpdateMe(r) PROVE Typed'
  <2>0. pc[r] # "new" /\ call[r].op = "update"
    BY <1>20 DEF UpdateMe
  <2>1. password' \in [Users -> Passwords]
    <3>1. call[r].password \in Passwords
      BY <1>C, <2>0
    <3>2. \/ password' = password
          \/ password' = [password EXCEPT ![call[r].user] = call[r].password]
      BY <1>20 DEF UpdateMe
    <3>. QED
      BY <3>1, <3>2
  <2>2. PICK code \in {200, 404} : /\ pc' = [pc EXCEPT ![r] = "done"]
                                   /\ reply' = [reply EXCEPT ![r] = code]
    BY <1>20 DEF UpdateMe
  <2>. QED
    BY <1>20, <2>1, <2>2 DEF UpdateMe
<1>21. ASSUME NEW r \in Requests, SetActive(r) PROVE Typed'
  BY <1>21, <1>C DEF SetActive
<1>22. ASSUME NEW r \in Requests, DeleteUser(r) PROVE Typed'
  BY <1>22 DEF DeleteUser
<1>26. ASSUME NEW r \in Requests, Cascade(r) PROVE Typed'
  <2>1. /\ accounts' = [accounts EXCEPT ![call[r].user] = "gone"]
        /\ refresh_tokens' \subseteq refresh_tokens
        /\ password_resets' \subseteq password_resets
        /\ pc' = [pc EXCEPT ![r] = "done"] /\ reply' = [reply EXCEPT ![r] = 204]
        /\ UNCHANGED <<password, expired, locals, resets>>
    BY <1>26 DEF Cascade
  <2>2. pc[r] = "cascade"
    BY <1>26 DEF Cascade
  <2>3. accounts' \in [Users -> {"active", "inactive", "gone"}]
    BY <2>1
  <2>4. TypeOK'
    BY <2>1, <2>3
  <2>5. HandlerOK'
    BY <2>1, <2>2
  <2>. QED
    BY <2>4, <2>5
<1>23. ASSUME NEW r \in Requests, Expire(r) PROVE Typed'
  BY <1>23 DEF Expire
<1>24. ASSUME Crash PROVE Typed'
  BY <1>24 DEF Crash, InFlight
<1>25. ASSUME UNCHANGED vars PROVE Typed'
  BY <1>25 DEF vars
<1>. QED
  BY <1>1, <1>2, <1>3, <1>4, <1>5, <1>6, <1>7, <1>8, <1>9, <1>10, <1>11, <1>12,
     <1>13, <1>14, <1>15, <1>16, <1>17, <1>18, <1>19, <1>20, <1>21, <1>22,
     <1>23, <1>24, <1>25, <1>26, NextCases

\* The tables of accounts and tokens hold rows of the right kind in every
\* reachable state.
THEOREM TypeCorrect == Spec => []TypeOK
<1>1. Typed => TypeOK
  BY DEF Typed
<1>. QED
  BY <1>1, TypedInit, TypedNext, PTL DEF Spec

(***************************************************************************)
(* What a step keeps.                                                      *)
(***************************************************************************)
\* Calls are fixed on arrival, ended requests stay as they are, and expiry,
\* committed resets and the deletion of an account are for good.
Stable ==
  /\ \A s \in Requests : pc[s] # "new" => pc'[s] # "new" /\ call'[s] = call[s]
  /\ \A s \in Requests : pc[s] = "done" => pc'[s] = "done"
  /\ expired \subseteq expired'
  /\ resets \subseteq resets'
  /\ \A u \in Users : accounts[u] = "gone" => accounts'[u] = "gone"

LEMMA StableNext ==
  ASSUME Typed, [Next]_vars
  PROVE  Stable
<1> USE DEF Typed, TypeOK, Stable, tables, locals, Goto, Respond, InTrans, Waiting
<1>1. ASSUME NEW r \in Requests, Arrive(r) PROVE Stable
  BY <1>1 DEF Arrive
<1>2. ASSUME NEW r \in Requests,
         LoginSelect(r) \/ LoginInsert(r) \/ Logout(r)
      PROVE  Stable
  BY <1>2 DEF LoginSelect, LoginInsert, InsertToken, Logout
<1>3. ASSUME NEW r \in Requests,
         RefreshSelect(r) \/ RefreshRevoke(r) \/ RefreshUser(r) \/ RefreshInsert(r)
      PROVE  Stable
  BY <1>3 DEF RefreshSelect, RefreshRevoke, RefreshUser, RefreshInsert, InsertToken
<1>4. ASSUME NEW r \in Requests,
         ForgotSelect(r) \/ ForgotInsert(r) \/ Begin(r)
      PROVE  Stable
  BY <1>4 DEF ForgotSelect, ForgotInsert, Begin
<1>5. ASSUME NEW r \in Requests,
         Claim(r) \/ CountAttempt(r) \/ UpdatePassword(r) \/ RevokeAll(r)
      PROVE  Stable
  BY <1>5 DEF Claim, CountAttempt, UpdatePassword, RevokeAll
<1>6. ASSUME NEW r \in Requests, Commit(r) \/ CommitUnnoticed(r)
      PROVE  Stable
  BY <1>6 DEF Commit, CommitUnnoticed, ApplyReset
<1>7. ASSUME NEW r \in Requests, CommitFails(r) \/ StatementFails(r)
      PROVE  Stable
  BY <1>7 DEF CommitFails, StatementFails
<1>8. ASSUME NEW r \in Requests, Preflight(r) \/ UpdateMe(r)
      PROVE  Stable
  BY <1>8 DEF Preflight, UpdateMe
<1>9. ASSUME NEW r \in Requests, SetActive(r) PROVE Stable
  BY <1>9 DEF SetActive
<1>10. ASSUME NEW r \in Requests, DeleteUser(r) PROVE Stable
  BY <1>10 DEF DeleteUser
<1>12. ASSUME NEW r \in Requests, Cascade(r) PROVE Stable
  BY <1>12 DEF Cascade
<1>11. CASE Crash \/ UNCHANGED vars \/ \E r \in Requests : Expire(r)
  BY <1>11 DEF Crash, InFlight, vars, Expire
<1>. QED
  BY <1>1, <1>2, <1>3, <1>4, <1>5, <1>6, <1>7, <1>8, <1>9, <1>10, <1>11, <1>12,
     NextCases

\* A row of refresh_tokens that is left of an earlier one.
SameToken(s, t) ==
  s.req = t.req /\ s.user = t.user /\ (s.revoked => t.revoked)

\* A row of refresh_tokens that a login or a refresh has just written.
StoredNow(t) ==
  /\ t.req \in Requests
  /\ pc[t.req] \in {"login_insert", "refresh_insert"} /\ pc'[t.req] = "done"
  /\ t = NewToken(t.req) /\ ConnectionFree
  /\ accounts' = accounts /\ accounts[t.user] # "gone"

\* Rows of refresh_tokens come from INSERTs, are never given back to the living,
\* and go only with their account.
TokensStep ==
  /\ \A t \in refresh_tokens' :
       \/ /\ \E s \in refresh_tokens : SameToken(s, t)
          /\ accounts'[t.user] = "gone" => accounts[t.user] = "gone"
       \/ StoredNow(t)
  /\ \A s \in refresh_tokens : accounts'[s.user] # "gone" =>
       \E t \in refresh_tokens' : SameToken(s, t)

LEMMA TokensRevoked ==
  ASSUME Typed, NEW gone,
         refresh_tokens' = Revoke(refresh_tokens, gone), accounts' = accounts
  PROVE  TokensStep
<1>1. refresh_tokens \in SUBSET RefreshToken
  BY DEF Typed, TypeOK
<1>. QED
  BY <1>1, RevokeRows DEF TokensStep, SameToken

LEMMA TokensStored ==
  ASSUME Typed, NEW r \in Requests, LoginInsert(r) \/ RefreshInsert(r)
  PROVE  TokensStep
<1>1. /\ InsertToken(r) /\ pc[r] \in {"login_insert", "refresh_insert"}
      /\ ConnectionFree /\ accounts' = accounts
  BY DEF LoginInsert, RefreshInsert
<1>2. NewToken(r).req = r /\ NewToken(r).user = call[r].user
  BY DEF NewToken
<1>3. CASE refresh_tokens' = refresh_tokens
  BY <1>1, <1>3 DEF TokensStep, SameToken
<1>4. CASE /\ accounts[call[r].user] # "gone"
           /\ refresh_tokens' = refresh_tokens \cup {NewToken(r)}
           /\ Respond(r, 200)
  <2>1. pc'[r] = "done"
    BY <1>4 DEF Respond, Typed, TypeOK
  <2>2. StoredNow(NewToken(r))
    BY <1>1, <1>2, <1>4, <2>1 DEF StoredNow
  <2>. QED
    BY <1>1, <1>4, <2>2 DEF TokensStep, SameToken
<1>. QED
  BY <1>1, <1>3, <1>4 DEF InsertToken

LEMMA TokensNext ==
  ASSUME Typed, [Next]_vars
  PROVE  TokensStep
<1>1. ASSUME refresh_tokens' = refresh_tokens,
             \A u \in Users : accounts'[u] = "gone" => accounts[u] = "gone"
      PROVE  TokensStep
  BY <1>1 DEF TokensStep, SameToken, Typed, TypeOK, RefreshToken
<1>2. ASSUME NEW r \in Requests,
         \/ Arrive(r) \/ LoginSelect(r) \/ RefreshSelect(r) \/ RefreshUser(r)
         \/ ForgotSelect(r) \/ ForgotInsert(r) \/ Begin(r) \/ Claim(r)
         \/ CountAttempt(r) \/ UpdatePassword(r) \/ RevokeAll(r)
         \/ CommitFails(r) \/ StatementFails(r) \/ Preflight(r) \/ UpdateMe(r)
         \/ DeleteUser(r) \/ Expire(r)
      PROVE  refresh_tokens' = refresh_tokens /\ accounts' = accounts
  BY <1>2 DEF Arrive, LoginSelect, RefreshSelect, RefreshUser, ForgotSelect,
       ForgotInsert, Begin, Claim, CountAttempt, UpdatePassword, RevokeAll,
       CommitFails, StatementFails, Preflight, UpdateMe, DeleteUser, Expire, tables
<1>3. CASE Crash \/ UNCHANGED vars
  BY <1>1, <1>3 DEF Crash, tables, vars
<1>4. ASSUME NEW r \in Requests, LoginInsert(r) \/ RefreshInsert(r)
      PROVE  TokensStep
  BY <1>4, TokensStored
<1>5. ASSUME NEW r \in Requests,
         Logout(r) \/ RefreshRevoke(r) \/ Commit(r) \/ CommitUnnoticed(r)
      PROVE  TokensStep
  BY <1>5, TokensRevoked DEF Logout, RefreshRevoke, Commit, CommitUnnoticed, ApplyReset
<1>6. ASSUME NEW r \in Requests, SetActive(r) PROVE TokensStep
  <2>1. refresh_tokens' = refresh_tokens
    BY <1>6 DEF SetActive
  <2>2. \A u \in Users : accounts'[u] = "gone" => accounts[u] = "gone"
    BY <1>6 DEF SetActive, Typed, TypeOK
  <2>. QED
    BY <1>1, <2>1, <2>2
<1>7. ASSUME NEW r \in Requests, Cascade(r) PROVE TokensStep
  <2>1. /\ accounts' = [accounts EXCEPT ![call[r].user] = "gone"]
        /\ refresh_tokens' = {t \in refresh_tokens : t.user # call[r].user}
    BY <1>7 DEF Cascade
  <2>2. \A t \in refresh_tokens : t.user \in Users
    BY DEF Typed, TypeOK, RefreshToken
  <2>3. call[r].user \in Users
    BY <1>7, RowTypes DEF Cascade
  <2>. QED
    BY <2>1, <2>2, <2>3 DEF TokensStep, SameToken, Typed, TypeOK
<1>. QED
  BY <1>1, <1>2, <1>3, <1>4, <1>5, <1>6, <1>7, NextCases

\* A row of password_resets that is left of an earlier one, by a step that has
\* committed the resets in done.
SameReset(p, q, done) ==
  /\ p.req = q.req /\ p.user = q.user
  /\ q.used <=> p.used \/ \E r \in done : call[r].token = q.req

\* A row of password_resets that forgot_password has just written.
DrawnNow(q) ==
  /\ q.req \in Requests
  /\ pc[q.req] = "forgot_insert" /\ pc'[q.req] = "done"
  /\ q.user = call[q.req].user /\ ~q.used /\ q.attempts = 0
  /\ accounts' = accounts /\ accounts[q.user] # "gone"
  /\ resets' = resets

\* attempt_count is raised for a row by the request that was refused it.
CountedNow(p, q) ==
  p.attempts = q.attempts
    \/ \E r \in Requests : pc[r] = "count_attempt" /\ call[r].token = p.req

\* Rows of password_resets come from forgot_password, become used exactly when a
\* reset is committed, and go only with their account, which an open reset that
\* has claimed one of them does not allow.
ResetsStep ==
  /\ \A q \in password_resets' :
       \/ /\ \E p \in password_resets :
                SameReset(p, q, resets' \ resets) /\ CountedNow(p, q)
          /\ accounts'[q.user] = "gone" => accounts[q.user] = "gone"
       \/ DrawnNow(q)
  /\ \A p \in password_resets : accounts'[p.user] # "gone" \/ Claimed(p.req) =>
       \E q \in password_resets' : SameReset(p, q, resets' \ resets)

LEMMA ResetsUnchanged ==
  ASSUME Typed, password_resets' = password_resets, resets' = resets,
         \A u \in Users : accounts'[u] = "gone" => accounts[u] = "gone"
  PROVE  ResetsStep
  BY DEF ResetsStep, SameReset, CountedNow, Typed, TypeOK, PasswordReset

LEMMA ResetsApplied ==
  ASSUME Typed, NEW r \in Requests, r \notin resets, ApplyReset(r)
  PROVE  ResetsStep
<1> DEFINE hit == {[p EXCEPT !.used = TRUE] :
                      p \in {q \in password_resets : q.req = call[r].token}}
           kept == {p \in password_resets : p.req # call[r].token}
<1>1. password_resets' = kept \cup hit /\ accounts' = accounts
  BY DEF ApplyReset
<1>2. resets' \ resets = {r}
  BY DEF ApplyReset
<1>3. \A p \in password_resets :
        LET q == [p EXCEPT !.used = TRUE] IN
        q.req = p.req /\ q.user = p.user /\ q.used /\ q.attempts = p.attempts
  BY DEF Typed, TypeOK, PasswordReset
<1>4. /\ \A p \in password_resets : p.req = call[r].token =>
            [p EXCEPT !.used = TRUE] \in hit
      /\ \A q \in hit : \E p \in password_resets :
            p.req = call[r].token /\ q = [p EXCEPT !.used = TRUE]
  OBVIOUS
<1>5. /\ \A p \in password_resets : p.req # call[r].token => p \in kept
      /\ \A q \in kept : q \in password_resets /\ q.req # call[r].token
  OBVIOUS
<1> HIDE DEF hit, kept
<1>6. \A p \in kept : SameReset(p, p, {r}) /\ CountedNow(p, p)
  BY <1>5 DEF SameReset, CountedNow, Typed, TypeOK, PasswordReset
<1>7. \A p \in password_resets : p.req = call[r].token =>
        LET q == [p EXCEPT !.used = TRUE] IN
        SameReset(p, q, {r}) /\ CountedNow(p, q)
  BY <1>3 DEF SameReset, CountedNow
<1>8. \A q \in password_resets' : \E p \in password_resets :
        SameReset(p, q, {r}) /\ CountedNow(p, q)
  <2>1. \A q \in kept : \E p \in password_resets :
           SameReset(p, q, {r}) /\ CountedNow(p, q)
    BY <1>5, <1>6
  <2>2. \A q \in hit : \E p \in password_resets :
           SameReset(p, q, {r}) /\ CountedNow(p, q)
    BY <1>4, <1>7
  <2>. QED
    BY <1>1, <2>1, <2>2
<1>9. \A p \in password_resets : \E q \in password_resets' : SameReset(p, q, {r})
  BY <1>1, <1>4, <1>5, <1>6, <1>7
<1>. QED
  BY <1>1, <1>2, <1>8, <1>9 DEF ResetsStep

LEMMA ResetsCounted ==
  ASSUME Typed, NEW r \in Requests, CountAttempt(r)
  PROVE  ResetsStep
<1> DEFINE hit == {[p EXCEPT !.attempts = @ + 1] :
                      p \in {q \in password_resets : Counted(q, r)}}
           kept == {p \in password_resets : ~Counted(p, r)}
<1>1. password_resets' = kept \cup hit
  BY DEF CountAttempt
<1>2. resets' \ resets = {} /\ pc[r] = "count_attempt" /\ accounts' = accounts
  BY DEF CountAttempt
<1>3. \A p \in password_resets :
        LET q == [p EXCEPT !.attempts = @ + 1] IN
        q.req = p.req /\ q.user = p.user /\ q.used = p.used
  BY DEF Typed, TypeOK, PasswordReset
<1>4. /\ \A p \in password_resets : Counted(p, r) =>
            [p EXCEPT !.attempts = @ + 1] \in hit
      /\ \A q \in hit : \E p \in password_resets :
            Counted(p, r) /\ q = [p EXCEPT !.attempts = @ + 1]
  OBVIOUS
<1>5. /\ \A p \in password_resets : ~Counted(p, r) => p \in kept
      /\ \A q \in kept : q \in password_resets
  OBVIOUS
<1> HIDE DEF hit, kept
<1>6. \A p \in kept : SameReset(p, p, {}) /\ CountedNow(p, p)
  BY <1>5 DEF SameReset, CountedNow, Typed, TypeOK, PasswordReset
<1>7. \A p \in password_resets : Counted(p, r) =>
        LET q == [p EXCEPT !.attempts = @ + 1] IN
        SameReset(p, q, {}) /\ CountedNow(p, q)
  BY <1>2, <1>3 DEF SameReset, CountedNow, Counted, Typed, TypeOK, PasswordReset
<1>8. \A q \in password_resets' : \E p \in password_resets :
        SameReset(p, q, {}) /\ CountedNow(p, q)
  BY <1>1, <1>4, <1>5, <1>6, <1>7
<1>9. \A p \in password_resets : \E q \in password_resets' : SameReset(p, q, {})
  BY <1>1, <1>4, <1>5, <1>6, <1>7
<1>. QED
  BY <1>2, <1>8, <1>9 DEF ResetsStep

LEMMA ResetsDrawn ==
  ASSUME Typed, NEW r \in Requests, ForgotInsert(r)
  PROVE  ResetsStep
<1> DEFINE row == [req |-> r, user |-> call[r].user, used |-> FALSE, attempts |-> 0]
<1>1. /\ password_resets' = password_resets \cup {p \in {row} : accounts[call[r].user] # "gone"}
      /\ pc[r] = "forgot_insert" /\ pc'[r] = "done"
      /\ accounts' = accounts /\ resets' = resets
  BY DEF ForgotInsert, Respond, Typed, TypeOK
<1>2. accounts[call[r].user] # "gone" => DrawnNow(row)
  BY <1>1 DEF DrawnNow
<1>3. \A p \in password_resets : SameReset(p, p, {}) /\ CountedNow(p, p)
  BY DEF SameReset, CountedNow, Typed, TypeOK, PasswordReset
<1> HIDE DEF row
<1>. QED
  BY <1>1, <1>2, <1>3 DEF ResetsStep

LEMMA ResetsNext ==
  ASSUME Typed, RowsOK, [Next]_vars
  PROVE  ResetsStep
<1>1. ASSUME NEW r \in Requests,
         \/ Arrive(r) \/ LoginSelect(r) \/ LoginInsert(r) \/ Logout(r)
         \/ RefreshSelect(r) \/ RefreshRevoke(r) \/ RefreshUser(r) \/ RefreshInsert(r)
         \/ ForgotSelect(r) \/ Begin(r) \/ Claim(r) \/ UpdatePassword(r)
         \/ RevokeAll(r) \/ CommitFails(r) \/ StatementFails(r) \/ Preflight(r)
         \/ UpdateMe(r) \/ DeleteUser(r) \/ Expire(r)
      PROVE  /\ password_resets' = password_resets
             /\ accounts' = accounts /\ resets' = resets
  BY <1>1 DEF Arrive, LoginSelect, LoginInsert, Logout, RefreshSelect,
       RefreshRevoke, RefreshUser, RefreshInsert, ForgotSelect, Begin, Claim,
       UpdatePassword, RevokeAll, CommitFails, StatementFails, Preflight,
       UpdateMe, DeleteUser, Expire, tables
<1>2. CASE Crash \/ UNCHANGED vars
  BY <1>2, ResetsUnchanged DEF Crash, tables, vars
<1>3. ASSUME NEW r \in Requests, Commit(r) \/ CommitUnnoticed(r)
      PROVE  ResetsStep
  <2>1. pc[r] = "commit" /\ ApplyReset(r)
    BY <1>3 DEF Commit, CommitUnnoticed
  <2>2. r \notin resets
    BY <2>1 DEF RowsOK
  <2>. QED
    BY <2>1, <2>2, ResetsApplied
<1>4. ASSUME NEW r \in Requests, SetActive(r) PROVE ResetsStep
  <2>1. password_resets' = password_resets /\ resets' = resets
    BY <1>4 DEF SetActive
  <2>2. \A u \in Users : accounts'[u] = "gone" => accounts[u] = "gone"
    BY <1>4 DEF SetActive, Typed, TypeOK
  <2>. QED
    BY <2>1, <2>2, ResetsUnchanged
<1>5. ASSUME NEW r \in Requests, Cascade(r) PROVE ResetsStep
  <2>1. /\ resets' = resets
        /\ accounts' = [accounts EXCEPT ![call[r].user] = "gone"]
        /\ password_resets' = {p \in password_resets : p.user # call[r].user}
        /\ \A p \in password_resets : p.user = call[r].user => ~Claimed(p.req)
    BY <1>5 DEF Cascade
  <2>2. \A p \in password_resets : p.user \in Users
    BY DEF Typed, TypeOK, PasswordReset
  <2>3. call[r].user \in Users
    BY <1>5, RowTypes DEF Cascade
  <2>4. \A p \in password_resets : SameReset(p, p, {}) /\ CountedNow(p, p)
    BY DEF SameReset, CountedNow, Typed, TypeOK, PasswordReset
  <2>5. \A u \in Users : accounts'[u] = IF u = call[r].user THEN "gone" ELSE accounts[u]
    BY <2>1, <2>3 DEF Typed, TypeOK
  <2>. QED
    BY <2>1, <2>2, <2>4, <2>5 DEF ResetsStep
<1>. QED
  BY <1>1, <1>2, <1>3, <1>4, <1>5, ResetsUnchanged, ResetsCounted, ResetsDrawn, NextCases

(***************************************************************************)
(* The parts of the invariant, one lemma each.                             *)
(***************************************************************************)
\* A call is only written by Arrive, and a reset is only recorded by COMMIT.
LEMMA HistoryNext ==
  ASSUME Typed, [Next]_vars
  PROVE  /\ call' = call \/ \E r \in Requests : Arrive(r)
         /\ \/ resets' = resets
            \/ \E r \in Requests : /\ pc[r] = "commit" /\ pc'[r] = "done"
                                   /\ resets' = resets \cup {r}
<1>1. ASSUME NEW r \in Requests,
         \/ LoginSelect(r) \/ LoginInsert(r) \/ Logout(r)
         \/ RefreshSelect(r) \/ RefreshRevoke(r) \/ RefreshUser(r) \/ RefreshInsert(r)
         \/ ForgotSelect(r) \/ ForgotInsert(r) \/ Begin(r) \/ Claim(r)
         \/ CountAttempt(r) \/ UpdatePassword(r) \/ RevokeAll(r)
         \/ CommitFails(r) \/ StatementFails(r) \/ Preflight(r)
         \/ UpdateMe(r) \/ SetActive(r) \/ DeleteUser(r) \/ Cascade(r) \/ Expire(r)
      PROVE  call' = call /\ resets' = resets
  BY <1>1 DEF LoginSelect, LoginInsert, Logout, RefreshSelect, RefreshRevoke,
       RefreshUser, RefreshInsert, ForgotSelect, ForgotInsert, Begin, Claim,
       CountAttempt, UpdatePassword, RevokeAll, CommitFails, StatementFails,
       Preflight, UpdateMe, SetActive, DeleteUser, Cascade, Expire, locals
<1>2. ASSUME NEW r \in Requests, Commit(r) \/ CommitUnnoticed(r)
      PROVE  /\ call' = call
             /\ pc[r] = "commit" /\ pc'[r] = "done" /\ resets' = resets \cup {r}
  BY <1>2 DEF Commit, CommitUnnoticed, ApplyReset, Respond, Typed, TypeOK
<1>3. ASSUME NEW r \in Requests, Arrive(r) PROVE resets' = resets
  BY <1>3 DEF Arrive
<1>4. CASE Crash \/ UNCHANGED vars
  BY <1>4 DEF Crash, vars
<1>. QED
  BY <1>1, <1>2, <1>3, <1>4, NextCases

LEMMA TokenNext ==
  ASSUME Typed, TokenOK, [Next]_vars
  PROVE  TokenOK'
<1>0. Stable
  BY StableNext
<1>T. \A r \in Requests : call[r].op \in {"logout", "refresh", "reset"} =>
         call[r].token \in Requests
  BY CallFields DEF Typed, TypeOK
<1>1. ASSUME call' = call PROVE TokenOK'
  BY <1>0, <1>1, <1>T DEF TokenOK, Stable
<1>2. ASSUME NEW r \in Requests, Arrive(r) PROVE TokenOK'
  <2>1. PICK c \in Calls :
          /\ c.op \in {"logout", "refresh"} => c.token \in Received({"login", "refresh"})
          /\ c.op = "reset" => c.token \in Received({"forgot"})
          /\ c.op \in {"logout", "refresh", "reset"} => c.user = call[c.token].user
          /\ call' = [call EXCEPT ![r] = c]
    BY <1>2 DEF Arrive
  <2>2. pc[r] = "new"
    BY <1>2 DEF Arrive
  <2>3. \A s \in Requests : reply[s] = 200 => pc[s] = "done"
    BY DEF Typed, HandlerOK
  <2>4. c.op \in {"logout", "refresh", "reset"} =>
          /\ c.token \in Requests /\ pc[c.token] = "done" /\ c.token # r
          /\ c.user = call[c.token].user
          /\ c.op = "reset" => call[c.token].op = "forgot"
    BY <2>1, <2>2, <2>3 DEF Received
  <2>5. call'[r] = c /\ \A s \in Requests \ {r} : call'[s] = call[s]
    BY <2>1 DEF Typed, TypeOK
  <2>6. \A s \in Requests \ {r} : call[s].op \in {"logout", "refresh", "reset"} =>
          /\ call[s].token \in Requests /\ call[s].token # r
    BY <1>T, <2>2 DEF TokenOK
  <2>. QED
    BY <1>0, <2>4, <2>5, <2>6 DEF TokenOK, Stable
<1>. QED
  BY <1>1, <1>2, HistoryNext

LEMMA RowsNext ==
  ASSUME Typed, RowsOK, [Next]_vars
  PROVE  RowsOK'
<1>0. Stable /\ TokensStep /\ ResetsStep
  BY StableNext, TokensNext, ResetsNext
<1>1. /\ \A t \in refresh_tokens : t.req \in Requests
      /\ \A p \in password_resets : p.req \in Requests
      /\ resets \subseteq Requests
  BY DEF Typed, TypeOK, RefreshToken, PasswordReset
<1>2. \A t \in refresh_tokens' : /\ call'[t.req].op \in {"login", "refresh"}
                                 /\ t.user = call'[t.req].user
                                 /\ pc'[t.req] = "done"
  <2>1. ASSUME NEW t \in refresh_tokens', NEW s \in refresh_tokens, SameToken(s, t)
        PROVE  /\ call'[t.req].op \in {"login", "refresh"}
               /\ t.user = call'[t.req].user
               /\ pc'[t.req] = "done"
    BY <1>0, <1>1, <2>1 DEF SameToken, RowsOK, Stable
  <2>2. ASSUME NEW t \in refresh_tokens', StoredNow(t)
        PROVE  /\ call'[t.req].op \in {"login", "refresh"}
               /\ t.user = call'[t.req].user
               /\ pc'[t.req] = "done"
    <3>1. call[t.req].op \in {"login", "refresh"} /\ pc[t.req] # "new"
      BY <2>2 DEF StoredNow, Typed, HandlerOK, RefreshLabels
    <3>2. t.user = call[t.req].user
      BY <2>2 DEF StoredNow, NewToken
    <3>. QED
      BY <1>0, <2>2, <3>1, <3>2 DEF StoredNow, Stable
  <2>. QED
    BY <1>0, <2>1, <2>2 DEF TokensStep
<1>3. \A q \in password_resets' : /\ call'[q.req].op = "forgot"
                                  /\ q.user = call'[q.req].user
                                  /\ pc'[q.req] = "done"
  <2>1. ASSUME NEW q \in password_resets', NEW p \in password_resets,
               SameReset(p, q, resets' \ resets)
        PROVE  /\ call'[q.req].op = "forgot"
               /\ q.user = call'[q.req].user
               /\ pc'[q.req] = "done"
    BY <1>0, <1>1, <2>1 DEF SameReset, RowsOK, Stable
  <2>2. ASSUME NEW q \in password_resets', DrawnNow(q)
        PROVE  /\ call'[q.req].op = "forgot"
               /\ q.user = call'[q.req].user
               /\ pc'[q.req] = "done"
    BY <1>0, <2>2 DEF DrawnNow, Stable, Typed, HandlerOK
  <2>. QED
    BY <1>0, <2>1, <2>2 DEF ResetsStep
<1>4. \A r \in resets' : call'[r].op = "reset" /\ pc'[r] = "done"
  <2>1. \A r \in resets : call'[r].op = "reset" /\ pc'[r] = "done"
    BY <1>0, <1>1 DEF RowsOK, Stable
  <2>2. \A r \in Requests : pc[r] = "commit" => call'[r].op = "reset"
    BY <1>0 DEF Stable, Typed, HandlerOK, ResetLabels
  <2>. QED
    BY <2>1, <2>2, HistoryNext
<1>. QED
  BY <1>2, <1>3, <1>4 DEF RowsOK

\* How a request comes to the statements the invariant speaks about.
Entered ==
  \A s \in Requests :
    /\ pc'[s] \in ClaimLabels => pc[s] \in ClaimLabels \/ Claim(s)
    /\ pc'[s] = "count_attempt" => pc[s] = "count_attempt" \/ Claim(s)
    /\ pc'[s] = "refresh_revoke" => pc[s] = "refresh_revoke" \/ RefreshSelect(s)
    /\ pc'[s] = "refresh_user" => pc[s] = "refresh_user" \/ RefreshRevoke(s)
    /\ pc'[s] = "refresh_insert" => pc[s] \in {"refresh_insert", "refresh_user"}

LEMMA EnteredNext ==
  ASSUME Typed, [Next]_vars
  PROVE  Entered
<1> USE DEF Typed, TypeOK, Entered, ClaimLabels, tables, locals, Goto, Respond
<1>1. ASSUME NEW r \in Requests, Arrive(r) PROVE Entered
  <2>1. PICK c \in Calls :
          c.op \in Ops /\ pc' = [pc EXCEPT ![r] = FirstStatement(c.op)]
    BY <1>1 DEF Arrive
  <2>2. FirstStatement(c.op) \in
          {"login_select", "logout_update", "refresh_select", "forgot_select",
           "new_transaction", "preflight", "statement"}
    BY DEF FirstStatement
  <2>. QED
    BY <2>1, <2>2
<1>2. ASSUME NEW r \in Requests,
         LoginSelect(r) \/ LoginInsert(r) \/ Logout(r)
      PROVE  Entered
  BY <1>2 DEF LoginSelect, LoginInsert, InsertToken, Logout
<1>3. ASSUME NEW r \in Requests, RefreshSelect(r) PROVE Entered
  <2>1. \/ pc' = [pc EXCEPT ![r] = "done"]
        \/ pc' = [pc EXCEPT ![r] = "refresh_revoke"]
    BY <1>3 DEF RefreshSelect
  <2>. QED
    BY <1>3, <2>1
<1>4. ASSUME NEW r \in Requests, RefreshRevoke(r) PROVE Entered
  <2>1. pc' = [pc EXCEPT ![r] = "refresh_user"]
    BY <1>4 DEF RefreshRevoke
  <2>. QED
    BY <1>4, <2>1
<1>5. ASSUME NEW r \in Requests, RefreshUser(r) \/ RefreshInsert(r)
      PROVE  Entered
  BY <1>5 DEF RefreshUser, RefreshInsert, InsertToken
<1>6. ASSUME NEW r \in Requests, ForgotSelect(r) \/ ForgotInsert(r) \/ Begin(r)
      PROVE  Entered
  BY <1>6 DEF ForgotSelect, ForgotInsert, Begin
<1>7. ASSUME NEW r \in Requests, Claim(r) PROVE Entered
  <2>1. \A s \in Requests \ {r} : pc'[s] = pc[s]
    BY <1>7 DEF Claim
  <2>2. pc'[r] \in {"update_password", "count_attempt"}
    BY <1>7 DEF Claim
  <2>. QED
    BY <1>7, <2>1, <2>2
<1>8. ASSUME NEW r \in Requests,
         CountAttempt(r) \/ UpdatePassword(r) \/ RevokeAll(r)
      PROVE  Entered
  BY <1>8 DEF CountAttempt, UpdatePassword, RevokeAll
<1>9. ASSUME NEW r \in Requests,
         Commit(r) \/ CommitUnnoticed(r) \/ CommitFails(r)
      PROVE  Entered
  BY <1>9 DEF Commit, CommitUnnoticed, CommitFails
<1>10. ASSUME NEW r \in Requests, StatementFails(r) PROVE Entered
  BY <1>10 DEF StatementFails
<1>11. ASSUME NEW r \in Requests, Preflight(r) \/ UpdateMe(r) PROVE Entered
  BY <1>11 DEF Preflight, UpdateMe
<1>12. ASSUME NEW r \in Requests, SetActive(r) PROVE Entered
  BY <1>12 DEF SetActive
<1>13. ASSUME NEW r \in Requests, DeleteUser(r) \/ Cascade(r) PROVE Entered
  BY <1>13 DEF DeleteUser, Cascade
<1>14. CASE Crash \/ UNCHANGED vars \/ \E r \in Requests : Expire(r)
  BY <1>14 DEF Crash, InFlight, vars, Expire
<1>. QED
  BY <1>1, <1>2, <1>3, <1>4, <1>5, <1>6, <1>7, <1>8, <1>9, <1>10, <1>11, <1>12,
     <1>13, <1>14, NextCases

\* Only the claiming request moves in Claim, and the tables stay.
LEMMA ClaimStep ==
  ASSUME Typed, NEW r \in Requests, Claim(r)
  PROVE  /\ pc[r] = "claim" /\ call' = call
         /\ \A s \in Requests \ {r} : pc'[s] = pc[s]
         /\ password_resets' = password_resets /\ expired' = expired
         /\ ~Claimed(call[r].token)
         /\ \/ /\ pc'[r] = "update_password"
               /\ \E p \in password_resets : p.req = call[r].token /\ Claimable(p)
            \/ /\ pc'[r] = "count_attempt"
               /\ ~\E p \in password_resets : p.req = call[r].token /\ Claimable(p)
  BY DEF Claim, Goto, tables, locals, Typed, TypeOK

LEMMA ClaimNext ==
  ASSUME Typed, RowsOK, ClaimOK, [Next]_vars
  PROVE  ClaimOK'
<1>0. Stable /\ ResetsStep /\ Entered
  BY StableNext, ResetsNext, EnteredNext
<1>1. \A r \in Requests : pc'[r] \in ClaimLabels => call'[r] = call[r]
  BY <1>0, ClaimStep DEF Stable, Entered, ClaimLabels
<1>2. ASSUME NEW r \in Requests, NEW s \in Requests,
             pc'[r] \in ClaimLabels, pc'[s] \in ClaimLabels,
             call'[r].token = call'[s].token
      PROVE  r = s
  <2>1. call[r].token = call[s].token
    BY <1>1, <1>2
  <2>2. CASE pc[r] \in ClaimLabels /\ pc[s] \in ClaimLabels
    BY <2>1, <2>2 DEF ClaimOK
  <2>3. CASE Claim(r)
    BY <1>2, <2>1, <2>3, ClaimStep DEF Claimed, ClaimLabels
  <2>4. CASE Claim(s)
    BY <1>2, <2>1, <2>4, ClaimStep DEF Claimed, ClaimLabels
  <2>. QED
    BY <1>0, <1>2, <2>2, <2>3, <2>4 DEF Entered
<1>3. ASSUME NEW r \in Requests, pc'[r] \in ClaimLabels
      PROVE  \E q \in password_resets' : q.req = call'[r].token /\ ~q.used
  <2>1. CASE Claim(r)
    BY <1>1, <1>3, <2>1, ClaimStep DEF ClaimLabels, Claimable
  <2>2. CASE pc[r] \in ClaimLabels
    <3>1. PICK p \in password_resets : p.req = call[r].token /\ ~p.used
      BY <2>2 DEF ClaimOK
    <3>2. Claimed(p.req)
      BY <2>2, <3>1 DEF Claimed, ClaimLabels
    <3>3. PICK q \in password_resets' : SameReset(p, q, resets' \ resets)
      BY <1>0, <3>2 DEF ResetsStep
    <3>4. \A x \in resets' \ resets : call[x].token # p.req
      <4>1. \A x \in resets' \ resets :
              x \in Requests /\ pc[x] = "commit" /\ pc'[x] = "done"
        BY HistoryNext
      <4>2. ASSUME NEW x \in resets' \ resets, call[x].token = p.req PROVE FALSE
        <5>1. x = r
          BY <2>2, <3>1, <4>1, <4>2 DEF ClaimOK, ClaimLabels
        <5>. QED
          BY <1>3, <4>1, <5>1 DEF ClaimLabels
      <4>. QED
        BY <4>2
    <3>. QED
      BY <1>1, <1>3, <3>1, <3>3, <3>4 DEF SameReset
  <2>. QED
    BY <1>0, <1>3, <2>1, <2>2 DEF Entered
<1>. QED
  BY <1>2, <1>3 DEF ClaimOK

LEMMA AttemptNext ==
  ASSUME Typed, TokenOK, RowsOK, AttemptOK, BudgetUnspent, [Next]_vars
  PROVE  AttemptOK'
<1>0. Stable /\ ResetsStep /\ Entered
  BY StableNext, ResetsNext, EnteredNext
<1> SUFFICES ASSUME NEW r \in Requests, pc'[r] = "count_attempt",
                    NEW q \in password_resets', q.req = call'[r].token
             PROVE  q.used \/ q.req \in expired'
  BY DEF AttemptOK
<1>1. CASE Claim(r)
  <2>1. /\ q \in password_resets /\ q.req = call[r].token /\ ~Claimable(q)
        /\ expired' = expired
    BY <1>1, ClaimStep
  <2>2. CASE q.attempts >= MaxAttempts
    <3>1. q.attempts \in Nat /\ q.attempts > 0
      BY <2>1, <2>2, SessionsAssumption DEF Typed, TypeOK, PasswordReset
    <3>. QED
      BY <2>1, <3>1 DEF BudgetUnspent
  <2>3. CASE ~(q.attempts >= MaxAttempts)
    <3>1. q.attempts < MaxAttempts
      BY <2>1, <2>3, SessionsAssumption DEF Typed, TypeOK, PasswordReset
    <3>. QED
      BY <2>1, <3>1 DEF Claimable
  <2>. QED
    BY <2>2, <2>3
<1>2. CASE pc[r] = "count_attempt"
  <2>1. call'[r] = call[r] /\ call[r].op = "reset"
    BY <1>0, <1>2 DEF Stable, Typed, HandlerOK, ResetLabels
  <2>2. pc[call[r].token] = "done"
    BY <2>1 DEF TokenOK
  <2>3. ~DrawnNow(q)
    BY <2>1, <2>2 DEF DrawnNow
  <2>4. PICK p \in password_resets : SameReset(p, q, resets' \ resets)
    BY <1>0, <2>3 DEF ResetsStep
  <2>. QED
    BY <1>0, <1>2, <2>1, <2>4 DEF SameReset, AttemptOK, Stable
<1>. QED
  BY <1>0, <1>1, <1>2 DEF Entered

\* Only the requests refused for a lasting reason count their attempts.
LEMMA BudgetNext ==
  ASSUME Typed, RowsOK, AttemptOK, BudgetUnspent, [Next]_vars
  PROVE  BudgetUnspent'
<1>0. Stable /\ ResetsStep
  BY StableNext, ResetsNext
<1> SUFFICES ASSUME NEW q \in password_resets', q.attempts > 0
             PROVE  q.used \/ q.req \in expired'
  BY DEF BudgetUnspent
<1>1. ~DrawnNow(q)
  BY DEF DrawnNow
<1>2. PICK p \in password_resets :
         SameReset(p, q, resets' \ resets) /\ CountedNow(p, q)
  BY <1>0, <1>1 DEF ResetsStep
<1>3. p.used \/ p.req \in expired
  BY <1>2 DEF CountedNow, AttemptOK, BudgetUnspent
<1>. QED
  BY <1>0, <1>2, <1>3 DEF SameReset, Stable

LEMMA UsedNext ==
  ASSUME Typed, TokenOK, RowsOK, UsedMeansReset, [Next]_vars
  PROVE  UsedMeansReset'
<1>0. Stable /\ ResetsStep
  BY StableNext, ResetsNext
<1>1. /\ resets \subseteq Requests /\ resets' \subseteq Requests
      /\ \A r \in resets' : pc[r] # "new"
      /\ \A r \in resets' : call'[r] = call[r] /\ call[r].op = "reset"
  <2>1. resets \subseteq Requests
    BY DEF Typed, TypeOK
  <2>2. \A r \in resets' : /\ r \in Requests
                           /\ r \in resets \/ pc[r] = "commit"
    BY <2>1, HistoryNext
  <2>3. \A r \in resets' : pc[r] # "new" /\ call[r].op = "reset"
    BY <2>2 DEF RowsOK, Typed, HandlerOK, ResetLabels
  <2>. QED
    BY <1>0, <2>1, <2>2, <2>3 DEF Stable
<1> SUFFICES ASSUME NEW q \in password_resets'
             PROVE  q.used <=> \E r \in resets' : call'[r].token = q.req
  BY DEF UsedMeansReset
<1>2. CASE DrawnNow(q)
  <2>1. \A r \in resets' : pc[call[r].token] = "done"
    BY <1>1 DEF TokenOK
  <2>. QED
    BY <1>1, <1>2, <2>1 DEF DrawnNow
<1>3. ASSUME NEW p \in password_resets, SameReset(p, q, resets' \ resets)
      PROVE  q.used <=> \E r \in resets' : call'[r].token = q.req
  <2>1. p.used <=> \E r \in resets : call[r].token = q.req
    BY <1>3 DEF SameReset, UsedMeansReset
  <2>2. q.used <=> p.used \/ \E r \in resets' \ resets : call[r].token = q.req
    BY <1>3 DEF SameReset
  <2>. QED
    BY <1>0, <1>1, <2>1, <2>2 DEF Stable
<1>. QED
  BY <1>0, <1>2, <1>3 DEF ResetsStep

LEMMA ResetOnceNext ==
  ASSUME Typed, RowsOK, ClaimOK, UsedMeansReset, ResetOnce, [Next]_vars
  PROVE  ResetOnce'
<1>0. Stable
  BY StableNext
<1>1. \A r \in resets : r \in Requests /\ call'[r] = call[r]
  BY <1>0 DEF RowsOK, Stable, Typed, TypeOK
<1>2. CASE resets' = resets
  BY <1>1, <1>2 DEF ResetOnce
<1>3. ASSUME NEW r \in Requests, pc[r] = "commit", resets' = resets \cup {r}
      PROVE  ResetOnce'
  <2>1. call'[r] = call[r]
    BY <1>0, <1>3 DEF Stable
  <2>2. PICK p \in password_resets : p.req = call[r].token /\ ~p.used
    BY <1>3 DEF ClaimOK, ClaimLabels
  <2>3. \A s \in resets : call[s].token # call[r].token
    BY <2>2 DEF UsedMeansReset
  <2>. QED
    BY <1>1, <1>3, <2>1, <2>3 DEF ResetOnce
<1>. QED
  BY <1>2, <1>3, HistoryNext

LEMMA OwnersNext ==
  ASSUME Typed, RowsOK, TokensHaveOwners, [Next]_vars
  PROVE  TokensHaveOwners'
<1>0. TokensStep /\ ResetsStep
  BY TokensNext, ResetsNext
<1>1. \A t \in refresh_tokens' : accounts'[t.user] # "gone"
  BY <1>0 DEF TokensStep, SameToken, StoredNow, TokensHaveOwners
<1>2. \A q \in password_resets' : accounts'[q.user] # "gone"
  BY <1>0 DEF ResetsStep, SameReset, DrawnNow, TokensHaveOwners
<1>. QED
  BY <1>1, <1>2 DEF TokensHaveOwners

\* The presented token is found valid, and is revoked before it is exchanged.
LEMMA RefreshSteps ==
  ASSUME Typed, TokenOK, RowsOK, NEW r \in Requests
  PROVE  /\ RefreshSelect(r) /\ pc'[r] = "refresh_revoke" =>
              \E old \in refresh_tokens' :
                 old.req = call[r].token /\ old.user = call[r].user
         /\ RefreshRevoke(r) =>
              \A t \in refresh_tokens' : t.req = call[r].token => t.revoked
<1>1. ASSUME RefreshSelect(r), pc'[r] = "refresh_revoke"
      PROVE  \E old \in refresh_tokens' :
                old.req = call[r].token /\ old.user = call[r].user
  <2>1. PICK t \in refresh_tokens : t.req = call[r].token
    BY <1>1 DEF RefreshSelect, Respond, Typed, TypeOK
  <2>2. call[r].op = "refresh"
    BY <1>1 DEF RefreshSelect, Typed, HandlerOK, RefreshLabels
  <2>3. t.user = call[r].user
    BY <2>1, <2>2 DEF TokenOK, RowsOK
  <2>. QED
    BY <1>1, <2>1, <2>3 DEF RefreshSelect, tables
<1>2. ASSUME RefreshRevoke(r)
      PROVE  \A t \in refresh_tokens' : t.req = call[r].token => t.revoked
  BY <1>2, RevokeRows DEF RefreshRevoke, Typed, TypeOK
<1>. QED
  BY <1>1, <1>2

LEMMA RefreshNext ==
  ASSUME Typed, TokenOK, RowsOK, RefreshOK, [Next]_vars
  PROVE  RefreshOK'
<1>0. Stable /\ TokensStep /\ Entered
  BY StableNext, TokensNext, EnteredNext
<1> SUFFICES ASSUME NEW r \in Requests,
                    pc'[r] \in {"refresh_revoke", "refresh_user", "refresh_insert"},
                    accounts'[call'[r].user] # "gone"
             PROVE  \E old \in refresh_tokens' :
                      /\ old.req = call'[r].token /\ old.user = call'[r].user
                      /\ pc'[r] # "refresh_revoke" => old.revoked
  BY DEF RefreshOK
<1>1. /\ pc[r] # "new" /\ call'[r] = call[r]
      /\ accounts[call[r].user] # "gone"
  <2>1. pc[r] \in RefreshLabels
    BY <1>0 DEF Entered, RefreshSelect, RefreshRevoke, RefreshLabels
  <2>2. call'[r] = call[r] /\ call[r].user \in Users
    BY <1>0, <2>1, RowTypes DEF Stable, RefreshLabels
  <2>. QED
    BY <1>0, <2>1, <2>2 DEF Stable, RefreshLabels
<1>2. CASE RefreshSelect(r) /\ pc'[r] = "refresh_revoke"
  BY <1>1, <1>2, RefreshSteps
<1>3. CASE pc[r] \in {"refresh_revoke", "refresh_user", "refresh_insert"}
  <2>1. PICK s \in refresh_tokens :
           /\ s.req = call[r].token /\ s.user = call[r].user
           /\ pc[r] # "refresh_revoke" => s.revoked
    BY <1>1, <1>3 DEF RefreshOK
  <2>2. PICK t \in refresh_tokens' : SameToken(s, t)
    BY <1>0, <1>1, <2>1 DEF TokensStep
  <2>3. CASE RefreshRevoke(r)
    BY <1>1, <2>1, <2>2, <2>3, RefreshSteps DEF SameToken
  <2>4. CASE pc[r] # "refresh_revoke" \/ pc'[r] = "refresh_revoke"
    BY <1>1, <2>1, <2>2, <2>4 DEF SameToken
  <2>. QED
    BY <1>0, <1>3, <2>3, <2>4 DEF Entered
<1>. QED
  BY <1>0, <1>2, <1>3 DEF Entered, RefreshRevoke

LEMMA RotationNext ==
  ASSUME Typed, RowsOK, RefreshOK, TokensHaveOwners, RotationRevokes, [Next]_vars
  PROVE  RotationRevokes'
<1>0. Stable /\ TokensStep /\ TokensHaveOwners'
  BY StableNext, TokensNext, OwnersNext
<1>1. \A t \in refresh_tokens : t.req \in Requests
  BY DEF Typed, TypeOK, RefreshToken
<1> SUFFICES ASSUME NEW t \in refresh_tokens', call'[t.req].op = "refresh"
             PROVE  \E old \in refresh_tokens' :
                      /\ old.req = call'[t.req].token /\ old.user = t.user
                      /\ old.revoked
  BY DEF RotationRevokes
<1>2. /\ call'[t.req] = call[t.req]
      /\ \E old \in refresh_tokens :
            /\ old.req = call[t.req].token /\ old.user = t.user
            /\ old.revoked
  <2>1. ASSUME NEW s \in refresh_tokens, SameToken(s, t)
        PROVE  /\ call'[t.req] = call[t.req]
               /\ \E old \in refresh_tokens :
                     /\ old.req = call[t.req].token /\ old.user = t.user
                     /\ old.revoked
    <3>1. t.req \in Requests /\ pc[t.req] = "done" /\ t.user = s.user /\ t.req = s.req
      BY <1>1, <2>1 DEF SameToken, RowsOK
    <3>2. call'[t.req] = call[t.req]
      BY <1>0, <3>1 DEF Stable
    <3>. QED
      BY <3>1, <3>2 DEF RotationRevokes
  <2>2. CASE StoredNow(t)
    <3>1. t.req \in Requests /\ t.user = call[t.req].user
      BY <2>2 DEF StoredNow, NewToken
    <3>2. call'[t.req] = call[t.req]
      BY <1>0, <2>2 DEF Stable, StoredNow
    <3>3. pc[t.req] = "refresh_insert"
      BY <2>2, <3>1, <3>2 DEF StoredNow, Typed, HandlerOK
    <3>. QED
      BY <2>2, <3>1, <3>2, <3>3 DEF StoredNow, RefreshOK
  <2>. QED
    BY <1>0, <2>1, <2>2 DEF TokensStep
<1>3. accounts'[t.user] # "gone"
  BY <1>0 DEF TokensHaveOwners
<1>. QED
  BY <1>0, <1>2, <1>3 DEF TokensStep, SameToken

(***************************************************************************)
(* The theorems that hold for any size of the pool.                        *)
(***************************************************************************)
\* Tokens revoked by an open reset are named by RevokeAll, and forgotten when the
\* reset ends.
LEMMA RevokingNext ==
  ASSUME Typed, [Next]_vars, NEW r \in Requests, NEW s \in revoking'[r]
  PROVE  RevokeAll(r) \/ (s \in revoking[r] /\ (pc[r] = "commit" => pc'[r] = "commit"))
<1> USE DEF Typed, TypeOK, InTrans, Waiting, tables, locals, Goto, Respond
<1>1. ASSUME NEW x \in Requests, Arrive(x)
      PROVE  revoking' = revoking /\ (pc[r] = "commit" => pc'[r] = "commit")
  BY <1>1 DEF Arrive
<1>2. ASSUME NEW x \in Requests,
         LoginSelect(x) \/ LoginInsert(x) \/ Logout(x)
      PROVE  revoking' = revoking /\ (pc[r] = "commit" => pc'[r] = "commit")
  BY <1>2 DEF LoginSelect, LoginInsert, InsertToken, Logout
<1>3. ASSUME NEW x \in Requests,
         RefreshSelect(x) \/ RefreshRevoke(x) \/ RefreshUser(x) \/ RefreshInsert(x)
      PROVE  revoking' = revoking /\ (pc[r] = "commit" => pc'[r] = "commit")
  BY <1>3 DEF RefreshSelect, RefreshRevoke, RefreshUser, RefreshInsert, InsertToken
<1>4. ASSUME NEW x \in Requests,
         ForgotSelect(x) \/ ForgotInsert(x) \/ Begin(x) \/ Claim(x) \/ CountAttempt(x)
           \/ UpdatePassword(x)
      PROVE  revoking' = revoking /\ (pc[r] = "commit" => pc'[r] = "commit")
  BY <1>4 DEF ForgotSelect, ForgotInsert, Begin, Claim, CountAttempt, UpdatePassword
<1>5. ASSUME NEW x \in Requests,
         RevokeAll(x) \/ Commit(x) \/ CommitUnnoticed(x) \/ CommitFails(x)
           \/ StatementFails(x)
      PROVE  RevokeAll(r) \/ (s \in revoking[r] /\ (pc[r] = "commit" => pc'[r] = "commit"))
  <2>1. CASE x = r
    BY <1>5, <2>1 DEF RevokeAll, Commit, CommitUnnoticed, CommitFails, StatementFails,
          ApplyReset
  <2>2. CASE x # r
    BY <1>5, <2>2 DEF RevokeAll, Commit, CommitUnnoticed, CommitFails, StatementFails,
          ApplyReset
  <2>. QED
    BY <2>1, <2>2
<1>6. ASSUME NEW x \in Requests,
         Preflight(x) \/ UpdateMe(x) \/ SetActive(x) \/ DeleteUser(x) \/ Cascade(x)
           \/ Expire(x)
      PROVE  revoking' = revoking /\ (pc[r] = "commit" => pc'[r] = "commit")
  BY <1>6 DEF Preflight, UpdateMe, SetActive, DeleteUser, Cascade, Expire
<1>7. CASE Crash \/ UNCHANGED vars
  BY <1>7 DEF Crash, InFlight, vars
<1>. QED
  BY <1>1, <1>2, <1>3, <1>4, <1>5, <1>6, <1>7, NextCases

LEMMA RevokesOwnNext ==
  ASSUME Typed, RowsOK, RevokesOwn, [Next]_vars
  PROVE  RevokesOwn'
<1> SUFFICES ASSUME NEW r \in Requests, NEW s \in revoking'[r]
             PROVE  pc'[r] = "commit" /\ pc'[s] = "done" /\ call'[s].user = call'[r].user
  BY DEF RevokesOwn
<1>0. Stable
  BY StableNext
<1>1. CASE RevokeAll(r)
  <2>1. pc[r] = "revoke_all" /\ pc'[r] = "commit"
    BY <1>1 DEF RevokeAll, Goto, Typed, TypeOK
  <2>2. PICK t \in refresh_tokens : s = t.req /\ t.user = call[r].user
    BY <1>1 DEF RevokeAll, Typed, TypeOK
  <2>3. s \in Requests /\ pc[s] = "done" /\ call[s].user = call[r].user
    BY <2>2 DEF RowsOK, Typed, TypeOK, RefreshToken
  <2>. QED
    BY <1>0, <2>1, <2>3 DEF Stable
<1>2. CASE s \in revoking[r] /\ (pc[r] = "commit" => pc'[r] = "commit")
  <2>1. s \in Requests
    BY <1>2 DEF Typed, TypeOK
  <2>. QED
    BY <1>0, <1>2, <2>1 DEF RevokesOwn, Stable
<1>. QED
  BY <1>1, <1>2, RevokingNext

LEMMA IInvInit == Init => IInv
  BY TypedInit
  DEF Init, IInv, Typed, TokenOK, RowsOK, ClaimOK, RefreshOK, AttemptOK,
      RevokesOwn, UsedMeansReset, ResetOnce, TokensHaveOwners, RotationRevokes,
      BudgetUnspent, NoCall, ClaimLabels

LEMMA IInvNext == IInv /\ [Next]_vars => IInv'
  BY TypedNext, TokenNext, RowsNext, ClaimNext, RefreshNext, AttemptNext,
     RevokesOwnNext, UsedNext, ResetOnceNext, OwnersNext, RotationNext, BudgetNext
  DEF IInv, Typed

THEOREM Invariance == Spec => []IInv
  BY IInvInit, IInvNext, PTL DEF Spec

\* However many requests redeem one reset token at the same time, and whichever
\* of their transactions fail, it sets a password at most once.
THEOREM OneResetPerToken == Spec => []ResetOnce
<1>1. IInv => ResetOnce
  BY DEF IInv
<1>. QED
  BY <1>1, Invariance, PTL

\* A token is marked used exactly when a reset with it has been committed.
THEOREM ResetIsAtomic == Spec => []UsedMeansReset
<1>1. IInv => UsedMeansReset
  BY DEF IInv
<1>. QED
  BY <1>1, Invariance, PTL

\* No stored token outlives its account.
THEOREM NoOrphanTokens == Spec => []TokensHaveOwners
<1>1. IInv => TokensHaveOwners
  BY DEF IInv
<1>. QED
  BY <1>1, Invariance, PTL

\* A token obtained by refreshing has cost the one that was presented.
THEOREM RefreshRotates == Spec => []RotationRevokes
<1>1. IInv => RotationRevokes
  BY DEF IInv
<1>. QED
  BY <1>1, Invariance, PTL

\* Failed attempts are counted against dead tokens only: the attempt counter
\* never refuses a token that could still be redeemed.
THEOREM AttemptsStopNothing == Spec => []BudgetUnspent
<1>1. IInv => BudgetUnspent
  BY DEF IInv
<1>. QED
  BY <1>1, Invariance, PTL

(***************************************************************************)
(* Nobody waits for ever for somebody who waits.                           *)
(***************************************************************************)
\* The pool has a connection left when no reset is open.
LEMMA PoolFree ==
  ASSUME \A s \in Requests : pc[s] \notin InTrans
  PROVE  ConnectionFree
<1>1. {s \in Requests : pc[s] \in InTrans} = {}
  OBVIOUS
<1>2. Cardinality({}) = 0
  BY FS_EmptySet
<1>. QED
  BY <1>1, <1>2, SessionsAssumption DEF ConnectionFree

\* The later statements of a reset wait only for resets that are past them, and a
\* deletion for a reset of its account: for one that waits, it is a circle.
LEMMA SomebodyProceeds ==
  ASSUME IInv, NEW r \in Requests, InFlight(r)
  PROVE  \E s \in Requests : InFlight(s) /\ (~Blocked(s) \/ InCircle(s))
<1> USE DEF InTrans, Waiting
<1>1. ASSUME NEW s \in Requests, pc[s] \in {"revoke_all", "commit"}
      PROVE  InFlight(s) /\ ~Blocked(s)
  BY <1>1 DEF InFlight, Blocked
<1>2. ASSUME \A s \in Requests : pc[s] \notin {"revoke_all", "commit"},
             NEW d \in Requests, pc[d] = "cascade"
      PROVE  InFlight(d) /\ (~Blocked(d) \/ InCircle(d))
  <2>1. CASE ~\E p \in password_resets : p.user = call[d].user /\ Claimed(p.req)
    BY <1>2, <2>1 DEF InFlight, Blocked
  <2>2. ASSUME NEW p \in password_resets, p.user = call[d].user, Claimed(p.req)
        PROVE  InCircle(d)
    <3>1. PICK s \in Requests : pc[s] = "update_password" /\ call[s].token = p.req
      BY <1>2, <2>2 DEF Claimed
    <3>2. call[s].op = "reset"
      BY <3>1 DEF IInv, HandlerOK, ResetLabels
    <3>3. call[s].user = call[d].user
      BY <2>2, <3>1, <3>2 DEF IInv, TokenOK, RowsOK
    <3>. QED
      BY <1>2, <2>2, <3>1, <3>3 DEF InCircle, WaitForEachOther
  <2>. QED
    BY <1>2, <2>1, <2>2 DEF InFlight
<1>3. ASSUME \A s \in Requests : pc[s] \notin {"revoke_all", "commit", "cascade"},
             NEW s \in Requests, pc[s] = "update_password"
      PROVE  InFlight(s) /\ ~Blocked(s)
  BY <1>3 DEF InFlight, Blocked, UserLocked, Deleting
<1>4. ASSUME \A s \in Requests : pc[s] \notin {"update_password", "revoke_all", "commit"},
             NEW s \in Requests, pc[s] = "claim"
      PROVE  InFlight(s) /\ ~Blocked(s)
  BY <1>4 DEF InFlight, Blocked, Claimed
<1>5. ASSUME \A s \in Requests : pc[s] \notin InTrans
      PROVE  InFlight(r) /\ ~Blocked(r)
  <2>1. ConnectionFree
    BY <1>5, PoolFree
  <2>2. /\ \A t : ~Claimed(t)
        /\ \A u : ~UserLocked(u) /\ ~Deleting(u)
    BY <1>5 DEF Claimed, UserLocked, Deleting
  <2>3. \A t : ~TokenLocked(t)
    BY <1>5, <2>2 DEF TokenLocked, IInv, RevokesOwn
  <2>4. pc[r] \notin InTrans
    BY <1>5
  <2>. QED
    BY <2>1, <2>2, <2>3, <2>4 DEF Blocked
<1>. QED
  BY <1>1, <1>2, <1>3, <1>4, <1>5

(***************************************************************************)
(* One connection, as config.json ships it.                                *)
(***************************************************************************)
LEMMA NoneOpen ==
  ASSUME PoolSize = 1, ConnectionFree
  PROVE  \A s \in Requests : pc[s] \notin InTrans
<1> DEFINE Open == {s \in Requests : pc[s] \in InTrans}
<1>1. IsFiniteSet(Open)
  BY SessionsAssumption, FS_Subset
<1>2. Cardinality(Open) \in Nat /\ Cardinality(Open) < 1
  BY <1>1, FS_CardinalityType DEF ConnectionFree
<1>3. Open = {}
  BY <1>1, <1>2, FS_EmptySet
<1>. QED
  BY <1>3

\* What opens a transaction: BEGIN, or a statement that is not over at once.
Opens(s) == Begin(s) \/ DeleteUser(s)

\* The statements of a transaction follow one another, and only these open one.
\* What an open reset has revoked is written by RevokeAll, and kept by whatever
\* other requests do.
Opened ==
  \A s \in Requests :
    /\ pc'[s] \in InTrans => pc[s] \in InTrans \/ Opens(s)
    /\ pc'[s] = "commit" =>
         RevokeAll(s) \/ (pc[s] = "commit" /\ revoking'[s] = revoking[s])

LEMMA OpenedNext ==
  ASSUME Typed, [Next]_vars
  PROVE  Opened
<1> USE DEF Typed, TypeOK, Opened, Opens, InTrans, tables, locals, Goto, Respond
<1>1. ASSUME NEW r \in Requests, Arrive(r) PROVE Opened
  <2>1. PICK c \in Calls : pc' = [pc EXCEPT ![r] = FirstStatement(c.op)]
    BY <1>1 DEF Arrive
  <2>2. FirstStatement(c.op) \in
          {"login_select", "logout_update", "refresh_select", "forgot_select",
           "new_transaction", "preflight", "statement"}
    BY DEF FirstStatement
  <2>. QED
    BY <1>1, <2>1, <2>2 DEF Arrive
<1>2. ASSUME NEW r \in Requests,
         LoginSelect(r) \/ LoginInsert(r) \/ Logout(r)
      PROVE  Opened
  BY <1>2 DEF LoginSelect, LoginInsert, InsertToken, Logout
<1>3. ASSUME NEW r \in Requests,
         RefreshSelect(r) \/ RefreshRevoke(r) \/ RefreshUser(r) \/ RefreshInsert(r)
      PROVE  Opened
  BY <1>3 DEF RefreshSelect, RefreshRevoke, RefreshUser, RefreshInsert, InsertToken
<1>4. ASSUME NEW r \in Requests, ForgotSelect(r) \/ ForgotInsert(r) PROVE Opened
  BY <1>4 DEF ForgotSelect, ForgotInsert
<1>5. ASSUME NEW r \in Requests, Begin(r) PROVE Opened
  <2>1. pc' = [pc EXCEPT ![r] = "claim"] /\ revoking' = revoking
    BY <1>5 DEF Begin
  <2>. QED
    BY <1>5, <2>1
<1>6. ASSUME NEW r \in Requests,
         Claim(r) \/ CountAttempt(r) \/ UpdatePassword(r)
      PROVE  Opened
  BY <1>6 DEF Claim, CountAttempt, UpdatePassword
<1>7. ASSUME NEW r \in Requests, RevokeAll(r) PROVE Opened
  <2>1. /\ pc[r] = "revoke_all" /\ pc' = [pc EXCEPT ![r] = "commit"]
        /\ \A s \in Requests \ {r} : revoking'[s] = revoking[s]
    BY <1>7 DEF RevokeAll
  <2>. QED
    BY <1>7, <2>1
<1>8. ASSUME NEW r \in Requests,
         Commit(r) \/ CommitUnnoticed(r) \/ CommitFails(r)
      PROVE  Opened
  BY <1>8 DEF Commit, CommitUnnoticed, CommitFails, ApplyReset
<1>9. ASSUME NEW r \in Requests, StatementFails(r) PROVE Opened
  BY <1>9 DEF StatementFails
<1>10. ASSUME NEW r \in Requests, Preflight(r) \/ UpdateMe(r) PROVE Opened
  BY <1>10 DEF Preflight, UpdateMe
<1>11. ASSUME NEW r \in Requests, SetActive(r) PROVE Opened
  BY <1>11 DEF SetActive
<1>12. ASSUME NEW r \in Requests, DeleteUser(r) PROVE Opened
  <2>1. /\ \A s \in Requests \ {r} : pc'[s] = pc[s]
        /\ pc'[r] \in {"done", "cascade"} /\ revoking' = revoking
    BY <1>12 DEF DeleteUser
  <2>. QED
    BY <1>12, <2>1
<1>14. ASSUME NEW r \in Requests, Cascade(r) PROVE Opened
  BY <1>14 DEF Cascade
<1>13. CASE Crash \/ UNCHANGED vars \/ \E r \in Requests : Expire(r)
  BY <1>13 DEF Crash, InFlight, vars, Expire
<1>. QED
  BY <1>1, <1>2, <1>3, <1>4, <1>5, <1>6, <1>7, <1>8, <1>9, <1>10, <1>11, <1>12,
     <1>13, <1>14, NextCases

LEMMA OneTransactionNext ==
  ASSUME PoolSize = 1, Typed, OneTransaction, [Next]_vars
  PROVE  OneTransaction'
<1>0. Opened
  BY OpenedNext
<1>1. CASE \A s \in Requests : ~Opens(s)
  BY <1>0, <1>1 DEF Opened, OneTransaction
<1>2. ASSUME NEW r \in Requests, Opens(r)
      PROVE  OneTransaction'
  <2>1. \A s \in Requests : pc[s] \notin InTrans
    BY <1>2, NoneOpen DEF Opens, Begin, DeleteUser
  <2>2. \A s \in Requests \ {r} : pc'[s] = pc[s]
    BY <1>2 DEF Opens, Begin, DeleteUser, Goto, Respond, Typed, TypeOK
  <2>. QED
    BY <2>1, <2>2 DEF OneTransaction
<1>. QED
  BY <1>1, <1>2

\* While a reset is open nothing is stored, so what it has revoked is all.
LEMMA RevokedAllNext ==
  ASSUME PoolSize = 1, Typed, RevokedAll, [Next]_vars
  PROVE  RevokedAll'
<1>0. Stable /\ TokensStep /\ Opened
  BY StableNext, TokensNext, OpenedNext
<1> SUFFICES ASSUME NEW r \in Requests, pc'[r] = "commit",
                    NEW t \in refresh_tokens', t.user = call'[r].user
             PROVE  t.req \in revoking'[r]
  BY DEF RevokedAll
<1>1. CASE RevokeAll(r)
  BY <1>1 DEF RevokeAll, tables, Typed, TypeOK
<1>2. CASE pc[r] = "commit" /\ revoking'[r] = revoking[r]
  <2>1. ~ConnectionFree
    BY <1>2, NoneOpen DEF InTrans
  <2>2. PICK s \in refresh_tokens : SameToken(s, t)
    BY <1>0, <2>1 DEF TokensStep, StoredNow
  <2>3. call'[r] = call[r]
    BY <1>0, <1>2 DEF Stable
  <2>. QED
    BY <1>2, <2>2, <2>3 DEF SameToken, RevokedAll
<1>. QED
  BY <1>0, <1>1, <1>2 DEF Opened

LEMMA IInv1Init == Init => IInv1
<1> SUFFICES ASSUME Init PROVE IInv1
  OBVIOUS
<1>1. IInv
  BY IInvInit
<1>2. OneTransaction /\ RevokedAll
  BY DEF Init, OneTransaction, RevokedAll, InTrans
<1>. QED
  BY <1>1, <1>2 DEF IInv1

LEMMA IInv1Next ==
  ASSUME PoolSize = 1, IInv1, [Next]_vars
  PROVE  IInv1'
<1>0. Typed /\ IInv
  BY DEF IInv1, IInv, Typed
<1>1. IInv'
  BY <1>0, IInvNext
<1>2. OneTransaction'
  BY <1>0, OneTransactionNext DEF IInv1
<1>3. RevokedAll'
  BY <1>0, RevokedAllNext DEF IInv1
<1>. QED
  BY <1>1, <1>2, <1>3 DEF IInv1

THEOREM InvarianceOneConnection ==
  ASSUME PoolSize = 1
  PROVE  Spec => []IInv1
<1>1. IInv1 /\ [Next]_vars => IInv1'
  BY IInv1Next
<1>. QED
  BY <1>1, IInv1Init, PTL DEF Spec

\* A circle takes two connections.
LEMMA OneConnectionNoCircle ==
  ASSUME OneTransaction, NEW r \in Requests
  PROVE  ~InCircle(r)
<1>1. \A d, s \in Requests : ~WaitForEachOther(d, s)
  BY DEF WaitForEachOther, OneTransaction, InTrans
<1>. QED
  BY <1>1 DEF InCircle

\* While any request is served one of them can go on, but for one circle, which
\* takes two connections: a deletion that waits for the token a reset has claimed,
\* and the reset for the account the deletion has locked.
THEOREM StandstillOnlyInCircle == Spec => []NoStandstill
<1>1. PoolSize = 1 \/ PoolSize = 2
  BY SessionsAssumption
<1>2. CASE PoolSize = 1
  <2>1. Spec => []IInv1
    BY <1>2, InvarianceOneConnection
  <2>2. IInv1 => NoStandstill
    BY SomebodyProceeds, OneConnectionNoCircle DEF IInv1, NoStandstill
  <2>. QED
    BY <2>1, <2>2, PTL
<1>3. CASE PoolSize = 2
  <2>1. IInv => NoStandstill
    BY <1>3, SomebodyProceeds DEF NoStandstill
  <2>. QED
    BY <2>1, Invariance, PTL
<1>. QED
  BY <1>1, <1>2, <1>3

\* A COMMIT of a reset leaves no stored token of its user good.
LEMMA CommitRevokes ==
  ASSUME IInv1, [Next]_vars,
         NEW r \in resets' \ resets, NEW t \in refresh_tokens', t.user = call[r].user
  PROVE  t.revoked
<1>0. Typed
  BY DEF IInv1, IInv, Typed
<1>1. r \in Requests /\ pc[r] = "commit" /\ pc'[r] = "done"
  BY <1>0, HistoryNext
<1>2. resets' # resets
  OBVIOUS
<1>3. PICK x \in Requests : Commit(x) \/ CommitUnnoticed(x)
  <2>1. ASSUME NEW x \in Requests,
         \/ Arrive(x) \/ LoginSelect(x) \/ LoginInsert(x) \/ Logout(x)
         \/ RefreshSelect(x) \/ RefreshRevoke(x) \/ RefreshUser(x) \/ RefreshInsert(x)
         \/ ForgotSelect(x) \/ ForgotInsert(x) \/ Begin(x) \/ Claim(x)
         \/ CountAttempt(x) \/ UpdatePassword(x) \/ RevokeAll(x)
         \/ CommitFails(x) \/ StatementFails(x) \/ Preflight(x)
         \/ UpdateMe(x) \/ SetActive(x) \/ DeleteUser(x) \/ Cascade(x) \/ Expire(x)
        PROVE  resets' = resets
    BY <2>1 DEF Arrive, LoginSelect, LoginInsert, Logout, RefreshSelect,
         RefreshRevoke, RefreshUser, RefreshInsert, ForgotSelect, ForgotInsert,
         Begin, Claim, CountAttempt, UpdatePassword, RevokeAll, CommitFails,
         StatementFails, Preflight, UpdateMe, SetActive, DeleteUser, Cascade, Expire
  <2>2. CASE Crash \/ UNCHANGED vars
    BY <2>2 DEF Crash, vars
  <2>. QED
    BY <1>2, <2>1, <2>2, NextCases
<1>4. x = r /\ refresh_tokens' = Revoke(refresh_tokens, revoking[r])
  BY <1>3 DEF Commit, CommitUnnoticed, ApplyReset
<1>5. refresh_tokens \in SUBSET RefreshToken
  BY <1>0 DEF Typed, TypeOK
<1>6. PICK s \in refresh_tokens : s.req = t.req /\ s.user = t.user
  BY <1>4, <1>5, RevokeRows
<1>7. t.req \in revoking[r]
  BY <1>1, <1>6 DEF IInv1, RevokedAll
<1>. QED
  BY <1>4, <1>5, <1>7, RevokeRows

\* With the shipped pool of one connection a committed reset has revoked every
\* refresh token of its user that is stored.
THEOREM ResetEndsStoredSessions ==
  ASSUME PoolSize = 1
  PROVE  Spec => ResetRevokesStored
<1>1. IInv1 /\ [Next]_vars =>
        [\A r \in resets' \ resets : \A t \in refresh_tokens' :
            t.user = call[r].user => t.revoked]_vars
  BY CommitRevokes
<1>. QED
  BY <1>1, InvarianceOneConnection, PTL DEF Spec, ResetRevokesStored
(***************************************************************************)
(* Sessions that have ended.                                               *)
(***************************************************************************)
\* A token that is revoked or gone stays so: only the request that draws a token
\* stores it, once, before its owner has it.
THEOREM NoRevival == Spec => EndedStaysEnded
<1> DEFINE Dead(s) == \A t \in refresh_tokens : t.req = s => t.revoked
<1>1. ASSUME IInv, [Next]_vars, NEW s \in Received({"login", "refresh"}), Dead(s)
      PROVE  Dead(s)'
  <2>1. TokensStep
    BY <1>1, TokensNext DEF IInv, Typed
  <2>2. pc[s] = "done"
    BY <1>1 DEF Received, IInv, HandlerOK
  <2>3. SUFFICES ASSUME NEW t \in refresh_tokens', t.req = s PROVE t.revoked
    OBVIOUS
  <2>4. ~StoredNow(t)
    BY <2>2, <2>3 DEF StoredNow
  <2>5. PICK u \in refresh_tokens : SameToken(u, t)
    BY <2>1, <2>4 DEF TokensStep
  <2>. QED
    BY <1>1, <2>3, <2>5 DEF SameToken
<1>2. IInv /\ [Next]_vars =>
        [\A s \in Received({"login", "refresh"}) :
           (\A t \in refresh_tokens : t.req = s => t.revoked)
             => \A t \in refresh_tokens' : t.req = s => t.revoked]_vars
  BY <1>1
<1>. QED
  BY <1>2, Invariance, PTL DEF Spec, EndedStaysEnded

(***************************************************************************)
(* Refinement of Credentials (one connection).                             *)
(***************************************************************************)
credentials == <<Members, password, LiveSessions, OpenLinks, Drawn>>

\* The token of a request, as Credentials sees it.
Own(r) == [token |-> r, user |-> call[r].user]

\* No token is handed out by an answer other than 200, or to another request.
LEMMA DrawnKept ==
  ASSUME Typed, NEW r \in Requests, pc[r] # "done", call' = call,
         \A s \in Requests \ {r} : reply'[s] = reply[s],
         \/ reply'[r] = reply[r] \/ reply'[r] # 200
         \/ call[r].op \notin {"login", "refresh", "forgot"}
  PROVE  Drawn' = Drawn
<1>1. reply[r] # 200
  BY DEF Typed, HandlerOK
<1>. QED
  BY <1>1 DEF Drawn, Received, Typed, TypeOK

\* A token is handed out by the answer 200, once.
LEMMA DrawnGrows ==
  ASSUME Typed, NEW r \in Requests, pc[r] # "done", call' = call,
         reply' = [reply EXCEPT ![r] = 200],
         call[r].op \in {"login", "refresh", "forgot"}
  PROVE  /\ r \notin Drawn /\ Drawn' = Drawn \cup {r}
         /\ Own(r) \in Promise!Key
<1>1. reply[r] # 200
  BY DEF Typed, HandlerOK
<1>2. call[r].user \in Users
  BY CallFields DEF Typed, TypeOK, NoCall
<1>. QED
  BY <1>1, <1>2 DEF Drawn, Received, Typed, TypeOK, Own, Promise!Key

\* Setting the flag revoked ends the sessions named, and no others.
LEMMA SessionsEnded ==
  ASSUME Typed, NEW gone, refresh_tokens' = Revoke(refresh_tokens, gone)
  PROVE  LiveSessions' = {k \in LiveSessions : k.token \notin gone}
<1>1. {x \in refresh_tokens' : ~x.revoked}
        = {x \in refresh_tokens : ~x.revoked /\ x.req \notin gone}
  BY DEF Revoke, Typed, TypeOK, RefreshToken
<1>2. \A t : KeyOf(t).token = t.req
  BY DEF KeyOf
<1>. QED
  BY <1>1, <1>2 DEF LiveSessions, KeyOf

\* Arriving, reading, and the statements of an open reset leave all as it was, and
\* so does a crash.
LEMMA NothingPromised ==
  ASSUME Typed, NEW r \in Requests,
         \/ Arrive(r) \/ LoginSelect(r) \/ RefreshSelect(r) \/ RefreshUser(r)
         \/ Begin(r) \/ Claim(r) \/ UpdatePassword(r) \/ RevokeAll(r) \/ CommitFails(r)
         \/ Preflight(r) \/ Expire(r) \/ Crash \/ UNCHANGED vars
  PROVE  UNCHANGED credentials
<1>1. UNCHANGED tables
  BY DEF Arrive, LoginSelect, RefreshSelect, RefreshUser, Begin, Claim,
     UpdatePassword, RevokeAll, CommitFails, Preflight, Expire, Crash, vars, tables
<1>2. Drawn' = Drawn
  <2>1. CASE Arrive(r)
    <3>1. pc[r] = "new" /\ reply' = reply /\ \A s \in Requests \ {r} : call'[s] = call[s]
      BY <2>1 DEF Arrive, Goto, Typed, TypeOK
    <3>2. reply[r] # 200
      BY <3>1 DEF Typed, HandlerOK
    <3>. QED
      BY <3>1, <3>2 DEF Drawn, Received
  <2>2. CASE \/ LoginSelect(r) \/ RefreshSelect(r) \/ RefreshUser(r) \/ Begin(r)
             \/ Claim(r) \/ UpdatePassword(r) \/ RevokeAll(r) \/ CommitFails(r)
             \/ Preflight(r)
    <3>1. pc[r] # "done" /\ call' = call
      BY <2>2 DEF LoginSelect, RefreshSelect, RefreshUser, Begin, Claim,
         UpdatePassword, RevokeAll, CommitFails, Preflight, locals
    <3>2. \E code \in {400, 401, 500} :
             reply' = reply \/ reply' = [reply EXCEPT ![r] = code]
      BY <2>2 DEF LoginSelect, RefreshSelect, RefreshUser, Begin, Claim,
         UpdatePassword, RevokeAll, CommitFails, Preflight, Goto, Respond
    <3>. QED
      BY <3>1, <3>2, DrawnKept DEF Typed, TypeOK
  <2>3. CASE Expire(r) \/ Crash \/ UNCHANGED vars
    BY <2>3 DEF Expire, Crash, vars, Drawn, Received, locals
  <2>. QED
    BY <2>1, <2>2, <2>3
<1>. QED
  BY <1>1, <1>2 DEF credentials, tables, Members, LiveSessions, OpenLinks

\* An INSERT into refresh_tokens signs in, unless the account is gone.
LEMMA StoringSignsIn ==
  ASSUME Typed, NEW r \in Requests, LoginInsert(r) \/ RefreshInsert(r)
  PROVE  [Promise!Next]_credentials
<1>1. /\ InsertToken(r) /\ pc[r] \in {"login_insert", "refresh_insert"}
      /\ call' = call
      /\ UNCHANGED <<accounts, password, password_resets>>
  BY DEF LoginInsert, RefreshInsert, locals
<1>2. call[r].op \in {"login", "refresh"}
  BY <1>1 DEF Typed, HandlerOK, RefreshLabels
<1>3. Members' = Members /\ OpenLinks' = OpenLinks
  BY <1>1 DEF Members, OpenLinks
<1>4. CASE /\ accounts[call[r].user] # "gone"
           /\ refresh_tokens' = refresh_tokens \cup {NewToken(r)}
           /\ Respond(r, 200)
  <2>1. r \notin Drawn /\ Drawn' = Drawn \cup {r} /\ Own(r) \in Promise!Key
    BY <1>1, <1>2, <1>4, DrawnGrows DEF Respond
  <2>2. {x \in refresh_tokens' : ~x.revoked}
          = {x \in refresh_tokens : ~x.revoked} \cup {NewToken(r)}
    BY <1>4 DEF NewToken
  <2>3. KeyOf(NewToken(r)) = Own(r)
    BY DEF NewToken, KeyOf, Own
  <2>4. LiveSessions' = LiveSessions \cup {Own(r)}
    BY <2>2, <2>3 DEF LiveSessions, KeyOf
  <2>5. Own(r).user \in Members /\ Own(r).token = r
    BY <1>4, <2>1 DEF Own, Members, Promise!Key
  <2>6. Promise!SignIn(Own(r))
    BY <1>1, <1>3, <2>1, <2>4, <2>5 DEF Promise!SignIn
  <2>. QED
    BY <2>1, <2>6 DEF Promise!Next
<1>5. CASE Respond(r, 500) /\ UNCHANGED refresh_tokens
  <2>1. pc[r] # "done" /\ reply' = [reply EXCEPT ![r] = 500]
    BY <1>1, <1>5 DEF Respond
  <2>2. Drawn' = Drawn
    BY <1>1, <2>1, DrawnKept
  <2>. QED
    BY <1>1, <1>3, <1>5, <2>2 DEF credentials, LiveSessions
<1>. QED
  BY <1>1, <1>4, <1>5 DEF InsertToken

\* Revoking the presented token ends its session.
LEMMA RevokingSignsOut ==
  ASSUME Typed, NEW r \in Requests, Logout(r) \/ RefreshRevoke(r)
  PROVE  [Promise!Next]_credentials
<1>1. /\ refresh_tokens' = Revoke(refresh_tokens, {call[r].token})
      /\ UNCHANGED <<accounts, password, password_resets>>
      /\ pc[r] \in {"logout_update", "refresh_revoke"} /\ call' = call
      /\ reply' = reply \/ reply' = [reply EXCEPT ![r] = 204]
  BY DEF Logout, RefreshRevoke, Respond, Goto, locals
<1>2. call[r].token \in Requests
  BY <1>1, CallFields DEF Typed, TypeOK, HandlerOK, RefreshLabels
<1>3. LiveSessions' = {k \in LiveSessions : k.token # call[r].token}
  BY <1>1, SessionsEnded
<1>4. Drawn' = Drawn
  BY <1>1, DrawnKept DEF Typed, TypeOK
<1>5. Promise!SignOut(call[r].token)
  BY <1>1, <1>3, <1>4 DEF Promise!SignOut, Members, OpenLinks
<1>. QED
  BY <1>2, <1>5 DEF Promise!Next

\* forgot_password's one answer, with and without a link.
LEMMA AnsweringSendsLink ==
  ASSUME Typed, NEW r \in Requests, ForgotSelect(r) \/ ForgotInsert(r) \/ StatementFails(r)
  PROVE  [Promise!Next]_credentials
<1>1. /\ pc[r] # "done" /\ call' = call
      /\ UNCHANGED <<accounts, password, refresh_tokens>>
  BY DEF ForgotSelect, ForgotInsert, StatementFails, tables, locals, InTrans, Waiting
<1>2. Members' = Members /\ LiveSessions' = LiveSessions
  BY <1>1 DEF Members, LiveSessions
<1>3. pc[r] \in {"forgot_select", "forgot_insert"} => call[r].op = "forgot"
  BY DEF Typed, HandlerOK
<1>4. CASE password_resets' = password_resets /\ (call[r].op # "forgot" \/ reply' = reply)
  <2>1. reply' = reply \/ reply' = [reply EXCEPT ![r] = 500]
    BY <1>3, <1>4 DEF ForgotSelect, ForgotInsert, StatementFails, Respond, Goto
  <2>2. Drawn' = Drawn
    BY <1>1, <2>1, DrawnKept DEF Typed, TypeOK
  <2>. QED
    BY <1>1, <1>2, <1>4, <2>2 DEF credentials, OpenLinks
<1>5. CASE call[r].op = "forgot" /\ reply' # reply
  <2>1. reply' = [reply EXCEPT ![r] = 200]
    BY <1>5 DEF ForgotSelect, ForgotInsert, StatementFails, Respond, Goto
  <2>2. r \notin Drawn /\ Drawn' = Drawn \cup {r} /\ Own(r) \in Promise!Key
    BY <1>1, <1>5, <2>1, DrawnGrows
  <2>3. OpenLinks' = OpenLinks
          \/ (Own(r).user \in Members /\ OpenLinks' = OpenLinks \cup {Own(r)})
    <3>1. CASE password_resets' = password_resets
      BY <3>1 DEF OpenLinks
    <3>2. CASE password_resets' # password_resets
      <4> DEFINE row == [req |-> r, user |-> call[r].user, used |-> FALSE, attempts |-> 0]
      <4>1. /\ accounts[call[r].user] # "gone"
            /\ password_resets' = password_resets \cup {row}
        BY <3>2 DEF ForgotSelect, ForgotInsert, StatementFails, tables
      <4>2. {x \in password_resets' : ~x.used}
              = {x \in password_resets : ~x.used} \cup {row}
        BY <4>1
      <4>3. KeyOf(row) = Own(r)
        BY DEF KeyOf, Own
      <4>4. OpenLinks' = OpenLinks \cup {Own(r)}
        <5> HIDE DEF row
        <5>. QED
          BY <4>2, <4>3 DEF OpenLinks, KeyOf
      <4>. QED
        BY <2>2, <4>1, <4>4 DEF Own, Members, Promise!Key
    <3>. QED
      BY <3>1, <3>2
  <2>4. Promise!SendLink(Own(r))
    BY <1>1, <1>2, <2>2, <2>3 DEF Promise!SendLink, Own
  <2>. QED
    BY <2>2, <2>4 DEF Promise!Next
<1>6. CASE password_resets' # password_resets
  BY <1>3, <1>5, <1>6 DEF ForgotSelect, ForgotInsert, StatementFails, tables, Respond,
     Typed, HandlerOK, TypeOK
<1>. QED
  BY <1>4, <1>5, <1>6

\* A COMMIT redeems a link, in one step.
LEMMA CommittingRedeems ==
  ASSUME IInv1, NEW r \in Requests, Commit(r) \/ CommitUnnoticed(r)
  PROVE  [Promise!Next]_credentials
<1>0. Typed
  BY DEF IInv1, IInv, Typed
<1>1. /\ pc[r] = "commit" /\ ApplyReset(r)
      /\ \E code \in {200, 500} : reply' = [reply EXCEPT ![r] = code]
  BY DEF Commit, CommitUnnoticed, Respond
<1>2. call[r].op = "reset" /\ call[r].user \in Users /\ call[r].password \in Passwords
  BY <1>0, <1>1, CallFields DEF Typed, TypeOK, HandlerOK, ResetLabels, NoCall
<1> DEFINE k == [token |-> call[r].token, user |-> call[r].user]
<1>3. PICK p \in password_resets : p.req = call[r].token /\ ~p.used
  BY <1>1 DEF IInv1, IInv, ClaimOK, ClaimLabels
<1>4. /\ \A q \in password_resets : q.req = call[r].token => q.user = call[r].user
      /\ p.req \in Requests
  BY <1>2, <1>3 DEF IInv1, IInv, RowsOK, TokenOK, TypeOK, PasswordReset
<1>5. k \in OpenLinks /\ k \in Promise!Key
  BY <1>2, <1>3, <1>4 DEF OpenLinks, KeyOf, Promise!Key
<1>6. OpenLinks' = OpenLinks \ {k}
  <2>1. {x \in password_resets' : ~x.used}
          = {x \in password_resets : ~x.used /\ x.req # call[r].token}
    BY <1>0, <1>1 DEF ApplyReset, Typed, TypeOK, PasswordReset
  <2>2. \A q \in password_resets : KeyOf(q) = k <=> q.req = call[r].token
    BY <1>4 DEF KeyOf
  <2>. QED
    <3> HIDE DEF k
    <3>. QED
      BY <2>1, <2>2 DEF OpenLinks, KeyOf
<1>7. LiveSessions' = {s \in LiveSessions : s.user # call[r].user}
  <2>1. LiveSessions' = {s \in LiveSessions : s.token \notin revoking[r]}
    BY <1>0, <1>1, SessionsEnded DEF ApplyReset
  <2>2. \A t \in refresh_tokens : t.req \in revoking[r] <=> t.user = call[r].user
    BY <1>1 DEF IInv1, IInv, RevokedAll, RevokesOwn, RowsOK
  <2>3. \A s \in LiveSessions : s.token \in revoking[r] <=> s.user = call[r].user
    BY <2>2 DEF LiveSessions, KeyOf
  <2>. QED
    BY <2>1, <2>3
<1>8. Drawn' = Drawn
  <2>1. pc[r] # "done" /\ call' = call
    BY <1>1 DEF ApplyReset
  <2>2. call[r].op \notin {"login", "refresh", "forgot"}
    BY <1>2
  <2>. QED
    BY <1>0, <1>1, <2>1, <2>2, DrawnKept
<1>9. Promise!Redeem(k, call[r].password)
  BY <1>1, <1>5, <1>6, <1>7, <1>8 DEF Promise!Redeem, ApplyReset, Members
<1>. QED
  BY <1>2, <1>5, <1>9 DEF Promise!Next

\* Counting a failed attempt opens and closes nothing.
LEMMA CountingPromisesNothing ==
  ASSUME Typed, NEW r \in Requests, CountAttempt(r)
  PROVE  UNCHANGED credentials
<1>1. OpenLinks' = OpenLinks
  <2> DEFINE Raised(q) == [q EXCEPT !.attempts = @ + 1]
  <2>1. \A q \in password_resets : KeyOf(Raised(q)) = KeyOf(q) /\ Raised(q).used = q.used
    BY DEF KeyOf, Typed, TypeOK, PasswordReset
  <2>2. password_resets' =
          {p \in password_resets : ~Counted(p, r)}
            \cup {Raised(p) : p \in {q \in password_resets : Counted(q, r)}}
    BY DEF CountAttempt
  <2> DEFINE keys == {KeyOf(p) : p \in {x \in password_resets' : ~x.used}}
  <2>3. keys \subseteq OpenLinks
    <3> HIDE DEF Raised
    <3>. QED
      BY <2>1, <2>2 DEF OpenLinks
  <2>4. OpenLinks \subseteq keys
    <3> SUFFICES ASSUME NEW q \in password_resets, ~q.used PROVE KeyOf(q) \in keys
      BY DEF OpenLinks
    <3> HIDE DEF Raised
    <3>1. \E p \in password_resets' : ~p.used /\ KeyOf(p) = KeyOf(q)
      BY <2>1, <2>2
    <3>. QED
      BY <3>1
  <2>. QED
    BY <2>3, <2>4 DEF OpenLinks, KeyOf
<1>. QED
  BY <1>1 DEF CountAttempt, credentials, Members, LiveSessions, Drawn, Received, locals

\* PATCH /me, the admin's handlers and the deletion of an account.
LEMMA AccountsPromise ==
  ASSUME Typed, TokensHaveOwners, NEW r \in Requests,
         UpdateMe(r) \/ SetActive(r) \/ DeleteUser(r) \/ Cascade(r)
  PROVE  [Promise!Next]_credentials
<1>1. /\ pc[r] \in {"statement", "cascade"} /\ call' = call
      /\ call[r].op \in {"update", "active", "inactive", "deleteUser"}
      /\ \/ reply' = reply
         \/ \E code \in {200, 204, 404} : reply' = [reply EXCEPT ![r] = code]
  BY DEF UpdateMe, SetActive, DeleteUser, Cascade, Respond, Goto, locals, Typed, HandlerOK
<1>2. Drawn' = Drawn
  <2>1. pc[r] # "done" /\ call[r].op \notin {"login", "refresh", "forgot"}
    BY <1>1
  <2>2. \A s \in Requests \ {r} : reply'[s] = reply[s]
    BY <1>1 DEF Typed, TypeOK
  <2>. QED
    BY <1>1, <2>1, <2>2, DrawnKept
<1>3. call[r].user \in Users
  BY <1>1, CallFields DEF Typed, TypeOK, NoCall
<1>4. CASE UNCHANGED tables
  BY <1>2, <1>4 DEF credentials, tables, Members, LiveSessions, OpenLinks
<1>5. CASE UpdateMe(r) /\ accounts[call[r].user] # "gone"
  <2>1. call[r].password \in Passwords
    BY <1>5, CallFields DEF UpdateMe, Typed, TypeOK
  <2>2. Promise!ChangePassword(call[r].user, call[r].password)
    BY <1>2, <1>3, <1>5 DEF UpdateMe, Promise!ChangePassword, Members, LiveSessions,
       OpenLinks
  <2>. QED
    BY <1>3, <2>1, <2>2 DEF Promise!Next
<1>6. CASE SetActive(r) /\ accounts[call[r].user] # "gone"
  <2>1. Members' = Members
    BY <1>1, <1>3, <1>6 DEF SetActive, Members, Typed, TypeOK
  <2>. QED
    BY <1>2, <1>6, <2>1 DEF SetActive, credentials, LiveSessions, OpenLinks
<1>7. CASE Cascade(r)
  <2> DEFINE u == call[r].user
  <2>1. /\ accounts' = [accounts EXCEPT ![u] = "gone"]
        /\ refresh_tokens' = {t \in refresh_tokens : t.user # u}
        /\ password_resets' = {p \in password_resets : p.user # u}
        /\ password' = password
    BY <1>7 DEF Cascade
  <2>2. LiveSessions' = {s \in LiveSessions : s.user # u}
    BY <2>1 DEF LiveSessions, KeyOf
  <2>3. OpenLinks' = {l \in OpenLinks : l.user # u}
    BY <2>1 DEF OpenLinks, KeyOf
  <2>4. Members' = Members \ {u}
    BY <1>3, <2>1 DEF Members, Typed, TypeOK
  <2>5. CASE u \in Members
    <3>1. Promise!Leave(u)
      BY <1>2, <2>1, <2>2, <2>3, <2>4, <2>5 DEF Promise!Leave
    <3>. QED
      BY <1>3, <3>1 DEF Promise!Next
  <2>6. CASE u \notin Members
    <3>1. accounts[u] = "gone"
      BY <1>3, <2>6 DEF Members
    <3>2. refresh_tokens' = refresh_tokens /\ password_resets' = password_resets
      BY <2>1, <3>1 DEF TokensHaveOwners
    <3>. QED
      BY <1>2, <2>1, <2>4, <2>6, <3>2 DEF credentials, LiveSessions, OpenLinks
  <2>. QED
    BY <2>5, <2>6
<1>. QED
  BY <1>4, <1>5, <1>6, <1>7 DEF UpdateMe, SetActive, DeleteUser, tables

LEMMA CredentialsStep ==
  ASSUME IInv1, [Next]_vars
  PROVE  [Promise!Next]_credentials
<1>1. Typed
  BY DEF IInv1, IInv, Typed
<1>2. CASE \E r \in Requests : \/ Commit(r) \/ CommitUnnoticed(r)
  BY <1>2, CommittingRedeems
<1>3. CASE \E r \in Requests : \/ LoginInsert(r) \/ RefreshInsert(r)
  BY <1>1, <1>3, StoringSignsIn
<1>4. CASE \E r \in Requests : \/ Logout(r) \/ RefreshRevoke(r)
  BY <1>1, <1>4, RevokingSignsOut
<1>5. CASE \E r \in Requests : \/ ForgotSelect(r) \/ ForgotInsert(r) \/ StatementFails(r)
  BY <1>1, <1>5, AnsweringSendsLink
<1>6. CASE \E r \in Requests : CountAttempt(r)
  BY <1>1, <1>6, CountingPromisesNothing
<1>7. CASE \E r \in Requests :
         \/ UpdateMe(r) \/ SetActive(r) \/ DeleteUser(r) \/ Cascade(r)
  BY <1>1, <1>7, AccountsPromise DEF IInv1, IInv
<1>8. CASE \E r \in Requests :
         \/ Arrive(r) \/ LoginSelect(r) \/ RefreshSelect(r) \/ RefreshUser(r)
         \/ Begin(r) \/ Claim(r) \/ UpdatePassword(r) \/ RevokeAll(r) \/ CommitFails(r)
         \/ Preflight(r) \/ Expire(r)
  BY <1>1, <1>8, NothingPromised
<1>9. CASE Crash \/ UNCHANGED vars
  BY <1>9 DEF Crash, vars, tables, credentials, Members, LiveSessions, OpenLinks, Drawn,
     Received
<1>. QED
  BY <1>2, <1>3, <1>4, <1>5, <1>6, <1>7, <1>8, <1>9, NextCases

\* With the shipped pool of one connection, however requests interleave, fail or
\* are lost, signing in and out, forgotten passwords and accounts are seen as the
\* indivisible steps of Credentials: a reset takes its link, sets the password and
\* ends the sessions of its user, and nobody else's, at once or not at all.
THEOREM CredentialsImplemented ==
  ASSUME PoolSize = 1
  PROVE  Spec => ImplementsCredentials
<1>1. Init => Promise!Init
  BY DEF Init, Promise!Init, Members, LiveSessions, OpenLinks, Drawn, Received
<1>2. IInv1 /\ [Next]_vars => [Promise!Next]_credentials
  BY CredentialsStep
<1>. QED
  BY <1>1, <1>2, InvarianceOneConnection, PTL
  DEF Spec, ImplementsCredentials, Promise!Spec, credentials
=============================================================================
