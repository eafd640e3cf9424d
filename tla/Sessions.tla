------------------------------ MODULE Sessions ------------------------------
(***************************************************************************)
(* Signing in and out, refreshing, forgotten passwords and the state of    *)
(* accounts (src/src/controllers/AuthController.cpp, UserController.cpp)   *)
(* over the tables users, refresh_tokens and password_resets of            *)
(* src/sql/002_auth.sql.                                                   *)
(*                                                                         *)
(* As in Voting, one step is one SQL statement with its callback.  Every   *)
(* refresh or reset token is drawn at random by one request, so the        *)
(* request stands for the token and for its row.  Passwords are compared   *)
(* by their hashes, which is to say by the passwords.                      *)
(*                                                                         *)
(* Left out: names, mail addresses and profiles, request bodies that fail  *)
(* validation, the wording of answers, and the lifetime of access tokens.  *)
(* The clock is not modelled: a token may expire at any moment, and any    *)
(* earlier reset request may have left the rate limit's window.            *)
(***************************************************************************)
EXTENDS Integers, FiniteSets

CONSTANTS Users,        \* accounts registered before the first request
          Passwords,
          Requests,     \* HTTP requests, each served once
          MaxRequests,  \* password_reset_rate_limit_max_requests
          MaxAttempts,  \* password_reset_max_attempts
          PoolSize,     \* db_clients[0].number_of_connections
          Ops           \* the operations requests may ask for

Operations == {"login", "logout", "refresh", "forgot", "reset", "update",
               "inactive", "active", "deleteUser"}

ASSUME SessionsAssumption ==
  /\ IsFiniteSet(Requests)
  /\ MaxRequests \in Nat \ {0}
  /\ MaxAttempts \in Nat \ {0}
  /\ PoolSize \in 1..2
  /\ Ops \subseteq Operations

VARIABLES
  accounts,         \* users.is_active, or that the row is gone
  password,         \* users.password_hash
  refresh_tokens,   \* rows of table refresh_tokens
  password_resets,  \* rows of table password_resets
  expired,          \* the tokens past their expires_at
  pc,               \* the statement a request sends next
  call,             \* what a request asks for
  revoking,         \* tokens an open reset has revoked and not committed
  claim,            \* is_active as a minted access token states it
  reply,            \* status code sent to the client, 0 before
  resets,           \* history: the resets that have been committed
  verified          \* history: the resets a request's credential check came after

tables == <<accounts, password, refresh_tokens, password_resets>>
locals == <<call, revoking, claim, verified>>
vars == <<accounts, password, refresh_tokens, password_resets, expired, pc, call,
          revoking, claim, reply, resets, verified>>

RefreshToken == [req : Requests, user : Users, revoked : BOOLEAN]
PasswordReset == [req : Requests, user : Users, used : BOOLEAN, attempts : Nat]

\* What a request carries after validation and the filters; a token stands for
\* the request that drew it.
Calls ==
  [op : {"login", "update"}, user : Users, password : Passwords]
    \cup [op : {"logout", "refresh"}, user : Users, token : Requests]
    \cup [op : {"reset"}, user : Users, token : Requests, password : Passwords]
    \cup [op : {"forgot", "inactive", "active", "deleteUser"}, user : Users]
NoCall == [op |-> "none"]

\* Statements during which a request holds a connection and locks.
InTrans == {"claim", "update_password", "revoke_all", "commit", "cascade"}
Waiting == {"login_select", "login_insert", "logout_update", "refresh_select",
            "refresh_revoke", "refresh_user", "refresh_insert", "forgot_select",
            "forgot_insert", "new_transaction", "count_attempt", "preflight",
            "statement"}
Ended == {"done", "lost"}
Codes == {0, 200, 204, 400, 401, 404, 500}

TypeOK ==
  /\ accounts \in [Users -> {"active", "inactive", "gone"}]
  /\ password \in [Users -> Passwords]
  /\ refresh_tokens \subseteq RefreshToken
  /\ password_resets \subseteq PasswordReset
  /\ expired \subseteq Requests
  /\ pc \in [Requests -> InTrans \cup Waiting \cup Ended \cup {"new"}]
  /\ call \in [Requests -> Calls \cup {NoCall}]
  /\ revoking \in [Requests -> SUBSET Requests]
  /\ claim \in [Requests -> {"none", "active", "inactive"}]
  /\ reply \in [Requests -> Codes]
  /\ resets \subseteq Requests
  /\ verified \in [Requests -> SUBSET Requests]

-----------------------------------------------------------------------------
(* Helpers *)

\* A form of ConnectionFree where handlers keep their connection between statements.
ConnectionFreeHeld ==
  Cardinality({s \in Requests :
                 pc[s] \in InTrans \cup {"login_insert", "refresh_revoke", "refresh_user",
                                        "refresh_insert", "forgot_insert"}}) < PoolSize

ConnectionFree == Cardinality({s \in Requests : pc[s] \in InTrans}) < PoolSize

\* Row locks of open resets: the claimed row of password_resets, and from the
\* second statement on the row of users.  A deletion under way has locked the row
\* of users against every writer, and against INSERTs that refer to it.
Claimed(t) ==
  \E s \in Requests : /\ pc[s] \in {"update_password", "revoke_all", "commit"}
                      /\ call[s].token = t
Deleting(u) == \E s \in Requests : pc[s] = "cascade" /\ call[s].user = u
UserLocked(u) ==
  \/ Deleting(u)
  \/ \E s \in Requests : pc[s] \in {"revoke_all", "commit"} /\ call[s].user = u
TokenLocked(t) ==
  \/ \E s \in Requests : t \in revoking[s]
  \/ \E row \in refresh_tokens : row.req = t /\ Deleting(row.user)

Valid(row) == ~row.revoked /\ row.req \notin expired

\* The row of a token after a statement has set its flag.
Revoke(rows, gone) ==
  {t \in rows : t.req \notin gone}
    \cup {[t EXCEPT !.revoked = TRUE] : t \in {x \in rows : x.req \in gone}}

Goto(r, label) == pc' = [pc EXCEPT ![r] = label] /\ UNCHANGED reply
Respond(r, code) == /\ pc' = [pc EXCEPT ![r] = "done"]
                    /\ reply' = [reply EXCEPT ![r] = code]

\* Tokens their owners have received: in the answer to a login or refresh, or
\* in the mail a forgotten password triggers.
Received(ops) == {s \in Requests : call[s].op \in ops /\ reply[s] = 200}

-----------------------------------------------------------------------------
Init ==
  /\ accounts = [u \in Users |-> "active"]
  /\ password \in [Users -> Passwords]
  /\ refresh_tokens = {}
  /\ password_resets = {}
  /\ expired = {}
  /\ pc = [r \in Requests |-> "new"]
  /\ call = [r \in Requests |-> NoCall]
  /\ revoking = [r \in Requests |-> {}]
  /\ claim = [r \in Requests |-> "none"]
  /\ reply = [r \in Requests |-> 0]
  /\ resets = {}
  /\ verified = [r \in Requests |-> {}]

FirstStatement(op) ==
  CASE op = "login" -> "login_select"
    [] op = "logout" -> "logout_update"
    [] op = "refresh" -> "refresh_select"
    [] op = "forgot" -> "forgot_select"
    [] op = "reset" -> "new_transaction"
    [] op = "update" -> "preflight"
    [] OTHER -> "statement"

\* A token that is presented has been received; its user is the one it was
\* drawn for.
Arrive(r) ==
  /\ pc[r] = "new"
  /\ \E c \in Calls :
       /\ c.op \in Ops
       /\ c.op \in {"logout", "refresh"} => c.token \in Received({"login", "refresh"})
       /\ c.op = "reset" => c.token \in Received({"forgot"})
       /\ c.op \in {"logout", "refresh", "reset"} => c.user = call[c.token].user
       /\ call' = [call EXCEPT ![r] = c]
       /\ Goto(r, FirstStatement(c.op))
  /\ UNCHANGED <<tables, expired, revoking, claim, resets, verified>>

-----------------------------------------------------------------------------
(* login *)

\* The account is read and the password verified: 401 otherwise.  The tokens
\* are minted from what was read.
LoginSelect(r) ==
  LET u == call[r].user
      known == accounts[u] # "gone" /\ password[u] = call[r].password IN
  /\ pc[r] = "login_select" /\ ConnectionFree
  /\ \/ ~known /\ Respond(r, 401) /\ UNCHANGED <<claim, verified>>
     \/ /\ known
        /\ claim' = [claim EXCEPT ![r] = accounts[u]]
        /\ verified' = [verified EXCEPT ![r] = resets]
        /\ Goto(r, "login_insert")
  /\ UNCHANGED <<tables, expired, call, revoking, resets>>

\* A form of NewToken where refreshing gives the presented token out again.
NewTokenReused(r) ==
  [req |-> IF call[r].op = "refresh" THEN call[r].token ELSE r, user |-> call[r].user,
   revoked |-> FALSE]

NewToken(r) == [req |-> r, user |-> call[r].user, revoked |-> FALSE]

\* A form of InsertToken on a table without the foreign key.
InsertTokenUnowned(r) ==
  /\ refresh_tokens' = refresh_tokens \cup {NewToken(r)}
  /\ Respond(r, 200)

\* INSERT INTO refresh_tokens: 500 when the account is gone (foreign key).
InsertToken(r) ==
  \/ /\ accounts[call[r].user] # "gone"
     /\ refresh_tokens' = refresh_tokens \cup {NewToken(r)}
     /\ Respond(r, 200)
  \/ /\ accounts[call[r].user] = "gone"
     /\ Respond(r, 500)
     /\ UNCHANGED refresh_tokens

LoginInsert(r) ==
  /\ pc[r] = "login_insert" /\ ConnectionFree /\ ~Deleting(call[r].user)
  /\ InsertToken(r)
  /\ UNCHANGED <<accounts, password, password_resets, expired, locals, resets>>

-----------------------------------------------------------------------------
(* logout, refresh *)

\* 204 whether or not a row was there to be revoked.
Logout(r) ==
  /\ pc[r] = "logout_update" /\ ConnectionFree /\ ~TokenLocked(call[r].token)
  /\ refresh_tokens' = Revoke(refresh_tokens, {call[r].token})
  /\ Respond(r, 204)
  /\ UNCHANGED <<accounts, password, password_resets, expired, locals, resets>>

\* The JWT's expiry is checked on arrival and the row's here; both run out
\* together.
RefreshSelect(r) ==
  LET valid == \E t \in refresh_tokens : t.req = call[r].token /\ Valid(t) IN
  /\ pc[r] = "refresh_select" /\ ConnectionFree
  /\ \/ ~valid /\ Respond(r, 401) /\ UNCHANGED verified
     \/ /\ valid
        /\ verified' = [verified EXCEPT ![r] = resets]
        /\ Goto(r, "refresh_revoke")
  /\ UNCHANGED <<tables, expired, call, revoking, claim, resets>>

\* A form of RefreshRevoke that keeps the presented token.
RefreshRevokeNone(r) ==
  /\ pc[r] = "refresh_revoke" /\ ConnectionFree
  /\ Goto(r, "refresh_user")
  /\ UNCHANGED <<tables, expired, locals, resets>>

\* UPDATE ... WHERE id = $1: the callback does not look at what was updated.
RefreshRevoke(r) ==
  /\ pc[r] = "refresh_revoke" /\ ConnectionFree /\ ~TokenLocked(call[r].token)
  /\ refresh_tokens' = Revoke(refresh_tokens, {call[r].token})
  /\ Goto(r, "refresh_user")
  /\ UNCHANGED <<accounts, password, password_resets, expired, locals, resets>>

\* The account is read again; is_active is not, the new token states TRUE.
RefreshUser(r) ==
  LET u == call[r].user IN
  /\ pc[r] = "refresh_user" /\ ConnectionFree
  /\ \/ accounts[u] = "gone" /\ Respond(r, 401) /\ UNCHANGED claim
     \/ /\ accounts[u] # "gone"
        /\ claim' = [claim EXCEPT ![r] = "active"]
        /\ Goto(r, "refresh_insert")
  /\ UNCHANGED <<tables, expired, call, revoking, resets, verified>>

RefreshInsert(r) ==
  /\ pc[r] = "refresh_insert" /\ ConnectionFree /\ ~Deleting(call[r].user)
  /\ InsertToken(r)
  /\ UNCHANGED <<accounts, password, password_resets, expired, locals, resets>>

-----------------------------------------------------------------------------
(* forgot_password *)

\* The account and the number of recent requests in one query.  Fewer than
\* MaxRequests rows are recent, or all of them may be.
ForgotSelect(r) ==
  LET u == call[r].user
      earlier == {p \in password_resets : p.user = u} IN
  /\ pc[r] = "forgot_select" /\ ConnectionFree
  /\ \/ accounts[u] = "gone" /\ Respond(r, 200)
     \/ Cardinality(earlier) >= MaxRequests /\ Respond(r, 200)
     \/ accounts[u] # "gone" /\ Goto(r, "forgot_insert")
  /\ UNCHANGED <<tables, expired, locals, resets>>

\* The answer is the same when the account is gone by now (foreign key).
ForgotInsert(r) ==
  LET u == call[r].user
      row == [req |-> r, user |-> u, used |-> FALSE, attempts |-> 0] IN
  /\ pc[r] = "forgot_insert" /\ ConnectionFree /\ ~Deleting(u)
  /\ password_resets' = password_resets \cup {p \in {row} : accounts[u] # "gone"}
  /\ Respond(r, 200)
  /\ UNCHANGED <<accounts, password, refresh_tokens, expired, locals, resets>>

-----------------------------------------------------------------------------
(* reset_password *)

Begin(r) ==
  /\ pc[r] = "new_transaction" /\ ConnectionFree
  /\ Goto(r, "claim")
  /\ UNCHANGED <<tables, expired, locals, resets>>

\* A form of Claimable that does not ask whether the token is still unused.
ClaimableAgain(p) == p.req \notin expired /\ p.attempts < MaxAttempts

\* The WHERE clause of the claiming UPDATE.
Claimable(p) == ~p.used /\ p.req \notin expired /\ p.attempts < MaxAttempts

\* A form of Claim that returns without an answer when nothing was claimed.
ClaimSilent(r) ==
  LET t == call[r].token IN
  /\ pc[r] = "claim" /\ ~Claimed(t)
  /\ \E p \in password_resets : p.req = t /\ Claimable(p)
  /\ Goto(r, "update_password")
  /\ UNCHANGED <<tables, expired, locals, resets>>

\* A form of Claim that marks the token outside the transaction.
ClaimAtOnce(r) ==
  LET t == call[r].token IN
  /\ pc[r] = "claim"
  /\ \E p \in password_resets :
       /\ p.req = t /\ Claimable(p)
       /\ password_resets' = (password_resets \ {p}) \cup {[p EXCEPT !.used = TRUE]}
  /\ Goto(r, "update_password")
  /\ UNCHANGED <<accounts, password, refresh_tokens, expired, locals, resets>>

\* UPDATE password_resets SET used = TRUE ... RETURNING: at most one of the
\* requests that present a token gets the row.  Without a row the transaction
\* is rolled back, 400 is answered, and the attempt is counted later.
Claim(r) ==
  LET t == call[r].token
      hit == \E p \in password_resets : p.req = t /\ Claimable(p) IN
  /\ pc[r] = "claim" /\ ~Claimed(t)
  /\ \/ hit /\ Goto(r, "update_password")
     \/ /\ ~hit
        /\ pc' = [pc EXCEPT ![r] = "count_attempt"]
        /\ reply' = [reply EXCEPT ![r] = 400]
  /\ UNCHANGED <<tables, expired, locals, resets>>

\* A form of Counted that counts the attempt for all tokens of the user.
CountedForUser(p, r) == p.user = call[r].user

\* The rows whose attempt_count a failed attempt raises.
Counted(p, r) == p.req = call[r].token

\* attempt_count = attempt_count + 1, outside the transaction, after the answer.
CountAttempt(r) ==
  /\ pc[r] = "count_attempt" /\ ConnectionFree /\ ~Claimed(call[r].token)
  /\ password_resets' =
       {p \in password_resets : ~Counted(p, r)}
         \cup {[p EXCEPT !.attempts = @ + 1] : p \in {q \in password_resets : Counted(q, r)}}
  /\ pc' = [pc EXCEPT ![r] = "done"]
  /\ UNCHANGED <<accounts, password, refresh_tokens, expired, locals, reply, resets>>

UpdatePassword(r) ==
  /\ pc[r] = "update_password" /\ ~UserLocked(call[r].user)
  /\ Goto(r, "revoke_all")
  /\ UNCHANGED <<tables, expired, locals, resets>>

\* A form of RevokeAll that leaves out the tokens that were refreshed.
RevokeAllLogins(r) ==
  /\ pc[r] = "revoke_all"
  /\ revoking' = [revoking EXCEPT ![r] =
       {t.req : t \in {x \in refresh_tokens : /\ x.user = call[r].user
                                              /\ call[x.req].op = "login"}}]
  /\ Goto(r, "commit")
  /\ UNCHANGED <<tables, expired, call, claim, resets, verified>>

RevokeAll(r) ==
  /\ pc[r] = "revoke_all"
  /\ revoking' = [revoking EXCEPT ![r] =
                    {t.req : t \in {x \in refresh_tokens : x.user = call[r].user}}]
  /\ Goto(r, "commit")
  /\ UNCHANGED <<tables, expired, call, claim, resets, verified>>

\* The claimed token, the password and the revoked tokens become visible.
ApplyReset(r) ==
  /\ password' = [password EXCEPT ![call[r].user] = call[r].password]
  /\ password_resets' =
       {p \in password_resets : p.req # call[r].token}
         \cup {[p EXCEPT !.used = TRUE] :
                 p \in {q \in password_resets : q.req = call[r].token}}
  /\ refresh_tokens' = Revoke(refresh_tokens, revoking[r])
  /\ revoking' = [revoking EXCEPT ![r] = {}]
  /\ resets' = resets \cup {r}
  /\ UNCHANGED <<accounts, expired, call, claim, verified>>

Commit(r) ==
  /\ pc[r] = "commit"
  /\ ApplyReset(r)
  /\ Respond(r, 200)

\* The commit callback looks at its argument: FALSE is answered with 500.
CommitFails(r) ==
  /\ pc[r] = "commit"
  /\ revoking' = [revoking EXCEPT ![r] = {}]
  /\ Respond(r, 500)
  /\ UNCHANGED <<tables, expired, call, claim, resets, verified>>

\* COMMIT lands, but the connection breaks before the backend learns of it.
CommitUnnoticed(r) ==
  /\ pc[r] = "commit"
  /\ ApplyReset(r)
  /\ Respond(r, 500)

\* A statement raises DrogonDbException or hashing the password throws.
\* forgot_password gives its one answer all the same; a failed attempt that is
\* not counted has been answered.
StatementFails(r) ==
  /\ pc[r] \in (InTrans \cup Waiting) \ {"commit"}
  /\ revoking' = [revoking EXCEPT ![r] = {}]
  /\ \/ /\ pc[r] = "count_attempt"
        /\ pc' = [pc EXCEPT ![r] = "done"]
        /\ UNCHANGED reply
     \/ /\ pc[r] # "count_attempt"
        /\ Respond(r, IF call[r].op = "forgot" THEN 200 ELSE 500)
  /\ UNCHANGED <<tables, expired, call, claim, resets, verified>>

-----------------------------------------------------------------------------
(* update_me, and requests of a single statement *)

\* Nationality and region are checked first; the hash is already computed.
Preflight(r) ==
  /\ pc[r] = "preflight" /\ ConnectionFree
  /\ Goto(r, "statement")
  /\ UNCHANGED <<tables, expired, locals, resets>>

\* A new password through PATCH /me: refresh tokens are left alone.
UpdateMe(r) ==
  LET u == call[r].user IN
  /\ pc[r] = "statement" /\ call[r].op = "update" /\ ConnectionFree
  /\ \/ accounts[u] = "gone" /\ Respond(r, 404) /\ UNCHANGED password
     \/ /\ accounts[u] # "gone" /\ ~UserLocked(u)
        /\ password' = [password EXCEPT ![u] = call[r].password]
        /\ Respond(r, 200)
  /\ UNCHANGED <<accounts, refresh_tokens, password_resets, expired, locals, resets>>

SetActive(r) ==
  LET u == call[r].user IN
  /\ pc[r] = "statement" /\ call[r].op \in {"active", "inactive"} /\ ConnectionFree
  /\ \/ accounts[u] = "gone" /\ Respond(r, 404) /\ UNCHANGED accounts
     \/ /\ accounts[u] # "gone" /\ ~UserLocked(u)
        /\ accounts' = [accounts EXCEPT ![u] = call[r].op]
        /\ Respond(r, 200)
  /\ UNCHANGED <<password, refresh_tokens, password_resets, expired, locals, resets>>

\* The row of users is locked first.
DeleteUser(r) ==
  LET u == call[r].user IN
  /\ pc[r] = "statement" /\ call[r].op = "deleteUser" /\ ConnectionFree
  /\ \/ accounts[u] = "gone" /\ Respond(r, 404)
     \/ accounts[u] # "gone" /\ ~UserLocked(u) /\ Goto(r, "cascade")
  /\ UNCHANGED <<tables, expired, locals, resets>>

\* ON DELETE CASCADE, in the same statement: the rows of the tables that refer
\* to the account go with it, once no open reset holds one of them.
Cascade(r) ==
  LET u == call[r].user IN
  /\ pc[r] = "cascade"
  /\ \A p \in password_resets : p.user = u => ~Claimed(p.req)
  /\ accounts' = [accounts EXCEPT ![u] = "gone"]
  /\ refresh_tokens' = {t \in refresh_tokens : t.user # u}
  /\ password_resets' = {p \in password_resets : p.user # u}
  /\ Respond(r, 204)
  /\ UNCHANGED <<password, expired, locals, resets>>

\* A deletion waits for the row a reset has claimed, and the reset for the
\* account the deletion has locked.
WaitForEachOther(d, s) ==
  /\ pc[d] = "cascade" /\ pc[s] = "update_password"
  /\ call[d].user = call[s].user
  /\ \E p \in password_resets : p.user = call[d].user /\ p.req = call[s].token
InCircle(r) ==
  \E s \in Requests : WaitForEachOther(r, s) \/ WaitForEachOther(s, r)

-----------------------------------------------------------------------------
(* The environment *)

\* A token passes its expires_at.
Expire(t) ==
  /\ t \notin expired
  /\ \/ \E row \in refresh_tokens : row.req = t
     \/ \E row \in password_resets : row.req = t
  /\ expired' = expired \cup {t}
  /\ UNCHANGED <<tables, pc, locals, reply, resets>>

InFlight(r) == pc[r] \in InTrans \cup Waiting

Crash ==
  /\ \E r \in Requests : InFlight(r)
  /\ pc' = [r \in Requests |-> IF InFlight(r) THEN "lost" ELSE pc[r]]
  /\ revoking' = [r \in Requests |-> {}]
  /\ UNCHANGED <<tables, expired, call, claim, reply, resets, verified>>

\* Every request has been served; there are no others (bound: Requests).
Finished ==
  /\ \A r \in Requests : pc[r] \in Ended
  /\ UNCHANGED vars

Serve(r) ==
  \/ LoginSelect(r) \/ LoginInsert(r) \/ Logout(r)
  \/ RefreshSelect(r) \/ RefreshRevoke(r) \/ RefreshUser(r) \/ RefreshInsert(r)
  \/ ForgotSelect(r) \/ ForgotInsert(r)
  \/ Begin(r) \/ Claim(r) \/ CountAttempt(r) \/ UpdatePassword(r) \/ RevokeAll(r)
  \/ Commit(r)
  \/ Preflight(r) \/ UpdateMe(r) \/ SetActive(r) \/ DeleteUser(r) \/ Cascade(r)

Disturb(r) == CommitFails(r) \/ CommitUnnoticed(r) \/ StatementFails(r)

Next ==
  \/ \E r \in Requests : Arrive(r) \/ Serve(r) \/ Disturb(r) \/ Expire(r)
  \/ Crash
  \/ Finished

Spec == Init /\ [][Next]_vars

\* PostgreSQL's deadlock detector fails a statement that waits in a circle.
AbortDeadlock(r) == InCircle(r) /\ StatementFails(r)

\* As in Voting: statements and transactions wait in queues; and the database
\* does not leave two statements waiting for each other.
Fairness == \A r \in Requests : WF_vars(Serve(r)) /\ WF_vars(AbortDeadlock(r))
FairSpec == Spec /\ Fairness

-----------------------------------------------------------------------------
(* Safety *)

\* A reset token sets a password at most once, however many requests present it
\* at the same time and whichever of their transactions fail.
ResetOnce ==
  \A r, s \in resets : call[r].token = call[s].token => r = s

\* A token is marked used exactly when a reset with it has been committed: a
\* failed or interrupted reset leaves its token usable.
UsedMeansReset ==
  \A p \in password_resets : p.used <=> \E r \in resets : call[r].token = p.req

\* No token outlives its account, although the account may be deleted between a
\* handler's SELECT and its INSERT.
TokensHaveOwners ==
  \A t \in refresh_tokens \cup password_resets : accounts[t.user] # "gone"

\* Whoever holds a token obtained by refreshing has given up the one presented.
RotationRevokes ==
  \A t \in refresh_tokens :
     call[t.req].op = "refresh" =>
        \E old \in refresh_tokens :
           old.req = call[t.req].token /\ old.user = t.user /\ old.revoked

\* Failed attempts are only ever counted against tokens that are dead anyway:
\* attempt_count never stops a token that could still be redeemed.
BudgetUnspent ==
  \A p \in password_resets : p.attempts > 0 => p.used \/ p.req \in expired

\* A committed reset has revoked every refresh token of its user that is stored
\* at that moment (with the one connection of config.json).
ResetRevokesStored ==
  [][\A r \in resets' \ resets : \A t \in refresh_tokens' :
        t.user = call[r].user => t.revoked]_vars

\* Every request is answered, unless the process dies.
EveryRequestEnds ==
  \A r \in Requests : InFlight(r) ~> pc[r] \in Ended

\* What a request waits for: a connection, or the end of a reset or a deletion
\* that has locked the row its statement is about to write or refer to.
Blocked(r) ==
  LET u == call[r].user IN
  \/ pc[r] \in Waiting /\ ~ConnectionFree
  \/ pc[r] \in {"claim", "count_attempt"} /\ Claimed(call[r].token)
  \/ pc[r] = "update_password" /\ UserLocked(u)
  \/ pc[r] \in {"logout_update", "refresh_revoke"} /\ TokenLocked(call[r].token)
  \/ pc[r] \in {"login_insert", "refresh_insert", "forgot_insert"} /\ Deleting(u)
  \/ pc[r] = "statement" /\ accounts[u] # "gone" /\ UserLocked(u)
  \/ /\ pc[r] = "cascade"
     /\ \E p \in password_resets : p.user = u /\ Claimed(p.req)

\* Requests that hold row locks or the pool's connections wait in a circle in one
\* way only: a deletion and a reset of the same account, over two connections.
\* Otherwise, while any is served, one is not waiting for another.  With the one
\* connection of config.json there is no circle at all.
NoStandstill ==
  (\E r \in Requests : InFlight(r)) =>
     \E r \in Requests : /\ InFlight(r)
                         /\ ~Blocked(r) \/ (PoolSize = 2 /\ InCircle(r))

\* A session that has ended, by logout, refresh, reset or with its account, never
\* comes back, whatever statements other requests still send.
EndedStaysEnded ==
  [][\A s \in Received({"login", "refresh"}) :
        (\A t \in refresh_tokens : t.req = s => t.revoked)
          => \A t \in refresh_tokens' : t.req = s => t.revoked]_vars

Members == {u \in Users : accounts[u] # "gone"}
KeyOf(row) == [token |-> row.req, user |-> row.user]
LiveSessions == {KeyOf(t) : t \in {x \in refresh_tokens : ~x.revoked}}
Drawn == Received({"login", "refresh", "forgot"})
OpenLinks == {KeyOf(p) : p \in {x \in password_resets : ~x.used}}

\* Many statements of many requests, failures and crashes amount to the steps of
\* Credentials; above all, redeeming a link is one step (with the one connection
\* of config.json).
Promise == INSTANCE Credentials WITH
  Tokens <- Requests, members <- Members, sessions <- LiveSessions,
  links <- OpenLinks, drawn <- Drawn
ImplementsCredentials == Promise!Spec

-----------------------------------------------------------------------------
(* Statements of the documentation that the code does not keep *)

\* After a reset "all of the user's refresh tokens are revoked": a token that is
\* still good was obtained with credentials checked after the reset.
SessionsEndAtReset ==
  \A t \in refresh_tokens :
     Valid(t) => \A r \in resets : call[r].user = t.user => r \in verified[t.req]

\* is_active of a minted access token: "whether the user account is active".
ClaimReadsAccount ==
  [][\A r \in Requests :
        (claim'[r] = "active" /\ claim[r] = "none")
           => accounts[call[r].user] = "active"]_vars
=============================================================================
