---------------------------- MODULE SessionsInv ----------------------------
(***************************************************************************)
(* The inductive invariant behind the safety properties of Sessions: what  *)
(* a request's program counter says about its call, which request a row    *)
(* comes from, and what an open reset or a half-done refresh has secured.  *)
(***************************************************************************)
EXTENDS Sessions

ResetLabels == {"new_transaction", "claim", "update_password", "revoke_all",
                "commit", "count_attempt"}
RefreshLabels == {"refresh_select", "refresh_revoke", "refresh_user", "refresh_insert"}
ClaimLabels == {"update_password", "revoke_all", "commit"}

\* A handler only runs the statements of its own operation, and answers at the
\* end of it (a refused reset is answered before its attempt is counted).
HandlerOK ==
  \A r \in Requests :
    /\ pc[r] = "new" <=> call[r] = NoCall
    /\ pc[r] \in ResetLabels => call[r].op = "reset"
    /\ pc[r] \in RefreshLabels => call[r].op = "refresh"
    /\ pc[r] \in {"login_select", "login_insert"} => call[r].op = "login"
    /\ pc[r] \in {"forgot_select", "forgot_insert"} => call[r].op = "forgot"
    /\ pc[r] = "logout_update" => call[r].op = "logout"
    /\ pc[r] = "cascade" => call[r].op = "deleteUser"
    /\ reply[r] = 200 => pc[r] = "done"

\* A presented token belongs to a request that is over, and to its user.
TokenOK ==
  \A r \in Requests :
    call[r].op \in {"logout", "refresh", "reset"} =>
      /\ pc[call[r].token] = "done"
      /\ call[r].user = call[call[r].token].user
      /\ call[r].op = "reset" => call[call[r].token].op = "forgot"

\* A row has been written by the request it is named after.
RowsOK ==
  /\ \A t \in refresh_tokens : /\ call[t.req].op \in {"login", "refresh"}
                               /\ t.user = call[t.req].user
                               /\ pc[t.req] = "done"
  /\ \A p \in password_resets : /\ call[p.req].op = "forgot"
                                /\ p.user = call[p.req].user
                                /\ pc[p.req] = "done"
  /\ \A r \in resets : call[r].op = "reset" /\ pc[r] = "done"

\* An open reset has its token's row, unused, and no other reset has it.
ClaimOK ==
  /\ \A r \in Requests : pc[r] \in ClaimLabels =>
        \E p \in password_resets : p.req = call[r].token /\ ~p.used
  /\ \A r, s \in Requests :
        /\ pc[r] \in ClaimLabels /\ pc[s] \in ClaimLabels
        /\ call[r].token = call[s].token
        => r = s

\* A refresh in progress has its presented token's row, and has revoked it
\* before it looks at the account, unless the account is gone.
RefreshOK ==
  \A r \in Requests :
    (pc[r] \in {"refresh_revoke", "refresh_user", "refresh_insert"}
       /\ accounts[call[r].user] # "gone") =>
      \E old \in refresh_tokens :
        /\ old.req = call[r].token /\ old.user = call[r].user
        /\ pc[r] # "refresh_revoke" => old.revoked

\* An attempt that waits to be counted was refused for a reason that lasts.
AttemptOK ==
  \A r \in Requests : pc[r] = "count_attempt" =>
     \A p \in password_resets :
        p.req = call[r].token => p.used \/ p.req \in expired

\* Only a reset about to be committed has revoked tokens, all of its own user.
RevokesOwn ==
  \A r \in Requests : \A s \in revoking[r] :
     pc[r] = "commit" /\ pc[s] = "done" /\ call[s].user = call[r].user

\* The invariant for any size of the pool.
IInv == /\ TypeOK
        /\ HandlerOK
        /\ TokenOK
        /\ RowsOK
        /\ ClaimOK
        /\ RefreshOK
        /\ AttemptOK
        /\ RevokesOwn
        /\ UsedMeansReset
        /\ ResetOnce
        /\ TokensHaveOwners
        /\ RotationRevokes
        /\ BudgetUnspent

\* With the one connection of config.json nothing is stored while a reset is
\* open, so what it has revoked is all there is.
OneTransaction ==
  \A r, s \in Requests : pc[r] \in InTrans /\ pc[s] \in InTrans => r = s
RevokedAll ==
  \A r \in Requests : pc[r] = "commit" =>
     \A t \in refresh_tokens : t.user = call[r].user => t.req \in revoking[r]

IInv1 == IInv /\ OneTransaction /\ RevokedAll
=============================================================================
