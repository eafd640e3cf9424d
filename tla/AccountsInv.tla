---------------------------- MODULE AccountsInv ----------------------------
(***************************************************************************)
(* The inductive invariant behind the safety properties of Accounts.       *)
(***************************************************************************)
EXTENDS Accounts

\* A handler only runs the statements of its own operation, and writes no code
\* that it has not found.
CallsOK ==
  \A r \in Requests :
    /\ pc[r] = "new" => reply[r] = 0 /\ \A m \in links : m.req # r
    /\ pc[r] \in {"register_select", "register_insert"} => call[r].op = "register"
    /\ pc[r] \in {"register_insert", "update_statement"} => KnownCode(call[r].code)
    /\ pc[r] \in {"update_select", "update_statement"} => call[r].op = "update"
    /\ pc[r] \in {"forgot_select", "forgot_insert"} => call[r].op = "forgot"
    /\ pc[r] = "statement" =>
         call[r].op \in {"me", "get_user_by_id", "list_users", "delete_user"}

\* The history of a request reaches up to the present.
PastOK == \A r \in Requests : InFlight(r) => Present \subseteq past[r]

\* The accounts found for an address have had it.
SubjectOK ==
  \A r \in Requests : pc[r] = "forgot_insert" =>
    \A i \in subject[r] : \E p \in past[r] : p[1] = i /\ p[3] = call[r].email

AccountsInvariant ==
  /\ AccountsTypeOK
  /\ CallsOK
  /\ PastOK
  /\ SubjectOK
  /\ NoTwins
  /\ ConflictWasReal
  /\ LinkForAddressee
=============================================================================
