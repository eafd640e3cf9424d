---------------------------- MODULE Credentials ----------------------------
(***************************************************************************)
(* What signing in promises, without requests, statements or transactions: *)
(* a session or a reset link is handed out to an account that exists, and  *)
(* is new; redeeming a link is one step that uses up the link, sets the    *)
(* password and ends the sessions of its user, and nobody else's; an       *)
(* account that is deleted takes its sessions and links along.             *)
(*                                                                         *)
(* Module Sessions implements this specification (one database             *)
(* connection, as shipped): sessions is what the rows of refresh_tokens    *)
(* that are not revoked say, links the unused rows of password_resets.     *)
(* Whether a session or a link has expired is for its holder to find out.  *)
(***************************************************************************)
CONSTANTS Users, Passwords, Tokens

VARIABLES members,    \* the accounts there are
          password,   \* what each account signs in with
          sessions,   \* sessions that have not been ended
          links,      \* links that have not been redeemed
          drawn       \* the tokens handed out so far

Key == [token : Tokens, user : Users]

Init == /\ members = Users
        /\ password \in [Users -> Passwords]
        /\ sessions = {} /\ links = {} /\ drawn = {}

\* POST /login and the second half of /refresh
SignIn(k) == /\ k.user \in members /\ k.token \notin drawn
             /\ sessions' = sessions \cup {k}
             /\ drawn' = drawn \cup {k.token}
             /\ UNCHANGED <<members, password, links>>

\* POST /logout and the first half of /refresh
SignOut(t) == /\ sessions' = {k \in sessions : k.token # t}
              /\ UNCHANGED <<members, password, links, drawn>>

\* POST /forgot_password: the answer does not tell whether a link was sent.
SendLink(k) == /\ k.token \notin drawn
               /\ drawn' = drawn \cup {k.token}
               /\ \/ links' = links
                  \/ k.user \in members /\ links' = links \cup {k}
               /\ UNCHANGED <<members, password, sessions>>

\* POST /reset_password
Redeem(k, new) == /\ k \in links
                  /\ links' = links \ {k}
                  /\ password' = [password EXCEPT ![k.user] = new]
                  /\ sessions' = {s \in sessions : s.user # k.user}
                  /\ UNCHANGED <<members, drawn>>

\* PATCH /me
ChangePassword(u, new) == /\ u \in members
                          /\ password' = [password EXCEPT ![u] = new]
                          /\ UNCHANGED <<members, sessions, links, drawn>>

\* DELETE /users/me/delete
Leave(u) == /\ u \in members
            /\ members' = members \ {u}
            /\ sessions' = {s \in sessions : s.user # u}
            /\ links' = {l \in links : l.user # u}
            /\ UNCHANGED <<password, drawn>>

Next == \/ \E k \in Key : SignIn(k) \/ SendLink(k)
        \/ \E t \in Tokens : SignOut(t)
        \/ \E k \in Key, new \in Passwords : Redeem(k, new)
        \/ \E u \in Users, new \in Passwords : ChangePassword(u, new)
        \/ \E u \in Users : Leave(u)

Spec == Init /\ [][Next]_<<members, password, sessions, links, drawn>>
=============================================================================
