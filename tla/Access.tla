------------------------------- MODULE Access -------------------------------
(***************************************************************************)
(* Who reaches a handler: the filters of src/src/filters/, the claims of   *)
(* the tokens JwtService mints, and the routes of the controllers.  No     *)
(* state: a request is let through by what its token states.               *)
(*                                                                         *)
(* Left out: signatures and expiry, which make a token "invalid"; routes   *)
(* that only answer OPTIONS; and tokens without a subject, which           *)
(* JwtAuthFilter would let through but JwtService never mints.             *)
(***************************************************************************)
EXTENDS Integers

CONSTANT Users   \* subjects of tokens

\* The Authorization header of a request; claims are those stated as TRUE, for
\* a missing claim counts as FALSE with both filters.
Credentials ==
  [bearer : {"missing", "invalid", "access", "refresh"}, sub : Users,
   claims : SUBSET {"is_active", "is_admin"}]

AccessToken(u, claims) == [bearer |-> "access", sub |-> u, claims |-> claims]

\* A refresh token states is_active whatever the account's state is.
RefreshToken(u) == [bearer |-> "refresh", sub |-> u, claims |-> {"is_active"}]

Minted == {AccessToken(u, c) : u \in Users, c \in SUBSET {"is_active", "is_admin"}}
            \cup {RefreshToken(u) : u \in Users}

\* verify_token: signature, algorithm, issuer and expiry, and no other claim:
\* the type of a token is not looked at.
Verified(cred) == cred.bearer \in {"access", "refresh"}

\* What a filter answers in the handler's place; 0 when the handler is reached.
JwtAuthFilter(cred) ==
  CASE ~Verified(cred) -> 401
    [] Verified(cred) /\ "is_active" \notin cred.claims -> 423
    [] OTHER -> 0

AdminAuthFilter(cred) ==
  CASE ~Verified(cred) -> 401
    [] Verified(cred) /\ "is_active" \notin cred.claims -> 423
    [] Verified(cred) /\ "is_active" \in cred.claims /\ "is_admin" \notin cred.claims -> 403
    [] OTHER -> 0

\* The filter a route of QuestionController.hpp names.
Open == {"options", "search"}
AdminOnly == {"submissions", "adminOptions"}

Refusal(op, cred) ==
  CASE op \in Open -> 0
    [] op \in AdminOnly -> AdminAuthFilter(cred)
    [] OTHER -> JwtAuthFilter(cred)
=============================================================================
