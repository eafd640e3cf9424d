----------------------------- MODULE MCSessions -----------------------------
(***************************************************************************)
(* Small instances of Sessions for TLC.                                    *)
(***************************************************************************)
EXTENDS SessionsInv, TLC

Symmetry == Permutations(Requests) \cup Permutations(Passwords)
=============================================================================
