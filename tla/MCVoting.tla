------------------------------ MODULE MCVoting ------------------------------
(***************************************************************************)
(* Small instances of Voting for TLC: question q1 is seeded with options   *)
(* o1 and o2, question q2 is what a submission may draw, with option o3.   *)
(***************************************************************************)
EXTENDS VotingInv, TLC

CONSTANTS u1, u2, q1, q2, o1, o2, o3

MCOptionsOf == [q \in Questions |-> IF q = q1 THEN {o1, o2} \cap Options ELSE {o3}]

RequestSymmetry == Permutations(Requests)
RequestUserSymmetry == Permutations(Requests) \cup Permutations(Users)
=============================================================================
