---------------------------- MODULE MCStatistics ----------------------------
(***************************************************************************)
(* Small instances of Statistics, with the Accounts it composes, for TLC.  *)
(***************************************************************************)
EXTENDS StatisticsInv, TLC

CONSTANTS a1

\* The registered account is ninety-nine and about to change its age range, to one
\* that passes the largest age; the years the others state are not believed.
MCBirthYear == [i \in Ids |-> IF i = a1 THEN 1925 ELSE 1900]

\* No filter, and a nationality together with an age range.
MCFilters == {NoTags} \cup [code : Known, bucket : {<<50, 99>>}]

Symmetry == Permutations(Names) \cup Permutations(Emails) \cup Permutations(Visits)
              \cup Permutations(Requests)
=============================================================================
