--------------------------- MODULE StatisticsInv ---------------------------
(***************************************************************************)
(* The inductive invariant behind the safety properties of Statistics.     *)
(***************************************************************************)
EXTENDS Statistics, AccountsInv

\* A visit only runs the statements of its own operation, and is told nothing
\* before its end.
VisitOK ==
  \A v \in Visits :
    /\ stage[v] = "new" => result[v] = Nothing
    /\ stage[v] = "select" => ask[v] \in Asks /\ result[v] = Nothing
    /\ stage[v] = "insert" => ask[v] \in Asks /\ ask[v].op = "answer"
    /\ result[v].votes # {} => ask[v] \in Asks /\ ask[v].op = "stats"

\* The history of a visit that answers reaches up to the present.
HeldOK ==
  \A v \in Visits : (Waits(v) /\ ask[v].op = "answer") =>
    /\ CodesOf(ask[v].id) \subseteq held[v]
    /\ year \in years[v]

\* Tags the voter had at some moment of the visit.
TrueTags(v, code, bucket) ==
  /\ code \in held[v]
  /\ \E y \in years[v] : bucket = bucketBirthYear(BirthYear[ask[v].id], BucketSize, y)

TagsOK ==
  \A v \in Visits : stage[v] = "insert" => TrueTags(v, tags[v].code, tags[v].bucket)

\* Answers come from visits that are over.
AnswersOK ==
  /\ \A a \in votes : /\ stage[a.visit] = "done"
                      /\ ask[a.visit] \in Asks /\ ask[a.visit].op = "answer"
  /\ \A v \in Visits : \A a \in result[v].votes :
       stage[a.visit] = "done" /\ ask[a.visit] \in Asks /\ ask[a.visit].op = "answer"

IInv ==
  /\ AccountsInvariant
  /\ TypeOK
  /\ VisitOK
  /\ HeldOK
  /\ TagsOK
  /\ AnswersOK
  /\ TagsWereTrue
  /\ SegmentsAreTrue
=============================================================================
