------------------------------ MODULE Ballots ------------------------------
(***************************************************************************)
(* What the voting part of the backend promises, without requests,         *)
(* statements or transactions: a user holds at most one vote per question, *)
(* a ballot is only ever recorded together with the mark that its voter    *)
(* has voted, a withdrawal takes the voter's mark and ballot away at once, *)
(* and a question that disappears takes its marks and ballots with it.     *)
(*                                                                         *)
(* Module Voting implements this specification (one database connection,   *)
(* as shipped): voted is what table question_user says, ballots is table   *)
(* user_answers.  So does Statistics, where a transaction is one step.     *)
(***************************************************************************)
CONSTANTS Users, Questions, Options, Requests

VARIABLES voted,    \* the (user, question) pairs that are used up
          ballots   \* the recorded votes

Ballot == [req : Requests, user : Users, question : Questions, option : Options]

TypeOK == /\ voted \subseteq Users \X Questions
          /\ ballots \subseteq Ballot

Init == voted = {} /\ ballots = {}

\* POST /questions/{id}/answer
Cast(b) == /\ <<b.user, b.question>> \notin voted
           /\ voted' = voted \cup {<<b.user, b.question>>}
           /\ ballots' = ballots \cup {b}

\* DELETE /questions/{id}/answer: the voter's own ballots go.  The code takes
\* other voters' ballots on the question along (see finding OthersKeepAnswers
\* in the README), so the promise kept is only that no ballot of another
\* question is touched.
Withdraw(u, q) ==
  /\ <<u, q>> \in voted
  /\ voted' = voted \ {<<u, q>>}
  /\ \E gone \in SUBSET {b \in ballots : b.question = q} :
       /\ {b \in ballots : b.question = q /\ b.user = u} \subseteq gone
       /\ ballots' = ballots \ gone

\* A question is deleted by an admin, or by the maintenance job.
Close(gone) == /\ voted' = {v \in voted : v[2] \notin gone}
               /\ ballots' = {b \in ballots : b.question \notin gone}

Next == \/ \E b \in Ballot : Cast(b)
        \/ \E u \in Users, q \in Questions : Withdraw(u, q)
        \/ \E gone \in SUBSET Questions : Close(gone)

Spec == Init /\ [][Next]_<<voted, ballots>>
=============================================================================
