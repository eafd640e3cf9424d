------------------------------ MODULE VotingInv ------------------------------
(***************************************************************************)
(* The inductive invariant behind the safety properties of Voting: what a  *)
(* request's program counter says about its call and its uncommitted rows, *)
(* and what uncommitted rows of different requests say about each other.   *)
(***************************************************************************)
EXTENDS Voting

\* A handler only runs the statements of its own operation.
HandlerOK ==
  \A r \in Requests :
    /\ pc[r] = "new" => call[r] = NoCall
    /\ pc[r] \in {"select_profile", "answer_status", "insert_question_user",
                  "insert_user_answers"} => call[r].op = "answer"
    /\ pc[r] \in {"delete_status", "delete_user_answers", "delete_question_user"}
         => call[r].op = "deleteAnswer"
    /\ pc[r] \in {"insert_question", "insert_options"} => call[r].op = "submit"
    /\ pc[r] \in {"new_transaction", "commit"}
         => call[r].op \in {"answer", "deleteAnswer", "submit"}
    /\ pc[r] # "done" => reply[r] = 0
    /\ record_consent[r] => call[r].op = "answer" /\ call[r].consent

\* What a transaction has written when its request is about to send a statement.
TransOK ==
  \A r \in Requests :
    /\ trans[r].track # {} =>
         /\ pc[r] \in {"insert_user_answers", "commit"} /\ call[r].op = "answer"
         /\ trans[r].track = {TrackingRow(r)}
    /\ trans[r].record # {} =>
         /\ pc[r] = "commit" /\ call[r].op = "answer"
         /\ trans[r].record = {AnswerRow(r)}
    /\ trans[r].erase # {} =>
         /\ pc[r] \in {"delete_question_user", "commit"} /\ call[r].op = "deleteAnswer"
         /\ \A a \in trans[r].erase : a.question = call[r].question
    /\ trans[r].untrack # {} =>
         /\ pc[r] = "commit" /\ call[r].op = "deleteAnswer"
         /\ \A t \in trans[r].untrack : SameVoter(t, call[r].user, call[r].question)
    /\ trans[r].questions # {} =>
         pc[r] \in {"insert_options", "commit"} /\ call[r].op = "submit"
    /\ trans[r].options # {} => pc[r] = "commit" /\ call[r].op = "submit"
    /\ pc[r] = "insert_user_answers" => trans[r].track = {TrackingRow(r)}
    /\ (pc[r] = "commit" /\ call[r].op = "answer") =>
         trans[r].track = {TrackingRow(r)} /\ trans[r].record = {AnswerRow(r)}
    /\ (pc[r] = "commit" /\ call[r].op = "submit") =>
         trans[r].options = UNION {OptionsOf[q] : q \in trans[r].questions}

\* A request records at most one answer.
OneRowPerRequest ==
  \A a, b \in user_answers : a.req = b.req => a = b

\* An uncommitted tracking row has no committed or uncommitted rival.
PendingUnique ==
  \A r \in Requests : \A t \in trans[r].track :
    /\ \A x \in question_user : ~SameVoter(x, t.user, t.question)
    /\ \A s \in Requests \ {r} : \A x \in trans[s].track :
          ~SameVoter(x, t.user, t.question)

\* A request that has passed the status check of answerQuestion.
PastCheck(r) == /\ call[r].op = "answer"
                /\ pc[r] \in {"new_transaction", "insert_question_user",
                              "insert_user_answers", "commit"}

\* A question that was seen approved never becomes pending again, and one whose
\* rows a transaction holds does not disappear.
CheckedReviewed ==
  /\ \A r \in Requests : PastCheck(r) =>
        status[call[r].question] \in {"absent", "approved", "rejected"}
  /\ \A r \in Requests : \A t \in trans[r].track :
        status[t.question] \in {"approved", "rejected"}

\* A drawn id belongs to one transaction, and nobody else knows it.
DrawnPrivate ==
  \A s \in Requests : \A q \in trans[s].questions :
    /\ status[q] = "absent"
    /\ \A r \in Requests : PastCheck(r) => call[r].question # q
    /\ \A r \in Requests \ {s} : q \notin trans[r].questions

\* The invariant for any size of the pool.
IInv == /\ TypeOK
        /\ HandlerOK
        /\ TransOK
        /\ ErrorsLeaveNoTrace
        /\ OneRowPerRequest
        /\ OneTrackingRow
        /\ PendingUnique
        /\ NoVoteBeforeReview
        /\ CheckedReviewed
        /\ DrawnPrivate
        /\ SubmissionsWhole
        /\ ConsentWasGiven

\* With the one connection of config.json, transactions exclude each other.
OneTransaction ==
  \A r, s \in Requests : pc[r] \in InTrans /\ pc[s] \in InTrans => r = s

\* What a withdrawal has collected is still everything there is to collect.
WithdrawalComplete ==
  \A r \in Requests :
    /\ (\/ pc[r] = "delete_question_user"
     \/ (pc[r] = "commit" /\ call[r].op = "deleteAnswer"))
         => RowsOf(user_answers, call[r].question) \subseteq trans[r].erase
    /\ (pc[r] = "commit" /\ call[r].op = "deleteAnswer") =>
         /\ trans[r].untrack # {}
         /\ trans[r].untrack =
              {t \in question_user : SameVoter(t, call[r].user, call[r].question)}

\* The invariant for one connection.
IInv1 == /\ IInv
         /\ OneTransaction
         /\ WithdrawalComplete
         /\ AnswersTracked
=============================================================================
