---------------------------- MODULE VotingProofs ----------------------------
(***************************************************************************)
(* Theorems about Voting and their proofs.                                 *)
(***************************************************************************)
EXTENDS VotingInv, FiniteSetTheorems, TLAPS

\* Every step, one case per action: what the case analyses below start from.
LEMMA NextCases ==
  ASSUME Next
  PROVE  \/ \E r \in Requests : Arrive(r)
         \/ \E r \in Requests : AnswerProfile(r)
         \/ \E r \in Requests : AnswerStatus(r)
         \/ \E r \in Requests : Begin(r)
         \/ \E r \in Requests : InsertQuestionUser(r)
         \/ \E r \in Requests : InsertUserAnswers(r)
         \/ \E r \in Requests : DeleteStatus(r)
         \/ \E r \in Requests : DeleteUserAnswers(r)
         \/ \E r \in Requests : DeleteQuestionUser(r)
         \/ \E r \in Requests : InsertQuestion(r)
         \/ \E r \in Requests : InsertOptions(r)
         \/ \E r \in Requests : Commit(r)
         \/ \E r \in Requests : CommitFails(r)
         \/ \E r \in Requests : CommitUnacknowledged(r)
         \/ \E r \in Requests : StatementFails(r)
         \/ \E r \in Requests : Approve(r)
         \/ \E r \in Requests : Reject(r)
         \/ \E r \in Requests : DeleteQuestion(r)
         \/ \E r \in Requests : DeleteUser(r)
         \/ Purge
         \/ Crash
         \/ UNCHANGED vars
  BY DEF Next, Serve, Disturb, Finished

\* What a request of each operation carries.
LEMMA CallFields ==
  ASSUME NEW c \in Calls \cup {NoCall}
  PROVE  /\ c.op \in Operations \cup {"none"}
         /\ c.op \in Operations => c.user \in Users
         /\ c.op \in {"answer", "deleteAnswer", "approve", "reject", "deleteQuestion"}
              => c.question \in Questions
         /\ c.op = "answer" => c.option \in Options /\ c.consent \in BOOLEAN
         /\ c.op = "approve" => c.special \in BOOLEAN
  BY DEF Calls, NoCall, Operations

LEMMA NoTransType == NoTrans \in Transactions
  BY DEF NoTrans, Transactions

\* Writing one component of a transaction, or giving it up, leaves transactions.
LEMMA WriteTypes ==
  ASSUME TypeOK, NEW r \in Requests, NEW x,
         \/ x \in SUBSET Questions /\ trans' = [trans EXCEPT ![r].questions = x]
         \/ x \in SUBSET Options /\ trans' = [trans EXCEPT ![r].options = x]
         \/ x \in SUBSET Tracking /\ trans' = [trans EXCEPT ![r].track = x]
         \/ x \in SUBSET Tracking /\ trans' = [trans EXCEPT ![r].untrack = x]
         \/ x \in SUBSET Answer /\ trans' = [trans EXCEPT ![r].record = x]
         \/ x \in SUBSET Answer /\ trans' = [trans EXCEPT ![r].erase = x]
         \/ trans' = [trans EXCEPT ![r] = NoTrans]
  PROVE  trans' \in [Requests -> Transactions]
<1>0. trans \in [Requests -> Transactions] /\ trans[r] \in Transactions
  BY DEF TypeOK
<1>1. CASE x \in SUBSET Questions /\ trans' = [trans EXCEPT ![r].questions = x]
  <2>1. [trans[r] EXCEPT !.questions = x] \in Transactions
    BY <1>0, <1>1 DEF Transactions
  <2>. QED
    BY <1>0, <1>1, <2>1
<1>2. CASE x \in SUBSET Options /\ trans' = [trans EXCEPT ![r].options = x]
  <2>1. [trans[r] EXCEPT !.options = x] \in Transactions
    BY <1>0, <1>2 DEF Transactions
  <2>. QED
    BY <1>0, <1>2, <2>1
<1>3. CASE x \in SUBSET Tracking /\ trans' = [trans EXCEPT ![r].track = x]
  <2>1. [trans[r] EXCEPT !.track = x] \in Transactions
    BY <1>0, <1>3 DEF Transactions
  <2>. QED
    BY <1>0, <1>3, <2>1
<1>4. CASE x \in SUBSET Tracking /\ trans' = [trans EXCEPT ![r].untrack = x]
  <2>1. [trans[r] EXCEPT !.untrack = x] \in Transactions
    BY <1>0, <1>4 DEF Transactions
  <2>. QED
    BY <1>0, <1>4, <2>1
<1>5. CASE x \in SUBSET Answer /\ trans' = [trans EXCEPT ![r].record = x]
  <2>1. [trans[r] EXCEPT !.record = x] \in Transactions
    BY <1>0, <1>5 DEF Transactions
  <2>. QED
    BY <1>0, <1>5, <2>1
<1>6. CASE x \in SUBSET Answer /\ trans' = [trans EXCEPT ![r].erase = x]
  <2>1. [trans[r] EXCEPT !.erase = x] \in Transactions
    BY <1>0, <1>6 DEF Transactions
  <2>. QED
    BY <1>0, <1>6, <2>1
<1>7. CASE trans' = [trans EXCEPT ![r] = NoTrans]
  BY <1>0, <1>7, NoTransType
<1>. QED
  BY <1>1, <1>2, <1>3, <1>4, <1>5, <1>6, <1>7

\* The tables hold rows of the right kind, and a handler only runs the
\* statements of its own operation.
Typed == TypeOK /\ HandlerOK

LEMMA TypedInit == Init => Typed
  BY VotingAssumption, NoTransType
  DEF Init, Typed, TypeOK, HandlerOK, Statuses, Codes, NoCall

LEMMA RowTypes ==
  ASSUME Typed, NEW r \in Requests,
         pc[r] \in {"insert_question_user", "insert_user_answers"}
  PROVE  TrackingRow(r) \in Tracking /\ AnswerRow(r) \in Answer
<1>1. call[r] \in Calls \cup {NoCall} /\ call[r].op = "answer"
  BY DEF Typed, TypeOK, HandlerOK
<1>2. /\ call[r].user \in Users /\ call[r].question \in Questions
      /\ call[r].option \in Options /\ record_consent[r] \in BOOLEAN
  BY <1>1, CallFields DEF Operations, Typed, TypeOK
<1>. QED
  BY <1>2 DEF TrackingRow, AnswerRow, Tracking, Answer

\* The steps that write rows into an open transaction.
LEMMA WritesTyped ==
  ASSUME Typed, NEW r \in Requests,
         \/ InsertQuestionUser(r) \/ InsertUserAnswers(r)
         \/ DeleteUserAnswers(r) \/ DeleteQuestionUser(r)
         \/ InsertQuestion(r) \/ InsertOptions(r)
  PROVE  trans' \in [Requests -> Transactions]
<1>0. TypeOK
  BY DEF Typed
<1>1. CASE InsertQuestionUser(r)
  <2>1. {TrackingRow(r)} \in SUBSET Tracking
    BY <1>1, RowTypes DEF InsertQuestionUser
  <2>2. \/ trans' = [trans EXCEPT ![r] = NoTrans]
        \/ trans' = [trans EXCEPT ![r].track = {TrackingRow(r)}]
    BY <1>1 DEF InsertQuestionUser, Respond
  <2>. QED
    BY <1>0, <2>1, <2>2, WriteTypes
<1>2. CASE InsertUserAnswers(r)
  <2>1. {AnswerRow(r)} \in SUBSET Answer
    BY <1>2, RowTypes DEF InsertUserAnswers
  <2>2. \/ trans' = [trans EXCEPT ![r] = NoTrans]
        \/ trans' = [trans EXCEPT ![r].record = {AnswerRow(r)}]
    BY <1>2 DEF InsertUserAnswers, Respond
  <2>. QED
    BY <1>0, <2>1, <2>2, WriteTypes
<1>3. CASE DeleteUserAnswers(r)
  <2>1. RowsOf(user_answers, call[r].question) \in SUBSET Answer
    BY <1>0 DEF TypeOK, RowsOf
  <2>. QED
    BY <1>0, <1>3, <2>1, WriteTypes DEF DeleteUserAnswers
<1>4. CASE DeleteQuestionUser(r)
  <2> DEFINE mine == {t \in question_user :
                        SameVoter(t, call[r].user, call[r].question)}
  <2>1. mine \in SUBSET Tracking
    BY <1>0 DEF TypeOK
  <2>2. \/ trans' = [trans EXCEPT ![r] = NoTrans]
        \/ trans' = [trans EXCEPT ![r].untrack = mine]
    BY <1>4 DEF DeleteQuestionUser, Respond
  <2> HIDE DEF mine
  <2>. QED
    BY <1>0, <2>1, <2>2, WriteTypes
<1>5. CASE InsertQuestion(r)
  <2>1. PICK q \in Questions :
             \/ trans' = [trans EXCEPT ![r] = NoTrans]
             \/ trans' = [trans EXCEPT ![r].questions = {q}]
    BY <1>5 DEF InsertQuestion, Respond
  <2>2. {q} \in SUBSET Questions
    OBVIOUS
  <2>. QED
    BY <1>0, <2>1, <2>2, WriteTypes
<1>6. CASE InsertOptions(r)
  <2>1. UNION {OptionsOf[q] : q \in trans[r].questions} \in SUBSET Options
    BY <1>0, VotingAssumption DEF TypeOK, Transactions
  <2>. QED
    BY <1>0, <1>6, <2>1, WriteTypes DEF InsertOptions
<1>. QED
  BY <1>1, <1>2, <1>3, <1>4, <1>5, <1>6

LEMMA TypedNext == Typed /\ [Next]_vars => Typed'
<1> SUFFICES ASSUME Typed, [Next]_vars PROVE Typed'
  OBVIOUS
<1>W. \A r \in Requests :
        (\/ InsertQuestionUser(r) \/ InsertUserAnswers(r)
         \/ DeleteUserAnswers(r) \/ DeleteQuestionUser(r)
         \/ InsertQuestion(r) \/ InsertOptions(r))
          => trans' \in [Requests -> Transactions]
  BY WritesTyped
<1> USE VotingAssumption, NoTransType
    DEF Typed, TypeOK, HandlerOK, tables, Goto, Respond, InTrans, Waiting,
        Ended, Codes
<1>0. \A r \in Requests : call[r] \in Calls \cup {NoCall}
  OBVIOUS
<1>1. ASSUME NEW r \in Requests, Arrive(r) PROVE Typed'
  BY <1>1, CallFields DEF Arrive, FirstStatement, NoCall
<1>2. ASSUME NEW r \in Requests, AnswerProfile(r) PROVE Typed'
  BY <1>2 DEF AnswerProfile
<1>3. ASSUME NEW r \in Requests, AnswerStatus(r) PROVE Typed'
  <2>1. call[r].question \in Questions
    BY <1>3, <1>0, CallFields DEF AnswerStatus
  <2>. QED
    BY <1>3, <2>1 DEF AnswerStatus
<1>4. ASSUME NEW r \in Requests, Begin(r) PROVE Typed'
  BY <1>4 DEF Begin
<1>5. ASSUME NEW r \in Requests, InsertQuestionUser(r) PROVE Typed'
  <2>1. trans' \in [Requests -> Transactions]
    BY <1>5, <1>W
  <2>. QED
    BY <1>5, <2>1 DEF InsertQuestionUser
<1>6. ASSUME NEW r \in Requests, InsertUserAnswers(r) PROVE Typed'
  <2>1. trans' \in [Requests -> Transactions]
    BY <1>6, <1>W
  <2>. QED
    BY <1>6, <2>1 DEF InsertUserAnswers
<1>7. ASSUME NEW r \in Requests, DeleteStatus(r) PROVE Typed'
  BY <1>7 DEF DeleteStatus
<1>8. ASSUME NEW r \in Requests, DeleteUserAnswers(r) PROVE Typed'
  <2>1. trans' \in [Requests -> Transactions]
    BY <1>8, <1>W
  <2>. QED
    BY <1>8, <2>1 DEF DeleteUserAnswers
<1>9. ASSUME NEW r \in Requests, DeleteQuestionUser(r) PROVE Typed'
  <2>1. trans' \in [Requests -> Transactions]
    BY <1>9, <1>W
  <2>. QED
    BY <1>9, <2>1 DEF DeleteQuestionUser
<1>10. ASSUME NEW r \in Requests, InsertQuestion(r) PROVE Typed'
  <2>1. trans' \in [Requests -> Transactions]
    BY <1>10, <1>W
  <2>. QED
    BY <1>10, <2>1 DEF InsertQuestion, Statuses
<1>11. ASSUME NEW r \in Requests, InsertOptions(r) PROVE Typed'
  <2>1. trans' \in [Requests -> Transactions]
    BY <1>11, <1>W
  <2>. QED
    BY <1>11, <2>1 DEF InsertOptions
<1>12. ASSUME NEW r \in Requests, Commit(r) PROVE Typed'
  BY <1>12 DEF Commit, ApplyTrans, CommitCode, Transactions, Statuses
<1>13. ASSUME NEW r \in Requests, CommitFails(r) PROVE Typed'
  BY <1>13 DEF CommitFails, CommitCode
<1>14. ASSUME NEW r \in Requests, CommitUnacknowledged(r) PROVE Typed'
  BY <1>14 DEF CommitUnacknowledged, ApplyTrans, Transactions, Statuses
<1>15. ASSUME NEW r \in Requests, StatementFails(r) PROVE Typed'
  BY <1>15 DEF StatementFails
<1>16. ASSUME NEW r \in Requests, Approve(r) PROVE Typed'
  <2>1. call[r].special \in BOOLEAN
    BY <1>16, <1>0, CallFields DEF Approve
  <2>. QED
    BY <1>16, <2>1 DEF Approve, Statuses
<1>17. ASSUME NEW r \in Requests, Reject(r) PROVE Typed'
  BY <1>17 DEF Reject, Statuses
<1>18. ASSUME NEW r \in Requests, DeleteQuestion(r) PROVE Typed'
  BY <1>18 DEF DeleteQuestion, RemoveQuestions, Statuses
<1>19. ASSUME NEW r \in Requests, DeleteUser(r) PROVE Typed'
  BY <1>19 DEF DeleteUser
<1>20. ASSUME Purge PROVE Typed'
  BY <1>20 DEF Purge, RemoveQuestions, Statuses
<1>21. ASSUME Crash PROVE Typed'
  BY <1>21 DEF Crash, InFlight
<1>22. ASSUME UNCHANGED vars PROVE Typed'
  BY <1>22 DEF vars
<1>. QED
  BY <1>1, <1>2, <1>3, <1>4, <1>5, <1>6, <1>7, <1>8, <1>9, <1>10, <1>11,
     <1>12, <1>13, <1>14, <1>15, <1>16, <1>17, <1>18, <1>19, <1>20, <1>21,
     <1>22, NextCases

\* The tables hold rows of the right kind in every reachable state.
THEOREM TypeCorrect == Spec => []TypeOK
<1>1. Typed => TypeOK
  BY DEF Typed
<1>. QED
  BY <1>1, TypedInit, TypedNext, PTL DEF Spec

\* A transaction holds what its handler has written so far.
LEMMA TransNext ==
  ASSUME Typed, TransOK, [Next]_vars
  PROVE  TransOK'
<1> USE NoTransType DEF Typed, TypeOK, HandlerOK, TransOK, Transactions, tables, Goto, Respond, InTrans,
        Waiting, Ended, NoTrans, TrackingRow, AnswerRow
<1>1. ASSUME NEW r \in Requests, Arrive(r) PROVE TransOK'
  BY <1>1 DEF Arrive, FirstStatement, NoCall
<1>2. ASSUME NEW r \in Requests, AnswerProfile(r) PROVE TransOK'
  BY <1>2 DEF AnswerProfile
<1>3. ASSUME NEW r \in Requests, AnswerStatus(r) PROVE TransOK'
  BY <1>3 DEF AnswerStatus
<1>4. ASSUME NEW r \in Requests, Begin(r) PROVE TransOK'
  BY <1>4 DEF Begin
<1>5. ASSUME NEW r \in Requests, InsertQuestionUser(r) PROVE TransOK'
  <2>1. CASE /\ pc' = [pc EXCEPT ![r] = "insert_user_answers"]
             /\ trans' = [trans EXCEPT ![r].track = {TrackingRow(r)}]
    BY <1>5, <2>1 DEF InsertQuestionUser
  <2>2. CASE /\ pc' = [pc EXCEPT ![r] = "done"]
             /\ trans' = [trans EXCEPT ![r] = NoTrans]
    BY <1>5, <2>2 DEF InsertQuestionUser
  <2>. QED
    BY <1>5, <2>1, <2>2 DEF InsertQuestionUser
<1>6. ASSUME NEW r \in Requests, InsertUserAnswers(r) PROVE TransOK'
  <2>1. CASE /\ pc' = [pc EXCEPT ![r] = "commit"]
             /\ trans' = [trans EXCEPT ![r].record = {AnswerRow(r)}]
    BY <1>6, <2>1 DEF InsertUserAnswers
  <2>2. CASE /\ pc' = [pc EXCEPT ![r] = "done"]
             /\ trans' = [trans EXCEPT ![r] = NoTrans]
    BY <1>6, <2>2 DEF InsertUserAnswers
  <2>. QED
    BY <1>6, <2>1, <2>2 DEF InsertUserAnswers
<1>7. ASSUME NEW r \in Requests, DeleteStatus(r) PROVE TransOK'
  BY <1>7 DEF DeleteStatus
<1>8. ASSUME NEW r \in Requests, DeleteUserAnswers(r) PROVE TransOK'
  BY <1>8 DEF DeleteUserAnswers, RowsOf
<1>9. ASSUME NEW r \in Requests, DeleteQuestionUser(r) PROVE TransOK'
  <2>1. CASE /\ pc' = [pc EXCEPT ![r] = "commit"]
             /\ trans' = [trans EXCEPT ![r].untrack = {t \in question_user : SameVoter(t, call[r].user, call[r].question)}]
    BY <1>9, <2>1 DEF DeleteQuestionUser
  <2>2. CASE /\ pc' = [pc EXCEPT ![r] = "done"]
             /\ trans' = [trans EXCEPT ![r] = NoTrans]
    BY <1>9, <2>2 DEF DeleteQuestionUser
  <2>. QED
    BY <1>9, <2>1, <2>2 DEF DeleteQuestionUser
<1>10. ASSUME NEW r \in Requests, InsertQuestion(r) PROVE TransOK'
  <2>1. CASE \E q \in Questions :
             /\ pc' = [pc EXCEPT ![r] = "insert_options"]
             /\ trans' = [trans EXCEPT ![r].questions = {q}]
    BY <1>10, <2>1 DEF InsertQuestion
  <2>2. CASE /\ pc' = [pc EXCEPT ![r] = "done"]
             /\ trans' = [trans EXCEPT ![r] = NoTrans]
    BY <1>10, <2>2 DEF InsertQuestion
  <2>. QED
    BY <1>10, <2>1, <2>2 DEF InsertQuestion
<1>11. ASSUME NEW r \in Requests, InsertOptions(r) PROVE TransOK'
  BY <1>11 DEF InsertOptions
<1>12. ASSUME NEW r \in Requests, Commit(r) PROVE TransOK'
  BY <1>12 DEF Commit, ApplyTrans, CommitCode
<1>13. ASSUME NEW r \in Requests, CommitFails(r) PROVE TransOK'
  BY <1>13 DEF CommitFails, CommitCode
<1>14. ASSUME NEW r \in Requests, CommitUnacknowledged(r) PROVE TransOK'
  BY <1>14 DEF CommitUnacknowledged, ApplyTrans
<1>15. ASSUME NEW r \in Requests, StatementFails(r) PROVE TransOK'
  BY <1>15 DEF StatementFails
<1>16. ASSUME NEW r \in Requests, Approve(r) PROVE TransOK'
  <2>1. /\ pc' = [pc EXCEPT ![r] = "done"]
        /\ trans' = [trans EXCEPT ![r] = NoTrans]
        /\ UNCHANGED <<call, record_consent>>
        /\ \E code \in Codes : reply' = [reply EXCEPT ![r] = code]
    BY <1>16 DEF Approve, Codes
  <2>. QED
    BY <2>1
<1>17. ASSUME NEW r \in Requests, Reject(r) PROVE TransOK'
  <2>1. /\ pc' = [pc EXCEPT ![r] = "done"]
        /\ trans' = [trans EXCEPT ![r] = NoTrans]
        /\ UNCHANGED <<call, record_consent>>
        /\ \E code \in Codes : reply' = [reply EXCEPT ![r] = code]
    BY <1>17 DEF Reject, Codes
  <2>. QED
    BY <2>1
<1>18. ASSUME NEW r \in Requests, DeleteQuestion(r) PROVE TransOK'
  <2>1. /\ pc' = [pc EXCEPT ![r] = "done"]
        /\ trans' = [trans EXCEPT ![r] = NoTrans]
        /\ UNCHANGED <<call, record_consent>>
        /\ \E code \in Codes : reply' = [reply EXCEPT ![r] = code]
    BY <1>18 DEF DeleteQuestion, Codes
  <2>. QED
    BY <2>1
<1>19. ASSUME NEW r \in Requests, DeleteUser(r) PROVE TransOK'
  <2>1. /\ pc' = [pc EXCEPT ![r] = "done"]
        /\ trans' = [trans EXCEPT ![r] = NoTrans]
        /\ UNCHANGED <<call, record_consent>>
        /\ \E code \in Codes : reply' = [reply EXCEPT ![r] = code]
    BY <1>19 DEF DeleteUser, Codes
  <2>. QED
    BY <2>1
<1>20. CASE Purge
  BY <1>20 DEF Purge, RemoveQuestions
<1>21. CASE Crash
  BY <1>21 DEF Crash, InFlight
<1>22. CASE UNCHANGED vars
  BY <1>22 DEF vars
<1>. QED
  BY <1>1, <1>2, <1>3, <1>4, <1>5, <1>6, <1>7, <1>8, <1>9, <1>10, <1>11,
     <1>12, <1>13, <1>14, <1>15, <1>16, <1>17, <1>18, <1>19, <1>20, <1>21,
     <1>22, NextCases

\* Most steps write no tracking row, draw no id and pass no status check.
RowsShrink ==
  /\ question_user' \subseteq question_user
  /\ \A s \in Requests : /\ trans'[s].track \subseteq trans[s].track
                         /\ trans'[s].questions \subseteq trans[s].questions
CheckKept ==
  \A s \in Requests :
     PastCheck(s)' => PastCheck(s) /\ call'[s].question = call[s].question

LEMMA RowsShrinkSteps ==
  ASSUME Typed,
         \/ \E r \in Requests :
              \/ Arrive(r) \/ AnswerProfile(r) \/ AnswerStatus(r) \/ Begin(r)
              \/ InsertUserAnswers(r) \/ DeleteStatus(r) \/ DeleteUserAnswers(r)
              \/ DeleteQuestionUser(r) \/ InsertOptions(r) \/ CommitFails(r)
              \/ StatementFails(r) \/ Approve(r) \/ Reject(r) \/ DeleteQuestion(r)
              \/ DeleteUser(r)
         \/ Purge \/ Crash \/ UNCHANGED vars
  PROVE  RowsShrink
<1>0. /\ \A s \in Requests : trans[s] \in Transactions
      /\ trans \in [Requests -> Transactions]
  BY DEF Typed, TypeOK
<1> USE <1>0 DEF RowsShrink, tables, Goto, Respond, NoTrans, Transactions
<1>1. ASSUME NEW r \in Requests, Arrive(r) \/ AnswerProfile(r) \/ AnswerStatus(r) \/ Begin(r)
      PROVE  RowsShrink
  BY <1>1 DEF Arrive, AnswerProfile, AnswerStatus, Begin
<1>2. ASSUME NEW r \in Requests, InsertUserAnswers(r)
      PROVE  RowsShrink
  BY <1>2 DEF InsertUserAnswers
<1>3. ASSUME NEW r \in Requests, DeleteStatus(r) \/ CommitFails(r) \/ StatementFails(r)
      PROVE  RowsShrink
  BY <1>3 DEF DeleteStatus, CommitFails, StatementFails
<1>4. ASSUME NEW r \in Requests, DeleteUserAnswers(r) 
      PROVE  RowsShrink
  BY <1>4 DEF DeleteUserAnswers
<1>5. ASSUME NEW r \in Requests, DeleteQuestionUser(r)
      PROVE  RowsShrink
  BY <1>5 DEF DeleteQuestionUser
<1>6. ASSUME NEW r \in Requests, InsertOptions(r)
      PROVE  RowsShrink
  BY <1>6 DEF InsertOptions
<1>7. ASSUME NEW r \in Requests, Approve(r) \/ Reject(r) \/ DeleteUser(r)
      PROVE  RowsShrink
  BY <1>7 DEF Approve, Reject, DeleteUser
<1>8. ASSUME NEW r \in Requests, DeleteQuestion(r)
      PROVE  RowsShrink
  BY <1>8 DEF DeleteQuestion, RemoveQuestions
<1>9. CASE Purge \/ Crash \/ UNCHANGED vars
  BY <1>9 DEF Purge, RemoveQuestions, Crash, vars
<1>. QED
  BY <1>1, <1>2, <1>3, <1>4, <1>5, <1>6, <1>7, <1>8, <1>9

LEMMA CheckKeptSteps ==
  ASSUME Typed,
         \/ \E r \in Requests :
              \/ Arrive(r) \/ AnswerProfile(r) \/ Begin(r) \/ InsertQuestionUser(r)
              \/ InsertUserAnswers(r) \/ DeleteStatus(r) \/ DeleteUserAnswers(r)
              \/ DeleteQuestionUser(r) \/ InsertQuestion(r) \/ InsertOptions(r)
              \/ Commit(r) \/ CommitFails(r) \/ CommitUnacknowledged(r)
              \/ StatementFails(r) \/ Approve(r) \/ Reject(r) \/ DeleteQuestion(r)
              \/ DeleteUser(r)
         \/ Purge \/ Crash \/ UNCHANGED vars
  PROVE  CheckKept
<1> USE DEF Typed, TypeOK, HandlerOK, CheckKept, PastCheck, tables, Goto, Respond
<1>1. ASSUME NEW r \in Requests, Arrive(r)
      PROVE  CheckKept
  BY <1>1 DEF Arrive, FirstStatement
<1>2. ASSUME NEW r \in Requests, AnswerProfile(r)
      PROVE  CheckKept
  BY <1>2 DEF AnswerProfile
<1>3. ASSUME NEW r \in Requests, Begin(r)
      PROVE  CheckKept
  BY <1>3 DEF Begin
<1>4. ASSUME NEW r \in Requests, InsertQuestionUser(r) 
      PROVE  CheckKept
  BY <1>4 DEF InsertQuestionUser
<1>5. ASSUME NEW r \in Requests, InsertUserAnswers(r)
      PROVE  CheckKept
  BY <1>5 DEF InsertUserAnswers
<1>6. ASSUME NEW r \in Requests, DeleteStatus(r) \/ DeleteUserAnswers(r)
      PROVE  CheckKept
  BY <1>6 DEF DeleteStatus, DeleteUserAnswers
<1>7. ASSUME NEW r \in Requests, DeleteQuestionUser(r)
      PROVE  CheckKept
  BY <1>7 DEF DeleteQuestionUser
<1>8. ASSUME NEW r \in Requests, InsertQuestion(r) \/ InsertOptions(r)
      PROVE  CheckKept
  BY <1>8 DEF InsertQuestion, InsertOptions
<1>9. ASSUME NEW r \in Requests, Commit(r) \/ CommitFails(r) \/ CommitUnacknowledged(r)
      PROVE  CheckKept
  BY <1>9 DEF Commit, CommitFails, CommitUnacknowledged, ApplyTrans
<1>10. ASSUME NEW r \in Requests, StatementFails(r) \/ DeleteUser(r) \/ DeleteQuestion(r)
      PROVE  CheckKept
  BY <1>10 DEF StatementFails, DeleteUser, DeleteQuestion
<1>11. ASSUME NEW r \in Requests, Approve(r) \/ Reject(r)
      PROVE  CheckKept
  BY <1>11 DEF Approve, Reject
<1>12. CASE Purge \/ Crash \/ UNCHANGED vars
  BY <1>12 DEF Purge, Crash, InFlight, vars
<1>. QED
  BY <1>1, <1>2, <1>3, <1>4, <1>5, <1>6, <1>7, <1>8, <1>9, <1>10, <1>11, <1>12

UniqInv == OneTrackingRow /\ PendingUnique

LEMMA UniqNext ==
  ASSUME Typed, TransOK, UniqInv, [Next]_vars
  PROVE  UniqInv'
<1>1. CASE RowsShrink
  BY <1>1 DEF UniqInv, RowsShrink, OneTrackingRow, PendingUnique
<1>2. ASSUME NEW r \in Requests, InsertQuestionUser(r)
      PROVE  UniqInv'
  <2> USE DEF Typed, TypeOK, HandlerOK, TransOK, UniqInv, OneTrackingRow,
              PendingUnique, SameVoter, VoterLocked, tables, NoTrans,
              Transactions, Tracking
  <2>1. CASE trans' = [trans EXCEPT ![r] = NoTrans]
    BY <1>2, <2>1 DEF InsertQuestionUser
  <2>2. CASE /\ ~\E t \in question_user : SameVoter(t, call[r].user, call[r].question)
             /\ trans' = [trans EXCEPT ![r].track = {TrackingRow(r)}]
    BY <1>2, <2>2 DEF InsertQuestionUser, TrackingRow
  <2>. QED
    BY <1>2, <2>1, <2>2 DEF InsertQuestionUser, Respond
<1>3. ASSUME NEW r \in Requests, InsertQuestion(r)
      PROVE  UniqInv'
  <2>1. \A s \in Requests : trans'[s].track \subseteq trans[s].track
    BY <1>3 DEF InsertQuestion, Respond, NoTrans, Typed, TypeOK, Transactions
  <2>2. question_user' = question_user
    BY <1>3 DEF InsertQuestion
  <2>. QED
    BY <2>1, <2>2 DEF UniqInv, OneTrackingRow, PendingUnique
<1>4. ASSUME NEW r \in Requests, Commit(r) \/ CommitUnacknowledged(r)
      PROVE  UniqInv'
  <2>1. /\ question_user' = (question_user \ trans[r].untrack) \cup trans[r].track
        /\ trans' = [trans EXCEPT ![r] = NoTrans]
        /\ pc[r] = "commit"
    BY <1>4 DEF Commit, CommitUnacknowledged, ApplyTrans, Respond
  <2>2. \A s, t \in trans[r].track : s = t
    BY DEF TransOK
  <2>. QED
    BY <2>1, <2>2 DEF UniqInv, OneTrackingRow, PendingUnique, SameVoter, NoTrans, Typed, TypeOK
<1>. QED
  BY <1>1, <1>2, <1>3, <1>4, NextCases, RowsShrinkSteps

LEMMA StatusKeptSteps ==
  ASSUME Typed, NEW r \in Requests,
         \/ Arrive(r) \/ AnswerProfile(r) \/ AnswerStatus(r) \/ Begin(r)
         \/ InsertQuestionUser(r) \/ InsertUserAnswers(r) \/ DeleteStatus(r)
         \/ DeleteUserAnswers(r) \/ DeleteQuestionUser(r) \/ InsertOptions(r)
         \/ CommitFails(r) \/ StatementFails(r) \/ DeleteUser(r)
  PROVE  status' = status
  BY DEF Arrive, AnswerProfile, AnswerStatus, Begin, InsertQuestionUser,
         InsertUserAnswers, DeleteStatus, DeleteUserAnswers, DeleteQuestionUser,
         InsertOptions, CommitFails, StatementFails, DeleteUser, tables

\* A removal spares the questions a transaction refers to.
Removal(gone) ==
  /\ \A q \in gone : ~QuestionLocked(q) /\ Exists(q)
  /\ status' = [q \in Questions |-> IF q \in gone THEN "absent" ELSE status[q]]
  /\ answer_options' = answer_options \ UNION {OptionsOf[q] : q \in gone}
  /\ question_user' = {t \in question_user : t.question \notin gone}
  /\ user_answers' = {a \in user_answers : a.question \notin gone}

LEMMA RemovalUnlocked ==
  ASSUME Typed, Purge \/ \E r \in Requests : DeleteQuestion(r)
  PROVE  \E gone \in SUBSET Questions : Removal(gone)
<1>1. CASE Purge
  BY <1>1 DEF Purge, RemoveQuestions, Exists, Removal
<1>2. ASSUME NEW r \in Requests, DeleteQuestion(r), Exists(call[r].question)
      PROVE  \E gone \in SUBSET Questions : Removal(gone)
  <2>1. call[r].question \in Questions
    BY <1>2, CallFields DEF DeleteQuestion, Typed, TypeOK
  <2>2. {call[r].question} \in SUBSET Questions
    BY <2>1
  <2>3. Removal({call[r].question})
    BY <1>2, <2>1 DEF DeleteQuestion, RemoveQuestions, Removal
  <2>. QED
    BY <2>2, <2>3
<1>3. ASSUME NEW r \in Requests, DeleteQuestion(r), ~Exists(call[r].question)
      PROVE  \E gone \in SUBSET Questions : Removal(gone)
  <2>1. UNCHANGED tables
    BY <1>3 DEF DeleteQuestion
  <2>2. WITNESS {} \in SUBSET Questions
  <2>. QED
    BY <2>1 DEF tables, Typed, TypeOK, Removal
<1>. QED
  BY <1>1, <1>2, <1>3

RevInv == NoVoteBeforeReview /\ CheckedReviewed /\ DrawnPrivate

LEMMA RevNext ==
  ASSUME Typed, TransOK, RevInv, [Next]_vars
  PROVE  RevInv'
<1>1. CASE RowsShrink /\ CheckKept /\ status' = status
  BY <1>1 DEF RevInv, RowsShrink, CheckKept, NoVoteBeforeReview,
              CheckedReviewed, DrawnPrivate
<1>2. ASSUME NEW r \in Requests, AnswerStatus(r)
      PROVE  RevInv'
  <2>1. RowsShrink /\ status' = status
    BY <1>2, RowsShrinkSteps, StatusKeptSteps
  <2>2. \A s \in Requests : PastCheck(s)' =>
          /\ call'[s] = call[s]
          /\ PastCheck(s) \/ status[call[s].question] = "approved"
    BY <1>2 DEF AnswerStatus, PastCheck, Goto, Respond, Typed, TypeOK
  <2>. QED
    BY <2>1, <2>2 DEF RevInv, RowsShrink, NoVoteBeforeReview, CheckedReviewed,
                      DrawnPrivate
<1>3. ASSUME NEW r \in Requests, InsertQuestionUser(r)
      PROVE  RevInv'
  <2>1. CheckKept /\ status' = status /\ question_user' = question_user
    BY <1>3, CheckKeptSteps, StatusKeptSteps DEF InsertQuestionUser, tables
  <2>2. \A s \in Requests : trans'[s].questions \subseteq trans[s].questions
    BY <1>3 DEF InsertQuestionUser, Respond, NoTrans, Typed, TypeOK, Transactions
  <2>3. \A s \in Requests : \A t \in trans'[s].track :
          status[t.question] \in {"approved", "rejected"}
    <3>1. CASE RowsShrink
      BY <3>1 DEF RowsShrink, RevInv, CheckedReviewed
    <3>2. CASE /\ Exists(call[r].question)
               /\ trans' = [trans EXCEPT ![r].track = {TrackingRow(r)}]
      <4>1. PastCheck(r)
        BY <1>3 DEF InsertQuestionUser, PastCheck, Typed, HandlerOK
      <4>2. status[call[r].question] \in {"approved", "rejected"}
        BY <3>2, <4>1 DEF RevInv, CheckedReviewed, Exists
      <4>. QED
        BY <3>2, <4>2 DEF RevInv, CheckedReviewed, TrackingRow, Typed, TypeOK,
                          Transactions
    <3>3. CASE trans' = [trans EXCEPT ![r] = NoTrans]
      BY <3>3 DEF RevInv, CheckedReviewed, NoTrans, Typed, TypeOK
    <3>. QED
      BY <1>3, <3>2, <3>3 DEF InsertQuestionUser, Respond
  <2>. QED
    BY <2>1, <2>2, <2>3 DEF RevInv, CheckKept, NoVoteBeforeReview,
                            CheckedReviewed, DrawnPrivate
<1>4. ASSUME NEW r \in Requests, InsertQuestion(r)
      PROVE  RevInv'
  <2>1. CheckKept /\ question_user' = question_user
    BY <1>4, CheckKeptSteps DEF InsertQuestion
  <2>2. PICK q \in Questions :
             /\ status[q] = "undrawn"
             /\ status' = [status EXCEPT ![q] = "absent"]
             /\ \/ trans' = [trans EXCEPT ![r] = NoTrans]
                \/ trans' = [trans EXCEPT ![r].questions = {q}]
    BY <1>4 DEF InsertQuestion, Respond
  <2>3. \A s \in Requests :
          /\ trans'[s].track \subseteq trans[s].track
          /\ trans'[s].questions \subseteq trans[s].questions
               \cup (IF s = r THEN {q} ELSE {})
    BY <2>2 DEF NoTrans, Typed, TypeOK, Transactions
  <2>4. \A p \in Questions : status[p] # "undrawn" => status'[p] = status[p]
    BY <2>2 DEF Typed, TypeOK
  <2>5. \A s \in Requests : q \notin trans[s].questions
    BY <2>2 DEF RevInv, DrawnPrivate
  <2>6. \A s \in Requests : PastCheck(s) => call[s].question # q
    BY <2>2 DEF RevInv, CheckedReviewed
  <2>7. status'[q] = "absent"
    BY <2>2 DEF Typed, TypeOK
  <2>8. NoVoteBeforeReview'
    BY <2>1, <2>4 DEF RevInv, NoVoteBeforeReview, Typed, TypeOK, Tracking
  <2>9. CheckedReviewed'
    <3>1. \A s \in Requests : PastCheck(s) => call[s].question \in Questions
      BY CallFields DEF PastCheck, Typed, TypeOK
    <3>2. \A s \in Requests : \A t \in trans[s].track : t.question \in Questions
      BY DEF Typed, TypeOK, Transactions, Tracking
    <3>. QED
      BY <2>1, <2>3, <2>4, <3>1, <3>2 DEF RevInv, CheckKept, CheckedReviewed
  <2>10. DrawnPrivate'
    <3>1. \A s \in Requests : trans[s].questions \subseteq Questions
      BY DEF Typed, TypeOK, Transactions
    <3>. QED
      BY <2>1, <2>3, <2>4, <2>5, <2>6, <2>7, <3>1 DEF RevInv, CheckKept, DrawnPrivate
  <2>. QED
    BY <2>8, <2>9, <2>10 DEF RevInv
<1>5. ASSUME NEW r \in Requests, Commit(r) \/ CommitUnacknowledged(r)
      PROVE  RevInv'
  <2>1. CheckKept
    BY <1>5, CheckKeptSteps
  <2>2. /\ trans' = [trans EXCEPT ![r] = NoTrans]
        /\ question_user' = (question_user \ trans[r].untrack) \cup trans[r].track
        /\ status' = [q \in Questions |->
              IF q \in trans[r].questions THEN "pending" ELSE status[q]]
    BY <1>5 DEF Commit, CommitUnacknowledged, ApplyTrans, Respond
  <2>3. \A s \in Requests : /\ trans'[s].track \subseteq trans[s].track
                            /\ trans'[s].questions \subseteq trans[s].questions
                            /\ s = r => trans'[s].questions = {}
    BY <2>2 DEF NoTrans, Typed, TypeOK, Transactions
  <2>4. \A t \in question_user' : /\ t.question \in Questions
                                  /\ status[t.question] \in {"approved", "rejected"}
    BY <2>2 DEF RevInv, NoVoteBeforeReview, CheckedReviewed, Typed, TypeOK,
                Transactions, Tracking
  <2>5. \A q \in Questions : status[q] # "absent" => status'[q] = status[q]
    BY <2>2 DEF RevInv, DrawnPrivate
  <2>6. NoVoteBeforeReview'
    BY <2>4, <2>5 DEF NoVoteBeforeReview
  <2>7. \A s \in Requests : PastCheck(s) =>
          /\ call[s].question \in Questions
          /\ status'[call[s].question] = status[call[s].question]
    <3>1. \A s \in Requests : PastCheck(s) => call[s].question \in Questions
      BY CallFields DEF PastCheck, Typed, TypeOK
    <3>. QED
      BY <2>2, <3>1 DEF RevInv, DrawnPrivate
  <2>8. \A s \in Requests : \A t \in trans[s].track : t.question \in Questions
    BY DEF Typed, TypeOK, Transactions, Tracking
  <2>9. CheckedReviewed'
    BY <2>1, <2>3, <2>5, <2>7, <2>8 DEF RevInv, CheckKept, CheckedReviewed
  <2>10. \A s \in Requests \ {r} : \A q \in trans[s].questions :
            q \in Questions /\ status'[q] = status[q]
    BY <2>2 DEF RevInv, DrawnPrivate, Typed, TypeOK, Transactions
  <2>11. DrawnPrivate'
    BY <2>1, <2>3, <2>10 DEF RevInv, CheckKept, DrawnPrivate
  <2>. QED
    BY <2>6, <2>9, <2>11 DEF RevInv
<1>6. ASSUME NEW r \in Requests, Approve(r) \/ Reject(r)
      PROVE  RevInv'
  <2>1. RowsShrink /\ CheckKept
    BY <1>6, RowsShrinkSteps, CheckKeptSteps
  <2>2. \A q \in Questions : status'[q] = status[q]
          \/ (status[q] # "absent" /\ status'[q] \in {"approved", "rejected"})
    BY <1>6 DEF Approve, Reject, Exists, Typed, TypeOK
  <2>3. /\ \A s \in Requests : PastCheck(s) => call[s].question \in Questions
        /\ \A s \in Requests : \A t \in trans[s].track : t.question \in Questions
        /\ \A s \in Requests : trans[s].questions \subseteq Questions
        /\ \A t \in question_user : t.question \in Questions
    BY CallFields DEF PastCheck, Typed, TypeOK, Transactions, Tracking
  <2>. QED
    BY <2>1, <2>2, <2>3 DEF RevInv, RowsShrink, CheckKept, NoVoteBeforeReview,
                            CheckedReviewed, DrawnPrivate
<1>7. CASE Purge \/ \E r \in Requests : DeleteQuestion(r)
  <2>1. RowsShrink /\ CheckKept
    BY <1>7, RowsShrinkSteps, CheckKeptSteps
  <2>2. PICK gone \in SUBSET Questions :
           /\ \A q \in gone : ~QuestionLocked(q) /\ Exists(q)
           /\ status' = [q \in Questions |-> IF q \in gone THEN "absent" ELSE status[q]]
           /\ question_user' = {t \in question_user : t.question \notin gone}
    BY <1>7, RemovalUnlocked DEF Removal
  <2>3. /\ \A s \in Requests : PastCheck(s) => call[s].question \in Questions
        /\ \A s \in Requests : \A t \in trans[s].track : t.question \in Questions
        /\ \A s \in Requests : trans[s].questions \subseteq Questions
        /\ \A t \in question_user : t.question \in Questions
    BY CallFields DEF PastCheck, Typed, TypeOK, Transactions, Tracking
  <2>4. \A s \in Requests : \A t \in trans[s].track : t.question \notin gone
    BY <2>2 DEF QuestionLocked, RowsOf
  <2>. QED
    BY <2>1, <2>2, <2>3, <2>4 DEF RevInv, RowsShrink, CheckKept,
         NoVoteBeforeReview, CheckedReviewed, DrawnPrivate
<1>8. CASE Crash \/ UNCHANGED vars
  <2>1. status' = status
    BY <1>8 DEF Crash, tables, vars
  <2>. QED
    BY <1>8, <2>1, <1>1, RowsShrinkSteps, CheckKeptSteps
<1>9. ASSUME NEW r \in Requests,
         \/ Arrive(r) \/ AnswerProfile(r) \/ Begin(r)
         \/ InsertUserAnswers(r) \/ DeleteStatus(r)
         \/ DeleteUserAnswers(r) \/ DeleteQuestionUser(r) \/ InsertOptions(r)
         \/ CommitFails(r) \/ StatementFails(r) \/ DeleteUser(r)
      PROVE  RevInv'
  BY <1>1, <1>9, RowsShrinkSteps, CheckKeptSteps, StatusKeptSteps
<1>. QED
  BY <1>2, <1>3, <1>4, <1>5, <1>6, <1>7, <1>8, <1>9, NextCases

\* What an ended request was answered, and what it asked for, stays.
EndedKept ==
  \A s \in Requests : pc[s] \in Ended =>
     pc'[s] = pc[s] /\ reply'[s] = reply[s] /\ call'[s] = call[s]

LEMMA EndedKeptNext ==
  ASSUME Typed, [Next]_vars
  PROVE  EndedKept
<1> USE DEF Typed, TypeOK, EndedKept, Ended, tables, Goto, Respond
<1>1. ASSUME NEW r \in Requests,
             \/ Arrive(r) \/ AnswerProfile(r) \/ AnswerStatus(r) \/ Begin(r)
      PROVE  EndedKept
  BY <1>1 DEF Arrive, AnswerProfile, AnswerStatus, Begin
<1>2. ASSUME NEW r \in Requests, InsertQuestionUser(r) PROVE EndedKept
  BY <1>2 DEF InsertQuestionUser
<1>3. ASSUME NEW r \in Requests, InsertUserAnswers(r) PROVE EndedKept
  BY <1>3 DEF InsertUserAnswers
<1>4. ASSUME NEW r \in Requests,
             DeleteStatus(r) \/ DeleteUserAnswers(r) \/ InsertOptions(r)
      PROVE  EndedKept
  BY <1>4 DEF DeleteStatus, DeleteUserAnswers, InsertOptions
<1>5. ASSUME NEW r \in Requests, DeleteQuestionUser(r) PROVE EndedKept
  BY <1>5 DEF DeleteQuestionUser
<1>6. ASSUME NEW r \in Requests, InsertQuestion(r) PROVE EndedKept
  BY <1>6 DEF InsertQuestion
<1>7. ASSUME NEW r \in Requests,
             Commit(r) \/ CommitFails(r) \/ CommitUnacknowledged(r)
      PROVE  EndedKept
  BY <1>7 DEF Commit, CommitFails, CommitUnacknowledged, ApplyTrans
<1>8. ASSUME NEW r \in Requests, StatementFails(r) \/ DeleteUser(r) PROVE EndedKept
  BY <1>8 DEF StatementFails, DeleteUser, InTrans, Waiting
<1>9. ASSUME NEW r \in Requests, Approve(r) PROVE EndedKept
  BY <1>9 DEF Approve
<1>10. ASSUME NEW r \in Requests, Reject(r) PROVE EndedKept
  BY <1>10 DEF Reject
<1>11. ASSUME NEW r \in Requests, DeleteQuestion(r) PROVE EndedKept
  BY <1>11 DEF DeleteQuestion
<1>12. CASE Purge \/ Crash \/ UNCHANGED vars
  BY <1>12 DEF Purge, Crash, InFlight, InTrans, Waiting, vars
<1>. QED
  BY <1>1, <1>2, <1>3, <1>4, <1>5, <1>6, <1>7, <1>8, <1>9, <1>10, <1>11,
     <1>12, NextCases

\* Rows are only added by a COMMIT, and most steps do not remove any.
LEMMA RowsKeptSteps ==
  ASSUME NEW r \in Requests,
         \/ Arrive(r) \/ AnswerProfile(r) \/ AnswerStatus(r) \/ Begin(r)
         \/ InsertQuestionUser(r) \/ InsertUserAnswers(r) \/ DeleteStatus(r)
         \/ DeleteUserAnswers(r) \/ DeleteQuestionUser(r) \/ InsertQuestion(r)
         \/ InsertOptions(r) \/ CommitFails(r) \/ StatementFails(r)
         \/ Approve(r) \/ Reject(r) \/ DeleteUser(r)
  PROVE  question_user' = question_user /\ user_answers' = user_answers
  BY DEF Arrive, AnswerProfile, AnswerStatus, Begin, InsertQuestionUser,
       InsertUserAnswers, DeleteStatus, DeleteUserAnswers, DeleteQuestionUser,
       InsertQuestion, InsertOptions, CommitFails, StatementFails, Approve,
       Reject, DeleteUser, tables

LEMMA RowsAddedByCommit ==
  ASSUME Typed, [Next]_vars
  PROVE  \/ question_user' \subseteq question_user /\ user_answers' \subseteq user_answers
         \/ \E r \in Requests : Commit(r) \/ CommitUnacknowledged(r)
<1>1. CASE Purge \/ \E r \in Requests : DeleteQuestion(r)
  BY <1>1, RemovalUnlocked DEF Removal
<1>2. CASE Crash \/ UNCHANGED vars
  BY <1>2 DEF Crash, tables, vars
<1>. QED
  BY <1>1, <1>2, RowsKeptSteps, NextCases

RowsInv == ErrorsLeaveNoTrace /\ OneRowPerRequest /\ ConsentWasGiven

LEMMA RowsNext ==
  ASSUME Typed, TransOK, RowsInv, [Next]_vars
  PROVE  RowsInv'
<1>0. /\ EndedKept
      /\ \A row \in question_user \cup user_answers :
            row.req \in Requests /\ pc[row.req] \in Ended
  <2>1. \A row \in question_user \cup user_answers : row.req \in Requests
    BY DEF Typed, TypeOK, Tracking, Answer
  <2>. QED
    BY <2>1, EndedKeptNext DEF Typed, HandlerOK, RowsInv, ErrorsLeaveNoTrace, Ended
<1>1. CASE question_user' \subseteq question_user /\ user_answers' \subseteq user_answers
  BY <1>0, <1>1 DEF RowsInv, EndedKept, ErrorsLeaveNoTrace, OneRowPerRequest,
                    ConsentWasGiven
<1>2. ASSUME NEW r \in Requests, Commit(r) \/ CommitUnacknowledged(r)
      PROVE  RowsInv'
  <2>1. /\ question_user' = (question_user \ trans[r].untrack) \cup trans[r].track
        /\ user_answers' = (user_answers \ trans[r].erase) \cup trans[r].record
        /\ call' = call
        /\ pc[r] = "commit"
    BY <1>2 DEF Commit, CommitUnacknowledged, ApplyTrans
  <2>2. /\ \A t \in trans[r].track : t = TrackingRow(r)
        /\ \A a \in trans[r].record : a = AnswerRow(r)
    BY DEF TransOK
  <2>3. TrackingRow(r).req = r /\ AnswerRow(r).req = r
    BY DEF TrackingRow, AnswerRow
  <2>4. trans[r].track \cup trans[r].record # {} =>
           reply'[r] = 201 \/ pc'[r] = "lost"
    BY <1>2 DEF Commit, CommitUnacknowledged, CommitCode, Respond, TransOK,
                Typed, TypeOK
  <2>5. ErrorsLeaveNoTrace'
    BY <1>0, <2>1, <2>2, <2>3, <2>4 DEF RowsInv, EndedKept, ErrorsLeaveNoTrace
  <2>6. \A a \in user_answers : a.req # r
    BY <1>0, <2>1 DEF Ended
  <2>7. OneRowPerRequest'
    BY <2>1, <2>2, <2>3, <2>6 DEF RowsInv, OneRowPerRequest
  <2>8. TrackingRow(r).consent => call[r].consent
    BY DEF TrackingRow, Typed, HandlerOK
  <2>9. ConsentWasGiven'
    BY <2>1, <2>2, <2>3, <2>8 DEF RowsInv, ConsentWasGiven
  <2>. QED
    BY <2>5, <2>7, <2>9 DEF RowsInv
<1>. QED
  BY <1>1, <1>2, RowsAddedByCommit

LEMMA WholeNext ==
  ASSUME Typed, TransOK, DrawnPrivate, SubmissionsWhole, [Next]_vars
  PROVE  SubmissionsWhole'
<1> DEFINE Seen == {p \in Questions : Exists(p)}
<1>1. CASE answer_options' = answer_options /\ \A p \in Questions : Exists(p)' <=> Exists(p)
  BY <1>1 DEF SubmissionsWhole
<1>2. ASSUME NEW r \in Requests, Commit(r) \/ CommitUnacknowledged(r)
      PROVE  SubmissionsWhole'
  <2>1. /\ answer_options' = answer_options \cup trans[r].options
        /\ status' = [q \in Questions |->
              IF q \in trans[r].questions THEN "pending" ELSE status[q]]
        /\ pc[r] = "commit"
    BY <1>2 DEF Commit, CommitUnacknowledged, ApplyTrans
  <2>2. trans[r].options = UNION {OptionsOf[q] : q \in trans[r].questions}
    BY <2>1 DEF TransOK, Typed, HandlerOK
  <2>3. trans[r].questions \subseteq Questions
    BY DEF Typed, TypeOK, Transactions
  <2>4. \A p \in Questions : Exists(p)' <=> Exists(p) \/ p \in trans[r].questions
    BY <2>1 DEF Exists
  <2>. QED
    BY <2>1, <2>2, <2>3, <2>4 DEF SubmissionsWhole
<1>3. CASE Purge \/ \E r \in Requests : DeleteQuestion(r)
  <2>1. PICK gone \in SUBSET Questions : Removal(gone)
    BY <1>3, RemovalUnlocked
  <2>2. \A p \in Questions : Exists(p)' <=> Exists(p) /\ p \notin gone
    BY <2>1 DEF Removal, Exists
  <2>3. \A o : o \in answer_options' <=>
           \E p \in Questions : Exists(p) /\ p \notin gone /\ o \in OptionsOf[p]
    BY <2>1, VotingAssumption DEF Removal, SubmissionsWhole
  <2>. QED
    BY <2>2, <2>3 DEF SubmissionsWhole
<1>4. ASSUME NEW r \in Requests, InsertQuestion(r) \/ Approve(r) \/ Reject(r)
      PROVE  /\ answer_options' = answer_options
             /\ \A p \in Questions : Exists(p)' <=> Exists(p)
  BY <1>4 DEF InsertQuestion, Approve, Reject, Exists, Typed, TypeOK
<1>5. ASSUME NEW r \in Requests,
         \/ Arrive(r) \/ AnswerProfile(r) \/ AnswerStatus(r) \/ Begin(r)
         \/ InsertQuestionUser(r) \/ InsertUserAnswers(r) \/ DeleteStatus(r)
         \/ DeleteUserAnswers(r) \/ DeleteQuestionUser(r) \/ InsertOptions(r)
         \/ CommitFails(r) \/ StatementFails(r) \/ DeleteUser(r)
      PROVE  status' = status /\ answer_options' = answer_options
  BY <1>5 DEF Arrive, AnswerProfile, AnswerStatus, Begin, InsertQuestionUser,
       InsertUserAnswers, DeleteStatus, DeleteUserAnswers, DeleteQuestionUser,
       InsertOptions, CommitFails, StatementFails, DeleteUser, tables
<1>6. CASE Crash \/ UNCHANGED vars
  BY <1>6, <1>1 DEF Crash, tables, vars, Exists
<1>7. ASSUME status' = status /\ answer_options' = answer_options
      PROVE  SubmissionsWhole'
  BY <1>1, <1>7 DEF Exists
<1>. QED
  BY <1>1, <1>2, <1>3, <1>4, <1>5, <1>6, <1>7, NextCases

LEMMA IInvInit == Init => IInv
<1> SUFFICES ASSUME Init PROVE IInv
  OBVIOUS
<1>1. TypeOK /\ HandlerOK
  BY TypedInit DEF Typed
<1>2. TransOK /\ PendingUnique /\ DrawnPrivate
  BY DEF Init, TransOK, PendingUnique, DrawnPrivate, NoTrans
<1>3. ErrorsLeaveNoTrace /\ OneRowPerRequest /\ OneTrackingRow /\ ConsentWasGiven
  BY DEF Init, ErrorsLeaveNoTrace, OneRowPerRequest, OneTrackingRow, ConsentWasGiven
<1>4. NoVoteBeforeReview /\ CheckedReviewed
  BY DEF Init, NoVoteBeforeReview, CheckedReviewed, PastCheck, NoTrans
<1>5. SubmissionsWhole
  <2>1. \A p \in Questions : Exists(p) <=> p \in Seeded
    BY DEF Init, Exists
  <2>. QED
    BY <2>1, VotingAssumption DEF Init, SubmissionsWhole
<1>. QED
  BY <1>1, <1>2, <1>3, <1>4, <1>5 DEF IInv

LEMMA IInvNext == IInv /\ [Next]_vars => IInv'
<1> SUFFICES ASSUME IInv, [Next]_vars PROVE IInv'
  OBVIOUS
<1>0. Typed /\ TransOK
  BY DEF IInv, Typed
<1>1. Typed'
  BY <1>0, TypedNext
<1>2. TransOK'
  BY <1>0, TransNext
<1>3. UniqInv'
  BY <1>0, UniqNext DEF IInv, UniqInv
<1>4. RevInv'
  BY <1>0, RevNext DEF IInv, RevInv
<1>5. RowsInv'
  BY <1>0, RowsNext DEF IInv, RowsInv
<1>6. SubmissionsWhole'
  BY <1>0, WholeNext DEF IInv
<1>. QED
  BY <1>1, <1>2, <1>3, <1>4, <1>5, <1>6 DEF IInv, Typed, UniqInv, RevInv, RowsInv

\* The inductive invariant holds in every reachable state, for pools of one and
\* of two connections.
THEOREM Invariance == Spec => []IInv
  BY IInvInit, IInvNext, PTL DEF Spec

\* No interleaving, failure or crash lets a user hold two tracking rows on a
\* question (answerQuestion, deleteAnswer).
THEOREM OneVotePerUser == Spec => []OneTrackingRow
<1>1. IInv => OneTrackingRow
  BY DEF IInv
<1>. QED
  BY <1>1, Invariance, PTL

\* Votes are held on reviewed, existing questions only.
THEOREM VotesAfterReview == Spec => []NoVoteBeforeReview
<1>1. IInv => NoVoteBeforeReview
  BY DEF IInv
<1>. QED
  BY <1>1, Invariance, PTL

\* A request that failed, or has not ended, has left no row behind.
THEOREM FailedRequestsLeaveNothing == Spec => []ErrorsLeaveNoTrace
<1>1. IInv => ErrorsLeaveNoTrace
  BY DEF IInv
<1>. QED
  BY <1>1, Invariance, PTL

\* A question is visible with all of its options or not at all (submitQuestion).
THEOREM SubmissionIsAtomic == Spec => []SubmissionsWhole
<1>1. IInv => SubmissionsWhole
  BY DEF IInv
<1>. QED
  BY <1>1, Invariance, PTL

\* consent_given_at is only recorded for a request that carried the consent.
THEOREM ConsentIsGenuine == Spec => []ConsentWasGiven
<1>1. IInv => ConsentWasGiven
  BY DEF IInv
<1>. QED
  BY <1>1, Invariance, PTL

-----------------------------------------------------------------------------
(* Nobody waits for ever for somebody who waits. *)

\* The pool has a connection left when no transaction is open.
LEMMA PoolFree ==
  ASSUME \A s \in Requests : pc[s] \notin InTrans
  PROVE  ConnectionFree
<1>1. {s \in Requests : pc[s] \in InTrans} = {}
  OBVIOUS
<1>2. Cardinality({}) = 0
  BY FS_EmptySet
<1>. QED
  BY <1>1, <1>2, VotingAssumption DEF ConnectionFree

\* Statements that wait for a tracking row wait for transactions about to be
\* committed or to store the answer, and those that wait for answers to be deleted
\* wait for transactions that wait at most for a tracking row.
LEMMA SomebodyProceeds ==
  ASSUME IInv
  PROVE  NoStandstill
<1> USE DEF InTrans, Waiting
<1> SUFFICES ASSUME NEW r \in Requests, InFlight(r)
             PROVE  \E s \in Requests : InFlight(s) /\ ~Blocked(s)
  BY DEF NoStandstill
<1>0. TransOK
  BY DEF IInv
<1> DEFINE Free == {"insert_user_answers", "insert_question", "insert_options", "commit"}
           Tracked == {"insert_question_user", "delete_question_user"}
<1>1. ASSUME NEW s \in Requests, pc[s] \in Free
      PROVE  InFlight(s) /\ ~Blocked(s)
  BY <1>1 DEF InFlight, Blocked
<1>2. ASSUME \A x \in Requests : pc[x] \notin Free,
             NEW s \in Requests, pc[s] \in Tracked
      PROVE  InFlight(s) /\ ~Blocked(s)
  <2>1. \A x \in Requests : trans[x].track = {} /\ trans[x].untrack = {}
    BY <1>0, <1>2 DEF TransOK
  <2>. QED
    BY <1>2, <2>1 DEF InFlight, Blocked, VoterLocked
<1>3. ASSUME \A x \in Requests : pc[x] \notin Free \cup Tracked,
             NEW s \in Requests, pc[s] = "delete_user_answers"
      PROVE  InFlight(s) /\ ~Blocked(s)
  <2>1. \A x \in Requests : trans[x].erase = {}
    BY <1>0, <1>3 DEF TransOK
  <2>. QED
    BY <1>3, <2>1 DEF InFlight, Blocked
<1>4. ASSUME \A x \in Requests : pc[x] \notin InTrans
      PROVE  InFlight(r) /\ ~Blocked(r)
  <2>1. ConnectionFree
    BY <1>4, PoolFree
  <2>2. \A x \in Requests : /\ trans[x].track = {} /\ trans[x].untrack = {}
                            /\ trans[x].record = {} /\ trans[x].erase = {}
                            /\ trans[x].questions = {}
    BY <1>0, <1>4 DEF TransOK
  <2>3. \A q : ~QuestionLocked(q)
    BY <2>2 DEF QuestionLocked, RowsOf
  <2>4. pc[r] \notin InTrans
    BY <1>4
  <2>. QED
    BY <2>1, <2>2, <2>3, <2>4 DEF Blocked
<1>. QED
  BY <1>1, <1>2, <1>3, <1>4

\* With one connection or two, answers, withdrawals, submissions and
\* deletions that wait for each other's rows never form a circle.
THEOREM TransactionsDontDeadlock == Spec => []NoStandstill
<1>1. IInv => NoStandstill
  BY SomebodyProceeds
<1>. QED
  BY <1>1, Invariance, PTL

-----------------------------------------------------------------------------
(* One connection, as config.json ships it. *)

LEMMA NoneOpen ==
  ASSUME PoolSize = 1, ConnectionFree
  PROVE  \A s \in Requests : pc[s] \notin InTrans
<1> DEFINE Open == {s \in Requests : pc[s] \in InTrans}
<1>1. IsFiniteSet(Open)
  BY VotingAssumption, FS_Subset
<1>2. Cardinality(Open) \in Nat /\ Cardinality(Open) < 1
  BY <1>1, FS_CardinalityType DEF ConnectionFree
<1>3. Open = {}
  BY <1>1, <1>2, FS_EmptySet
<1>. QED
  BY <1>3

\* Only newTransactionAsync opens a transaction.
LEMMA OpensByBegin ==
  ASSUME Typed, [Next]_vars
  PROVE  \/ \A s \in Requests : pc'[s] \in InTrans => pc[s] \in InTrans
         \/ \E r \in Requests : Begin(r)
<1> USE DEF Typed, TypeOK, InTrans, tables, Goto, Respond
<1>1. ASSUME NEW r \in Requests, Arrive(r)
      PROVE  \A s \in Requests : pc'[s] \in InTrans => pc[s] \in InTrans
  BY <1>1 DEF Arrive, FirstStatement
<1>2. ASSUME NEW r \in Requests, AnswerProfile(r) \/ AnswerStatus(r) \/ DeleteStatus(r)
      PROVE  \A s \in Requests : pc'[s] \in InTrans => pc[s] \in InTrans
  BY <1>2 DEF AnswerProfile, AnswerStatus, DeleteStatus
<1>3. ASSUME NEW r \in Requests, InsertQuestionUser(r) \/ InsertUserAnswers(r)
      PROVE  \A s \in Requests : pc'[s] \in InTrans => pc[s] \in InTrans
  BY <1>3 DEF InsertQuestionUser, InsertUserAnswers
<1>4. ASSUME NEW r \in Requests, DeleteUserAnswers(r) \/ DeleteQuestionUser(r)
      PROVE  \A s \in Requests : pc'[s] \in InTrans => pc[s] \in InTrans
  BY <1>4 DEF DeleteUserAnswers, DeleteQuestionUser
<1>5. ASSUME NEW r \in Requests, InsertQuestion(r) \/ InsertOptions(r)
      PROVE  \A s \in Requests : pc'[s] \in InTrans => pc[s] \in InTrans
  BY <1>5 DEF InsertQuestion, InsertOptions
<1>6. ASSUME NEW r \in Requests,
             Commit(r) \/ CommitFails(r) \/ CommitUnacknowledged(r) \/ StatementFails(r)
      PROVE  \A s \in Requests : pc'[s] \in InTrans => pc[s] \in InTrans
  BY <1>6 DEF Commit, CommitFails, CommitUnacknowledged, StatementFails
<1>7. ASSUME NEW r \in Requests, Approve(r) \/ Reject(r)
      PROVE  \A s \in Requests : pc'[s] \in InTrans => pc[s] \in InTrans
  BY <1>7 DEF Approve, Reject
<1>8. ASSUME NEW r \in Requests, DeleteQuestion(r) \/ DeleteUser(r)
      PROVE  \A s \in Requests : pc'[s] \in InTrans => pc[s] \in InTrans
  BY <1>8 DEF DeleteQuestion, DeleteUser
<1>9. CASE Purge \/ Crash \/ UNCHANGED vars
  BY <1>9 DEF Purge, Crash, vars
<1>. QED
  BY <1>1, <1>2, <1>3, <1>4, <1>5, <1>6, <1>7, <1>8, <1>9, NextCases

LEMMA OneTransactionNext ==
  ASSUME PoolSize = 1, Typed, OneTransaction, [Next]_vars
  PROVE  OneTransaction'
<1>1. CASE \A s \in Requests : pc'[s] \in InTrans => pc[s] \in InTrans
  BY <1>1 DEF OneTransaction
<1>2. ASSUME NEW r \in Requests, Begin(r)
      PROVE  OneTransaction'
  <2>1. \A s \in Requests : pc[s] \notin InTrans
    BY <1>2, NoneOpen DEF Begin
  <2>2. \A s \in Requests \ {r} : pc'[s] = pc[s]
    BY <1>2 DEF Begin, Goto, Typed, TypeOK
  <2>. QED
    BY <2>1, <2>2 DEF OneTransaction
<1>. QED
  BY <1>1, <1>2, OpensByBegin

\* A request that has collected the rows its withdrawal removes.
Withdrawing(r) == \/ pc[r] = "delete_question_user"
                  \/ pc[r] = "commit" /\ call[r].op = "deleteAnswer"

\* Nothing disturbs what the withdrawals have collected.
WithdrawalKept ==
  /\ \A s \in Requests : Withdrawing(s)' =>
        pc'[s] = pc[s] /\ call'[s] = call[s] /\ trans'[s] = trans[s]
  /\ question_user' = question_user /\ user_answers' = user_answers

LEMMA WithdrawalKeptSteps ==
  ASSUME Typed, NEW r \in Requests,
         \/ Arrive(r) \/ AnswerProfile(r) \/ AnswerStatus(r) \/ Begin(r)
         \/ InsertQuestionUser(r) \/ InsertUserAnswers(r) \/ DeleteStatus(r)
         \/ InsertQuestion(r) \/ InsertOptions(r) \/ CommitFails(r)
         \/ StatementFails(r) \/ Approve(r) \/ Reject(r) \/ DeleteUser(r)
  PROVE  WithdrawalKept
<1> USE DEF Typed, TypeOK, HandlerOK, WithdrawalKept, Withdrawing, tables, Goto, Respond
<1>1. CASE Arrive(r)
  BY <1>1 DEF Arrive, FirstStatement
<1>2. CASE AnswerProfile(r)
  BY <1>2 DEF AnswerProfile
<1>3. CASE AnswerStatus(r)
  BY <1>3 DEF AnswerStatus
<1>4. CASE Begin(r)
  BY <1>4 DEF Begin
<1>5. CASE InsertQuestionUser(r)
  BY <1>5 DEF InsertQuestionUser
<1>6. CASE InsertUserAnswers(r)
  BY <1>6 DEF InsertUserAnswers
<1>7. CASE DeleteStatus(r)
  BY <1>7 DEF DeleteStatus
<1>8. CASE InsertQuestion(r)
  BY <1>8 DEF InsertQuestion
<1>9. CASE InsertOptions(r)
  BY <1>9 DEF InsertOptions
<1>10. CASE CommitFails(r) \/ StatementFails(r)
  BY <1>10 DEF CommitFails, StatementFails
<1>11. CASE Approve(r) \/ Reject(r)
  BY <1>11 DEF Approve, Reject
<1>12. CASE DeleteUser(r)
  BY <1>12 DEF DeleteUser
<1>. QED
  BY <1>1, <1>2, <1>3, <1>4, <1>5, <1>6, <1>7, <1>8, <1>9, <1>10, <1>11, <1>12

LEMMA WithdrawalCompleteNext ==
  ASSUME PoolSize = 1, Typed, TransOK, OneTransaction, WithdrawalComplete, [Next]_vars
  PROVE  WithdrawalComplete'
<1>1. CASE WithdrawalKept
  BY <1>1 DEF WithdrawalKept, Withdrawing, WithdrawalComplete
<1>2. CASE \A s \in Requests : pc'[s] \notin InTrans
  BY <1>2 DEF WithdrawalComplete, InTrans
<1>3. ASSUME NEW r \in Requests, DeleteUserAnswers(r)
      PROVE  WithdrawalComplete'
  <2>1. \A s \in Requests \ {r} : pc[s] \notin InTrans /\ pc'[s] = pc[s]
    BY <1>3 DEF DeleteUserAnswers, OneTransaction, InTrans, Typed, TypeOK
  <2>2. /\ pc'[r] = "delete_question_user"
        /\ call'[r] = call[r] /\ user_answers' = user_answers
        /\ trans'[r].erase = RowsOf(user_answers, call[r].question)
    BY <1>3 DEF DeleteUserAnswers, tables, Typed, TypeOK, Transactions
  <2>. QED
    BY <2>1, <2>2 DEF WithdrawalComplete, RowsOf, InTrans
<1>4. ASSUME NEW r \in Requests, DeleteQuestionUser(r)
      PROVE  WithdrawalComplete'
  <2>1. \A s \in Requests \ {r} : pc[s] \notin InTrans /\ pc'[s] = pc[s]
    BY <1>4 DEF DeleteQuestionUser, OneTransaction, InTrans, Respond, Typed, TypeOK
  <2> DEFINE mine == {t \in question_user :
                        SameVoter(t, call[r].user, call[r].question)}
  <2>2. /\ call' = call /\ user_answers' = user_answers
        /\ question_user' = question_user
        /\ pc[r] = "delete_question_user"
    BY <1>4 DEF DeleteQuestionUser, tables
  <2>3. CASE pc'[r] = "done"
    BY <2>1, <2>3, <1>2 DEF InTrans
  <2>4. CASE /\ mine # {}
             /\ pc' = [pc EXCEPT ![r] = "commit"]
             /\ trans' = [trans EXCEPT ![r].untrack = mine]
    <3>1. /\ trans'[r].untrack = mine
          /\ trans'[r].erase = trans[r].erase
      BY <2>4 DEF Typed, TypeOK, Transactions
    <3>2. mine' = mine
      BY <2>2
    <3>3. RowsOf(user_answers, call[r].question)' \subseteq trans'[r].erase
      BY <2>2, <3>1 DEF WithdrawalComplete, RowsOf
    <3>. QED
      BY <2>1, <2>2, <2>4, <3>1, <3>3 DEF WithdrawalComplete, InTrans, SameVoter
  <2>5. \/ pc'[r] = "done"
        \/ /\ mine # {}
           /\ pc' = [pc EXCEPT ![r] = "commit"]
           /\ trans' = [trans EXCEPT ![r].untrack = mine]
    BY <1>4 DEF DeleteQuestionUser, Respond, Typed, TypeOK
  <2>. QED
    BY <2>3, <2>4, <2>5
<1>5. ASSUME NEW r \in Requests, Commit(r) \/ CommitUnacknowledged(r)
      PROVE  WithdrawalComplete'
  <2>1. pc[r] = "commit" /\ pc'[r] \notin InTrans /\ \A s \in Requests \ {r} : pc'[s] = pc[s]
    BY <1>5 DEF Commit, CommitUnacknowledged, Respond, InTrans, Typed, TypeOK
  <2>. QED
    BY <2>1, <1>2 DEF OneTransaction, InTrans
<1>6. ASSUME NEW r \in Requests, DeleteQuestion(r)
      PROVE  WithdrawalComplete'
  <2>1. \A s \in Requests : pc[s] \notin InTrans
    BY <1>6, NoneOpen DEF DeleteQuestion
  <2>2. \A s \in Requests : pc'[s] = pc[s] \/ pc'[s] = "done"
    BY <1>6 DEF DeleteQuestion, Respond, Typed, TypeOK
  <2>. QED
    BY <2>1, <2>2, <1>2 DEF InTrans
<1>7. CASE Purge
  <2>1. PICK gone \in SUBSET Questions : Removal(gone)
    BY <1>7, RemovalUnlocked
  <2>2. UNCHANGED <<pc, call, trans>>
    BY <1>7 DEF Purge
  <2>3. \A s \in Requests : (pc[s] = "commit" /\ call[s].op = "deleteAnswer") =>
           call[s].question \notin gone
    BY <2>1 DEF Removal, QuestionLocked, RowsOf, WithdrawalComplete, SameVoter
  <2>. QED
    BY <2>1, <2>2, <2>3 DEF Removal, WithdrawalComplete, RowsOf, SameVoter
<1>8. CASE Crash
  BY <1>8, <1>2 DEF Crash, InFlight, InTrans
<1>9. CASE UNCHANGED vars
  BY <1>9, <1>1 DEF vars, WithdrawalKept, Withdrawing
<1>. QED
  BY <1>1, <1>3, <1>4, <1>5, <1>6, <1>7, <1>8, <1>9, WithdrawalKeptSteps, NextCases

LEMMA AnswersTrackedNext ==
  ASSUME Typed, TransOK, WithdrawalComplete, AnswersTracked, [Next]_vars
  PROVE  AnswersTracked'
<1>1. CASE question_user' = question_user /\ user_answers' = user_answers
  BY <1>1 DEF AnswersTracked, SameVoter
<1>2. CASE Purge \/ \E r \in Requests : DeleteQuestion(r)
  <2>1. PICK gone \in SUBSET Questions : Removal(gone)
    BY <1>2, RemovalUnlocked
  <2>. QED
    BY <2>1 DEF Removal, AnswersTracked, SameVoter
<1>3. ASSUME NEW r \in Requests, Commit(r) \/ CommitUnacknowledged(r)
      PROVE  AnswersTracked'
  <2>1. /\ question_user' = (question_user \ trans[r].untrack) \cup trans[r].track
        /\ user_answers' = (user_answers \ trans[r].erase) \cup trans[r].record
        /\ pc[r] = "commit"
    BY <1>3 DEF Commit, CommitUnacknowledged, ApplyTrans
  <2>2. CASE call[r].op = "answer"
    <3>1. /\ question_user' = question_user \cup {TrackingRow(r)}
          /\ user_answers' = user_answers \cup {AnswerRow(r)}
      BY <2>1, <2>2 DEF TransOK
    <3>2. /\ TrackingRow(r).req = AnswerRow(r).req
          /\ SameVoter(TrackingRow(r), AnswerRow(r).user, AnswerRow(r).question)
      BY DEF SameVoter, TrackingRow, AnswerRow
    <3>. QED
      BY <3>1, <3>2 DEF AnswersTracked
  <2>3. CASE call[r].op = "deleteAnswer"
    <3>1. /\ question_user' = question_user \ trans[r].untrack
          /\ user_answers' = user_answers \ trans[r].erase
      BY <2>1, <2>3 DEF TransOK
    <3>2. \A a \in user_answers' : a.question # call[r].question
      BY <2>1, <2>3, <3>1 DEF WithdrawalComplete, RowsOf
    <3>3. \A t \in trans[r].untrack : t.question = call[r].question
      BY <2>1, <2>3 DEF WithdrawalComplete, SameVoter
    <3>. QED
      BY <3>1, <3>2, <3>3 DEF AnswersTracked, SameVoter
  <2>4. CASE call[r].op = "submit"
    BY <2>1, <2>4, <1>1 DEF TransOK
  <2>. QED
    BY <2>1, <2>2, <2>3, <2>4 DEF Typed, HandlerOK
<1>4. ASSUME NEW r \in Requests,
         \/ Arrive(r) \/ AnswerProfile(r) \/ AnswerStatus(r) \/ Begin(r)
         \/ InsertQuestionUser(r) \/ InsertUserAnswers(r) \/ DeleteStatus(r)
         \/ DeleteUserAnswers(r) \/ DeleteQuestionUser(r) \/ InsertQuestion(r)
         \/ InsertOptions(r) \/ CommitFails(r) \/ StatementFails(r)
         \/ Approve(r) \/ Reject(r) \/ DeleteUser(r)
      PROVE  AnswersTracked'
  BY <1>1, <1>4, RowsKeptSteps
<1>5. CASE Crash \/ UNCHANGED vars
  BY <1>1, <1>5 DEF Crash, tables, vars
<1>. QED
  BY <1>2, <1>3, <1>4, <1>5, NextCases

LEMMA IInv1Init == Init => IInv1
<1> SUFFICES ASSUME Init PROVE IInv1
  OBVIOUS
<1>1. IInv
  BY IInvInit
<1>2. OneTransaction /\ WithdrawalComplete /\ AnswersTracked
  BY DEF Init, OneTransaction, WithdrawalComplete, AnswersTracked, InTrans
<1>. QED
  BY <1>1, <1>2 DEF IInv1

LEMMA IInv1Next ==
  ASSUME PoolSize = 1, IInv1, [Next]_vars
  PROVE  IInv1'
<1>0. Typed /\ TransOK /\ IInv
  BY DEF IInv1, IInv, Typed
<1>1. IInv'
  BY <1>0, IInvNext
<1>2. OneTransaction'
  BY <1>0, OneTransactionNext DEF IInv1
<1>3. WithdrawalComplete'
  BY <1>0, WithdrawalCompleteNext DEF IInv1
<1>4. AnswersTracked'
  BY <1>0, AnswersTrackedNext DEF IInv1
<1>. QED
  BY <1>1, <1>2, <1>3, <1>4 DEF IInv1

THEOREM InvarianceOneConnection ==
  ASSUME PoolSize = 1
  PROVE  Spec => []IInv1
<1>1. IInv1 /\ [Next]_vars => IInv1'
  BY IInv1Next
<1>. QED
  BY <1>1, IInv1Init, PTL DEF Spec

\* With the shipped pool of one connection every counted answer is backed by its
\* voter's tracking row.
THEOREM AnswersAreTracked ==
  ASSUME PoolSize = 1
  PROVE  Spec => []AnswersTracked
<1>1. IInv1 => AnswersTracked
  BY DEF IInv1
<1>. QED
  BY <1>1, InvarianceOneConnection, PTL

\* With the shipped pool nobody is counted twice on a question.
THEOREM NobodyCountedTwice ==
  ASSUME PoolSize = 1
  PROVE  Spec => []OneAnswerPerUser
<1>1. ASSUME IInv1 PROVE OneAnswerPerUser
  <2> SUFFICES ASSUME NEW a \in user_answers, NEW b \in user_answers,
                      SameVoter(a, b.user, b.question)
               PROVE  a = b
    BY DEF OneAnswerPerUser
  <2>1. PICK s \in question_user : s.req = a.req /\ SameVoter(s, a.user, a.question)
    BY <1>1 DEF IInv1, AnswersTracked
  <2>2. PICK t \in question_user : t.req = b.req /\ SameVoter(t, b.user, b.question)
    BY <1>1 DEF IInv1, AnswersTracked
  <2>3. s = t
    BY <1>1, <2>1, <2>2 DEF IInv1, IInv, OneTrackingRow, SameVoter
  <2>. QED
    BY <1>1, <2>1, <2>2, <2>3 DEF IInv1, IInv, OneRowPerRequest
<1>. QED
  BY <1>1, InvarianceOneConnection, PTL

-----------------------------------------------------------------------------
(* Refinement *)

voted == {<<t.user, t.question>> : t \in question_user}

LEMMA StepRefines ==
  ASSUME IInv1, [Next]_vars
  PROVE  [Abstract!Next]_<<voted, user_answers>>
<1>0. TypeOK /\ Typed /\ TransOK
  BY DEF IInv1, IInv, Typed
<1>1. CASE question_user' = question_user /\ user_answers' = user_answers
  BY <1>1 DEF voted
<1>2. CASE Purge \/ \E r \in Requests : DeleteQuestion(r)
  <2>1. PICK gone \in SUBSET Questions : Removal(gone)
    BY <1>0, <1>2, RemovalUnlocked
  <2>2. voted' = {v \in voted : v[2] \notin gone}
    BY <2>1 DEF Removal, voted
  <2>3. Abstract!Close(gone)
    BY <2>1, <2>2 DEF Removal, Abstract!Close, voted
  <2>. QED
    BY <2>3 DEF Abstract!Next
<1>3. ASSUME NEW r \in Requests, Commit(r) \/ CommitUnacknowledged(r)
      PROVE  [Abstract!Next]_<<voted, user_answers>>
  <2>1. /\ question_user' = (question_user \ trans[r].untrack) \cup trans[r].track
        /\ user_answers' = (user_answers \ trans[r].erase) \cup trans[r].record
        /\ pc[r] = "commit"
    BY <1>3 DEF Commit, CommitUnacknowledged, ApplyTrans
  <2>2. CASE call[r].op = "answer"
    <3> DEFINE b == AnswerRow(r)
    <3>1. /\ question_user' = question_user \cup {TrackingRow(r)}
          /\ user_answers' = user_answers \cup {b}
          /\ trans[r].track = {TrackingRow(r)}
          /\ trans[r].record = {b}
      BY <1>0, <2>1, <2>2 DEF TransOK
    <3>2. b \in Abstract!Ballot
      BY <1>0, <3>1 DEF TypeOK, Transactions, Answer, Abstract!Ballot
    <3>3. TrackingRow(r).user = b.user /\ TrackingRow(r).question = b.question
      BY DEF TrackingRow, AnswerRow
    <3> HIDE DEF b
    <3>4. <<b.user, b.question>> \notin voted
      BY <3>1, <3>3 DEF IInv1, IInv, PendingUnique, SameVoter, voted
    <3>5. voted' = voted \cup {<<b.user, b.question>>}
      BY <3>1, <3>3 DEF voted
    <3>. QED
      BY <3>1, <3>2, <3>4, <3>5 DEF Abstract!Next, Abstract!Cast, voted
  <2>3. CASE call[r].op = "deleteAnswer"
    <3> DEFINE u == call[r].user
               q == call[r].question
    <3>1. /\ question_user' = question_user \ trans[r].untrack
          /\ user_answers' = user_answers \ trans[r].erase
          /\ \A a \in trans[r].erase : a.question = q
      BY <1>0, <2>1, <2>3 DEF TransOK
    <3>2. /\ trans[r].untrack # {}
          /\ trans[r].untrack = {t \in question_user : SameVoter(t, u, q)}
          /\ RowsOf(user_answers, q) \subseteq trans[r].erase
      BY <2>1, <2>3 DEF IInv1, WithdrawalComplete
    <3>3. u \in Users /\ q \in Questions
      BY <1>0, <2>3, CallFields DEF TypeOK, Operations
    <3> HIDE DEF u, q
    <3>4. <<u, q>> \in voted
      BY <3>2 DEF SameVoter, voted
    <3>5. voted' = voted \ {<<u, q>>}
      BY <3>1, <3>2 DEF SameVoter, voted
    <3> DEFINE gone == trans[r].erase \cap user_answers
    <3>6. /\ gone \in SUBSET {b \in user_answers : b.question = q}
          /\ {b \in user_answers : b.question = q /\ b.user = u} \subseteq gone
          /\ user_answers' = user_answers \ gone
      BY <3>1, <3>2 DEF RowsOf
    <3> HIDE DEF gone
    <3>7. Abstract!Withdraw(u, q)
      BY <3>4, <3>5, <3>6 DEF Abstract!Withdraw, voted
    <3>8. \E x \in Users, y \in Questions : Abstract!Withdraw(x, y)
      BY <3>3, <3>7 DEF Abstract!Withdraw, voted
    <3>. QED
      BY <3>8 DEF Abstract!Next
  <2>4. CASE call[r].op = "submit"
    BY <1>0, <2>1, <2>4, <1>1 DEF TransOK
  <2>. QED
    BY <1>0, <2>1, <2>2, <2>3, <2>4 DEF Typed, HandlerOK
<1>4. ASSUME NEW r \in Requests,
         \/ Arrive(r) \/ AnswerProfile(r) \/ AnswerStatus(r) \/ Begin(r)
         \/ InsertQuestionUser(r) \/ InsertUserAnswers(r) \/ DeleteStatus(r)
         \/ DeleteUserAnswers(r) \/ DeleteQuestionUser(r) \/ InsertQuestion(r)
         \/ InsertOptions(r) \/ CommitFails(r) \/ StatementFails(r)
         \/ Approve(r) \/ Reject(r) \/ DeleteUser(r)
      PROVE  [Abstract!Next]_<<voted, user_answers>>
  BY <1>1, <1>4, RowsKeptSteps
<1>5. CASE Crash \/ UNCHANGED vars
  BY <1>1, <1>5 DEF Crash, tables, vars
<1>. QED
  BY <1>2, <1>3, <1>4, <1>5, NextCases

\* With the shipped pool the tables behave like the abstract ballots: voting and
\* withdrawing are atomic whatever interleaving, failure or crash happens.
THEOREM Refinement ==
  ASSUME PoolSize = 1
  PROVE  Spec => ImplementsBallots
<1>1. Init => Abstract!Init
  BY DEF Init, Abstract!Init
<1>2. IInv1 /\ [Next]_vars => [Abstract!Next]_<<voted, user_answers>>
  BY StepRefines
<1>. QED
  BY <1>1, <1>2, InvarianceOneConnection, PTL
  DEF Spec, ImplementsBallots, Abstract!Spec, voted

=============================================================================
