------------------------------- MODULE Voting -------------------------------
(***************************************************************************)
(* Answering, withdrawing, submitting and reviewing questions              *)
(* (src/src/controllers/QuestionController.cpp) over the tables of         *)
(* src/sql/001_init.sql.                                                   *)
(*                                                                         *)
(* A request is a handler that sends one SQL statement after another; each *)
(* step below is the execution of one statement together with what the     *)
(* statement's callback decides.  Between two statements of one request    *)
(* any statement of another may run.  Statements of an open transaction    *)
(* keep their rows in trans until COMMIT.  An open transaction owns a      *)
(* connection of drogon's pool (config.json: number_of_connections), and a *)
(* statement outside a transaction needs a free one.                       *)
(*                                                                         *)
(* Left out: the wording of questions and options, categories, languages   *)
(* and the profile tags, which no decision here depends on.  Request       *)
(* bodies that fail validation are answered before the first statement and *)
(* change nothing.  hash_user_id is injective on (user, question), so a    *)
(* row of question_user is identified by the two.                          *)
(***************************************************************************)
EXTENDS Integers, FiniteSets

CONSTANTS Users,       \* accounts that can sign in
          Questions,   \* ids the sequence of table questions can draw
          Options,     \* ids of answer_options rows
          Requests,    \* HTTP requests, each served once
          OptionsOf,   \* the option ids a question is submitted with
          Seeded,      \* questions that exist, approved, before the first request
          PoolSize,    \* db_clients[0].number_of_connections
          Ops          \* the operations requests may ask for

Operations == {"answer", "deleteAnswer", "submit", "approve", "reject",
               "deleteQuestion", "deleteUser"}

\* Every submission has between 1 and 50 options; options belong to one
\* question; with more than two connections a waiting DELETE could see an older
\* snapshot than the one it is given here.
ASSUME VotingAssumption ==
  /\ IsFiniteSet(Requests)
  /\ OptionsOf \in [Questions -> SUBSET Options]
  /\ \A q \in Questions : OptionsOf[q] # {}
  /\ \A p, q \in Questions : p # q => OptionsOf[p] \cap OptionsOf[q] = {}
  /\ Seeded \subseteq Questions
  /\ PoolSize \in 1..2
  /\ Ops \subseteq Operations

VARIABLES
  users,           \* accounts in table users
  status,          \* questions.submission_status, or that there is no row
  special,         \* questions.special_category # 'none'
  answer_options,  \* rows of table answer_options
  question_user,   \* rows of the tracking table: who has answered what
  user_answers,    \* rows of the answers table; the column user is not stored
  pc,              \* the statement a request sends next
  call,            \* what a request asks for
  record_consent,  \* answerQuestion's local of that name
  trans,           \* the uncommitted rows of a request's transaction
  reply            \* status code sent to the client, 0 before

tables == <<users, status, special, answer_options, question_user, user_answers>>
vars == <<users, status, special, answer_options, question_user, user_answers,
          pc, call, record_consent, trans, reply>>

Statuses == {"undrawn", "absent", "pending", "approved", "rejected"}
Tracking == [req : Requests, user : Users, question : Questions, consent : BOOLEAN]
Answer == [req : Requests, user : Users, question : Questions, option : Options]

\* What a request carries after validation and the JWT filter: the token's
\* subject need not exist any more.
Calls ==
  [op : {"answer"}, user : Users, question : Questions, option : Options,
   consent : BOOLEAN]
    \cup [op : {"deleteAnswer", "reject", "deleteQuestion"}, user : Users,
          question : Questions]
    \cup [op : {"approve"}, user : Users, question : Questions, special : BOOLEAN]
    \cup [op : {"submit", "deleteUser"}, user : Users]
NoCall == [op |-> "none"]

NoTrans == [questions |-> {}, options |-> {}, track |-> {}, untrack |-> {},
            record |-> {}, erase |-> {}]
Transactions ==
  [questions : SUBSET Questions, options : SUBSET Options,
   track : SUBSET Tracking, untrack : SUBSET Tracking,
   record : SUBSET Answer, erase : SUBSET Answer]

InTrans == {"insert_question_user", "insert_user_answers",
            "delete_user_answers", "delete_question_user",
            "insert_question", "insert_options", "commit"}
Waiting == {"select_profile", "answer_status", "delete_status",
            "new_transaction", "statement"}
Ended == {"done", "lost"}
Codes == {0, 200, 201, 204, 400, 401, 404, 409, 500}

TypeOK ==
  /\ users \subseteq Users
  /\ status \in [Questions -> Statuses]
  /\ special \in [Questions -> BOOLEAN]
  /\ answer_options \subseteq Options
  /\ question_user \subseteq Tracking
  /\ user_answers \subseteq Answer
  /\ pc \in [Requests -> InTrans \cup Waiting \cup Ended \cup {"new"}]
  /\ call \in [Requests -> Calls \cup {NoCall}]
  /\ record_consent \in [Requests -> BOOLEAN]
  /\ trans \in [Requests -> Transactions]
  /\ reply \in [Requests -> Codes]

-----------------------------------------------------------------------------
(* Helpers: rows, connections and row locks. *)

Exists(q) == status[q] \in {"pending", "approved", "rejected"}
SameVoter(t, u, q) == t.user = u /\ t.question = q
RowsOf(rows, q) == {t \in rows : t.question = q}

\* A form of ConnectionFree where answerQuestion keeps its connection between
\* statements.
ConnectionFreeHeld ==
  Cardinality({s \in Requests : pc[s] \in InTrans \cup {"answer_status"}}) < PoolSize

ConnectionFree == Cardinality({s \in Requests : pc[s] \in InTrans}) < PoolSize

\* Another transaction has written the tracking row of (u, q): PostgreSQL makes
\* a second writer wait for its outcome.
VoterLocked(r, u, q) ==
  \E s \in Requests \ {r} : \E t \in trans[s].track \cup trans[s].untrack :
     SameVoter(t, u, q)

\* A transaction holds a row that references question q (a FOR KEY SHARE lock
\* on q) or has deleted one: a DELETE of q waits.
QuestionLocked(q) ==
  \E s \in Requests :
     RowsOf(trans[s].track \cup trans[s].untrack, q)
       \cup RowsOf(trans[s].record \cup trans[s].erase, q) # {}

\* The callback leaves for the next statement, or answers the request, which
\* gives up its transaction.
Goto(r, label) == /\ pc' = [pc EXCEPT ![r] = label]
                  /\ UNCHANGED <<trans, reply>>
Respond(r, code) == /\ pc' = [pc EXCEPT ![r] = "done"]
                    /\ reply' = [reply EXCEPT ![r] = code]
                    /\ trans' = [trans EXCEPT ![r] = NoTrans]

\* ON DELETE CASCADE of answer_options, question_user and user_answers.
RemoveQuestions(gone) ==
  /\ status' = [q \in Questions |-> IF q \in gone THEN "absent" ELSE status[q]]
  /\ special' = [q \in Questions |-> q \notin gone /\ special[q]]
  /\ answer_options' = answer_options \ UNION {OptionsOf[q] : q \in gone}
  /\ question_user' = {t \in question_user : t.question \notin gone}
  /\ user_answers' = {a \in user_answers : a.question \notin gone}

-----------------------------------------------------------------------------
Init ==
  /\ users = Users
  /\ status = [q \in Questions |-> IF q \in Seeded THEN "approved" ELSE "undrawn"]
  /\ \E flagged \in SUBSET Seeded : special = [q \in Questions |-> q \in flagged]
  /\ answer_options = UNION {OptionsOf[q] : q \in Seeded}
  /\ question_user = {}
  /\ user_answers = {}
  /\ pc = [r \in Requests |-> "new"]
  /\ call = [r \in Requests |-> NoCall]
  /\ record_consent = [r \in Requests |-> FALSE]
  /\ trans = [r \in Requests |-> NoTrans]
  /\ reply = [r \in Requests |-> 0]

FirstStatement(op) ==
  CASE op = "answer" -> "select_profile"
    [] op = "deleteAnswer" -> "delete_status"
    [] op = "submit" -> "new_transaction"
    [] OTHER -> "statement"

\* Bound: Questions limits how many submissions can draw an id.
IdsLeft ==
  Cardinality({q \in Questions : status[q] = "undrawn"})
    > Cardinality({s \in Requests : /\ call[s].op = "submit"
                                    /\ pc[s] \in {"new_transaction", "insert_question"}})

Arrive(r) ==
  /\ pc[r] = "new"
  /\ \E c \in Calls :
       /\ c.op \in Ops
       /\ c.op = "submit" => IdsLeft
       /\ call' = [call EXCEPT ![r] = c]
       /\ Goto(r, FirstStatement(c.op))
  /\ UNCHANGED <<tables, record_consent>>

-----------------------------------------------------------------------------
(* answerQuestion *)

\* The profile SELECT: 401 when the account is gone.
AnswerProfile(r) ==
  /\ pc[r] = "select_profile" /\ ConnectionFree
  /\ \/ call[r].user \in users /\ Goto(r, "answer_status")
     \/ call[r].user \notin users /\ Respond(r, 401)
  /\ UNCHANGED <<tables, call, record_consent>>

\* A form of AnswerStatus that forgets to look at submission_status.
AnswerStatusUnreviewed(r) ==
  /\ pc[r] = "answer_status" /\ ConnectionFree
  /\ Exists(call[r].question)
  /\ record_consent' = [record_consent EXCEPT ![r] = special[call[r].question]]
  /\ Goto(r, "new_transaction")
  /\ UNCHANGED <<tables, call>>

\* A form of AnswerStatus that records consent without having asked for it.
AnswerStatusUnasked(r) ==
  /\ pc[r] = "answer_status" /\ ConnectionFree
  /\ status[call[r].question] = "approved"
  /\ record_consent' = [record_consent EXCEPT ![r] = special[call[r].question]]
  /\ Goto(r, "new_transaction")
  /\ UNCHANGED <<tables, call>>

\* The status and consent SELECT, outside the transaction.
AnswerStatus(r) ==
  LET q == call[r].question IN
  /\ pc[r] = "answer_status" /\ ConnectionFree
  /\ \/ /\ status[q] # "approved"
        /\ Respond(r, 404)
        /\ UNCHANGED record_consent
     \/ /\ status[q] = "approved" /\ special[q] /\ ~call[r].consent
        /\ Respond(r, 400)
        /\ UNCHANGED record_consent
     \/ /\ status[q] = "approved" /\ (special[q] => call[r].consent)
        /\ record_consent' = [record_consent EXCEPT ![r] = special[q]]
        /\ Goto(r, "new_transaction")
  /\ UNCHANGED <<tables, call>>

\* newTransactionAsync hands over a connection once one is free.
Begin(r) ==
  /\ pc[r] = "new_transaction" /\ ConnectionFree
  /\ Goto(r, CASE call[r].op = "answer" -> "insert_question_user"
               [] call[r].op = "deleteAnswer" -> "delete_user_answers"
               [] OTHER -> "insert_question")
  /\ UNCHANGED <<tables, call, record_consent>>

TrackingRow(r) == [req |-> r, user |-> call[r].user,
                   question |-> call[r].question, consent |-> record_consent[r]]
AnswerRow(r) == [req |-> r, user |-> call[r].user,
                 question |-> call[r].question, option |-> call[r].option]

\* A form of InsertQuestionUser without the affected-rows test.
InsertQuestionUserTwice(r) ==
  /\ pc[r] = "insert_question_user"
  /\ Exists(call[r].question)
  /\ trans' = [trans EXCEPT ![r].track = {TrackingRow(r)}]
  /\ pc' = [pc EXCEPT ![r] = "insert_user_answers"]
  /\ UNCHANGED <<tables, call, record_consent, reply>>

\* INSERT INTO question_user ... ON CONFLICT DO NOTHING: 409 when no row was
\* inserted, 500 when the question is gone (foreign key).
InsertQuestionUser(r) ==
  LET u == call[r].user
      q == call[r].question
      voted == \E t \in question_user : SameVoter(t, u, q) IN
  /\ pc[r] = "insert_question_user" /\ ~VoterLocked(r, u, q)
  /\ \/ voted /\ Respond(r, 409)
     \/ ~voted /\ ~Exists(q) /\ Respond(r, 500)
     \/ /\ ~voted /\ Exists(q)
        /\ trans' = [trans EXCEPT ![r].track = {TrackingRow(r)}]
        /\ pc' = [pc EXCEPT ![r] = "insert_user_answers"]
        /\ UNCHANGED reply
  /\ UNCHANGED <<tables, call, record_consent>>

\* A form of InsertUserAnswers whose 400 path answers without the rollback, so
\* that the tracking row is committed.
InsertUserAnswersNoRollback(r) ==
  /\ pc[r] = "insert_user_answers"
  /\ call[r].option \notin answer_options \cap OptionsOf[call[r].question]
  /\ question_user' = question_user \cup trans[r].track
  /\ Respond(r, 400)
  /\ UNCHANGED <<users, status, special, answer_options, user_answers, call,
                 record_consent>>

\* INSERT INTO user_answers ... WHERE EXISTS: 400 when the option is not one of
\* the question's.
InsertUserAnswers(r) ==
  LET valid == call[r].option \in answer_options \cap OptionsOf[call[r].question] IN
  /\ pc[r] = "insert_user_answers"
  /\ \/ ~valid /\ Respond(r, 400)
     \/ /\ valid
        /\ trans' = [trans EXCEPT ![r].record = {AnswerRow(r)}]
        /\ pc' = [pc EXCEPT ![r] = "commit"]
        /\ UNCHANGED reply
  /\ UNCHANGED <<tables, call, record_consent>>

-----------------------------------------------------------------------------
(* deleteAnswer *)

DeleteStatus(r) ==
  /\ pc[r] = "delete_status" /\ ConnectionFree
  /\ \/ status[call[r].question] # "approved" /\ Respond(r, 404)
     \/ status[call[r].question] = "approved" /\ Goto(r, "new_transaction")
  /\ UNCHANGED <<tables, call, record_consent>>

\* A form of DeleteUserAnswers that leaves the answer in place.
DeleteUserAnswersNone(r) ==
  /\ pc[r] = "delete_user_answers"
  /\ Goto(r, "delete_question_user")
  /\ UNCHANGED <<tables, call, record_consent>>

\* DELETE FROM user_answers WHERE question_id = $1: every row of the question,
\* whoever gave the answer.
DeleteUserAnswers(r) ==
  LET rows == RowsOf(user_answers, call[r].question) IN
  /\ pc[r] = "delete_user_answers"
  /\ \A s \in Requests \ {r} : trans[s].erase \cap rows = {}
  /\ trans' = [trans EXCEPT ![r].erase = rows]
  /\ pc' = [pc EXCEPT ![r] = "delete_question_user"]
  /\ UNCHANGED <<tables, call, record_consent, reply>>

\* A form of DeleteQuestionUser that forgets to answer when there was no row.
DeleteQuestionUserSilent(r) ==
  LET mine == {t \in question_user : SameVoter(t, call[r].user, call[r].question)} IN
  /\ pc[r] = "delete_question_user"
  /\ mine # {}
  /\ trans' = [trans EXCEPT ![r].untrack = mine]
  /\ pc' = [pc EXCEPT ![r] = "commit"]
  /\ UNCHANGED <<tables, call, record_consent, reply>>

\* DELETE FROM question_user: 404 when the user has no row.
DeleteQuestionUser(r) ==
  LET u == call[r].user
      q == call[r].question
      mine == {t \in question_user : SameVoter(t, u, q)} IN
  /\ pc[r] = "delete_question_user" /\ ~VoterLocked(r, u, q)
  /\ \/ mine = {} /\ Respond(r, 404)
     \/ /\ mine # {}
        /\ trans' = [trans EXCEPT ![r].untrack = mine]
        /\ pc' = [pc EXCEPT ![r] = "commit"]
        /\ UNCHANGED reply
  /\ UNCHANGED <<tables, call, record_consent>>

-----------------------------------------------------------------------------
(* submitQuestion *)

\* INSERT INTO questions: the sequence draws an id even if the insert fails on
\* the foreign key of a submitter who is gone.
InsertQuestion(r) ==
  /\ pc[r] = "insert_question"
  /\ \E q \in Questions :
       /\ status[q] = "undrawn"
       /\ status' = [status EXCEPT ![q] = "absent"]
       /\ \/ call[r].user \notin users /\ Respond(r, 500)
          \/ /\ call[r].user \in users
             /\ trans' = [trans EXCEPT ![r].questions = {q}]
             /\ pc' = [pc EXCEPT ![r] = "insert_options"]
             /\ UNCHANGED reply
  /\ UNCHANGED <<users, special, answer_options, question_user, user_answers,
                 call, record_consent>>

\* A form of InsertOptions that inserts only some of the options.
InsertOptionsPartly(r) ==
  /\ pc[r] = "insert_options"
  /\ \E some \in SUBSET UNION {OptionsOf[q] : q \in trans[r].questions} :
        trans' = [trans EXCEPT ![r].options = some]
  /\ pc' = [pc EXCEPT ![r] = "commit"]
  /\ UNCHANGED <<tables, call, record_consent, reply>>

\* One multi-row INSERT of all the options.
InsertOptions(r) ==
  /\ pc[r] = "insert_options"
  /\ trans' = [trans EXCEPT ![r].options =
                 UNION {OptionsOf[q] : q \in trans[r].questions}]
  /\ pc' = [pc EXCEPT ![r] = "commit"]
  /\ UNCHANGED <<tables, call, record_consent, reply>>

-----------------------------------------------------------------------------
(* The end of a transaction *)

\* What COMMIT makes visible at once.
ApplyTrans(r) ==
  /\ status' = [q \in Questions |->
                  IF q \in trans[r].questions THEN "pending" ELSE status[q]]
  /\ answer_options' = answer_options \cup trans[r].options
  /\ question_user' = (question_user \ trans[r].untrack) \cup trans[r].track
  /\ user_answers' = (user_answers \ trans[r].erase) \cup trans[r].record
  /\ UNCHANGED <<users, special, call, record_consent>>

CommitCode(r) == IF call[r].op = "deleteAnswer" THEN 200 ELSE 201

Commit(r) ==
  /\ pc[r] = "commit"
  /\ ApplyTrans(r)
  /\ Respond(r, CommitCode(r))

\* COMMIT fails: the commit callback ignores its argument and answers as if the
\* rows were stored.
CommitFails(r) ==
  /\ pc[r] = "commit"
  /\ Respond(r, CommitCode(r))
  /\ UNCHANGED <<tables, call, record_consent>>

\* The commit lands but the answer does not reach the client.
CommitUnacknowledged(r) ==
  /\ pc[r] = "commit"
  /\ ApplyTrans(r)
  /\ pc' = [pc EXCEPT ![r] = "lost"]
  /\ trans' = [trans EXCEPT ![r] = NoTrans]
  /\ UNCHANGED reply

\* A statement, or opening the transaction, raises DrogonDbException: 500.
StatementFails(r) ==
  /\ pc[r] \in (InTrans \cup Waiting) \ {"commit"}
  /\ Respond(r, 500)
  /\ UNCHANGED <<tables, call, record_consent>>

-----------------------------------------------------------------------------
(* Requests of a single statement *)

\* approveQuestion: UPDATE ... WHERE id = $1, whatever the status was; 500 when
\* the admin's account is gone (foreign key of reviewed_by).
Approve(r) ==
  LET q == call[r].question IN
  /\ pc[r] = "statement" /\ call[r].op = "approve" /\ ConnectionFree
  /\ \/ ~Exists(q) /\ Respond(r, 404) /\ UNCHANGED <<status, special>>
     \/ /\ Exists(q) /\ call[r].user \notin users
        /\ Respond(r, 500)
        /\ UNCHANGED <<status, special>>
     \/ /\ Exists(q) /\ call[r].user \in users
        /\ status' = [status EXCEPT ![q] = "approved"]
        /\ special' = [special EXCEPT ![q] = call[r].special]
        /\ Respond(r, 200)
  /\ UNCHANGED <<users, answer_options, question_user, user_answers, call,
                 record_consent>>

\* rejectQuestion: likewise unconditional on the status.
Reject(r) ==
  LET q == call[r].question IN
  /\ pc[r] = "statement" /\ call[r].op = "reject" /\ ConnectionFree
  /\ \/ ~Exists(q) /\ Respond(r, 404) /\ UNCHANGED status
     \/ Exists(q) /\ call[r].user \notin users /\ Respond(r, 500) /\ UNCHANGED status
     \/ /\ Exists(q) /\ call[r].user \in users
        /\ status' = [status EXCEPT ![q] = "rejected"]
        /\ Respond(r, 200)
  /\ UNCHANGED <<users, special, answer_options, question_user, user_answers,
                 call, record_consent>>

DeleteQuestion(r) ==
  LET q == call[r].question IN
  /\ pc[r] = "statement" /\ call[r].op = "deleteQuestion" /\ ConnectionFree
  /\ \/ ~Exists(q) /\ Respond(r, 404) /\ UNCHANGED tables
     \/ /\ Exists(q) /\ ~QuestionLocked(q)
        /\ RemoveQuestions({q})
        /\ Respond(r, 200)
        /\ UNCHANGED users
  /\ UNCHANGED <<call, record_consent>>

\* delete_user: the votes stay (question_user has no foreign key to users).  An
\* uncommitted submission of the account holds a lock on its row.
DeleteUser(r) ==
  LET u == call[r].user IN
  /\ pc[r] = "statement" /\ call[r].op = "deleteUser" /\ ConnectionFree
  /\ \/ u \notin users /\ Respond(r, 404) /\ UNCHANGED users
     \/ /\ u \in users
        /\ \A s \in Requests : trans[s].questions # {} => call[s].user # u
        /\ users' = users \ {u}
        /\ Respond(r, 204)
  /\ UNCHANGED <<status, special, answer_options, question_user, user_answers,
                 call, record_consent>>

-----------------------------------------------------------------------------
(* The environment *)

\* The maintenance job deletes rejected questions past their retention, in a
\* session of its own.
Purge ==
  /\ \E gone \in SUBSET {q \in Questions : status[q] = "rejected"} :
       /\ gone # {}
       /\ \A q \in gone : ~QuestionLocked(q)
       /\ RemoveQuestions(gone)
  /\ UNCHANGED <<users, pc, call, record_consent, trans, reply>>

InFlight(r) == pc[r] \in InTrans \cup Waiting

\* The backend process dies: PostgreSQL rolls back, the clients get no answer.
Crash ==
  /\ \E r \in Requests : InFlight(r)
  /\ pc' = [r \in Requests |-> IF InFlight(r) THEN "lost" ELSE pc[r]]
  /\ trans' = [r \in Requests |-> NoTrans]
  /\ UNCHANGED <<tables, call, record_consent, reply>>

\* Every request has been served; there are no others (bound: Requests).
Finished ==
  /\ \A r \in Requests : pc[r] \in Ended
  /\ UNCHANGED vars

\* The steps a request makes when nothing fails.
Serve(r) ==
  \/ AnswerProfile(r) \/ AnswerStatus(r) \/ Begin(r)
  \/ InsertQuestionUser(r) \/ InsertUserAnswers(r)
  \/ DeleteStatus(r) \/ DeleteUserAnswers(r) \/ DeleteQuestionUser(r)
  \/ InsertQuestion(r) \/ InsertOptions(r) \/ Commit(r)
  \/ Approve(r) \/ Reject(r) \/ DeleteQuestion(r) \/ DeleteUser(r)

Disturb(r) == CommitFails(r) \/ CommitUnacknowledged(r) \/ StatementFails(r)

Next ==
  \/ \E r \in Requests : Arrive(r) \/ Serve(r) \/ Disturb(r)
  \/ Purge
  \/ Crash
  \/ Finished

Spec == Init /\ [][Next]_vars

\* drogon keeps waiting statements and transactions in queues and runs the next
\* one when a connection is returned, so no request is overlooked for ever.
Fairness == \A r \in Requests : WF_vars(Serve(r))
FairSpec == Spec /\ Fairness

-----------------------------------------------------------------------------
(* Safety *)

\* A user has at most one tracking row per question, whatever interleaving of
\* requests, failed statement, crash or lost answer produced the tables.
OneTrackingRow ==
  \A s, t \in question_user : SameVoter(s, t.user, t.question) => s = t

\* Every counted answer is backed by the tracking row its own request wrote, so
\* the voter is kept from answering again: the two inserts are atomic, and so
\* are the two deletes.
AnswersTracked ==
  \A a \in user_answers : \E t \in question_user :
     t.req = a.req /\ SameVoter(t, a.user, a.question)

\* No user is counted twice on a question.
OneAnswerPerUser ==
  \A a, b \in user_answers : SameVoter(a, b.user, b.question) => a = b

\* submitQuestion leaves no partial record: a question that can be seen has all
\* the options it was submitted with, and no option outlives its question.
SubmissionsWhole ==
  answer_options = UNION {OptionsOf[q] : q \in {p \in Questions : Exists(p)}}

\* Votes are only held on questions an admin has reviewed, and never on one that
\* is gone, although the status is read before the transaction.
NoVoteBeforeReview ==
  \A t \in question_user : status[t.question] \in {"approved", "rejected"}

\* consent_given_at is only set for a user whose request carried the consent.
ConsentWasGiven ==
  \A t \in question_user : t.consent => call[t.req].consent

\* A request that was answered with an error, or not yet, has left no row: its
\* voter may try again.
ErrorsLeaveNoTrace ==
  \A row \in question_user \cup user_answers :
     reply[row.req] = 201 \/ pc[row.req] = "lost"

\* Every request is answered, unless the process dies.
EveryRequestEnds ==
  \A r \in Requests : InFlight(r) ~> pc[r] \in Ended

\* What a request waits for: a connection, or the end of a transaction that has
\* written a row its statement is about to write, or that such a row refers to.
Blocked(r) ==
  LET u == call[r].user
      q == call[r].question IN
  \/ pc[r] \in Waiting /\ ~ConnectionFree
  \/ pc[r] \in {"insert_question_user", "delete_question_user"} /\ VoterLocked(r, u, q)
  \/ /\ pc[r] = "delete_user_answers"
     /\ \E s \in Requests \ {r} : trans[s].erase \cap RowsOf(user_answers, q) # {}
  \/ /\ pc[r] = "statement" /\ call[r].op = "deleteQuestion"
     /\ Exists(q) /\ QuestionLocked(q)
  \/ /\ pc[r] = "statement" /\ call[r].op = "deleteUser" /\ u \in users
     /\ \E s \in Requests : trans[s].questions # {} /\ call[s].user = u

\* Transactions that hold row locks and the pool's connections never wait in a
\* circle: while any request is served, one is not waiting for another.
NoStandstill ==
  (\E r \in Requests : InFlight(r)) => \E r \in Requests : InFlight(r) /\ ~Blocked(r)

\* The tables implement the abstract ballots.
Abstract == INSTANCE Ballots WITH
  voted <- {<<t.user, t.question>> : t \in question_user},
  ballots <- user_answers
ImplementsBallots == Abstract!Spec

-----------------------------------------------------------------------------
(* Statements of the documentation that the code does not keep *)

\* Whoever is marked as having answered has an answer that counts: the API
\* document lets a user delete "the authenticated user's answer", not others'.
OthersKeepAnswers ==
  \A t \in question_user : \E a \in user_answers : SameVoter(a, t.user, t.question)

\* "Only approved questions can be answered".
OnlyApprovedAnswered ==
  [][\A t \in question_user' \ question_user : status'[t.question] = "approved"]_vars

\* 201 is answered "once the commit lands".
CreatedIsStored ==
  [][\A r \in Requests :
        (call[r].op = "answer" /\ reply[r] = 0 /\ reply'[r] = 201)
           => \E a \in user_answers' : a.req = r]_vars
=============================================================================
