------------------------------- MODULE Search -------------------------------
(***************************************************************************)
(* Reading questions while others write them: the search with and without  *)
(* an account, its unanswered-only form with the growing window, the lists *)
(* and the answer options (src/src/controllers/QuestionController.cpp).    *)
(*                                                                         *)
(* A reader runs one statement per step.  Between two of its statements    *)
(* questions are submitted, reviewed and deleted, answers are given and    *)
(* withdrawn, and accounts go: each change is the effect of one committed  *)
(* statement or transaction of Voting.  In question_user a voter is a      *)
(* hash, keyed with the process's secret.                                  *)
(*                                                                         *)
(* Left out: what texts, categories and languages say (a call carries the  *)
(* questions its topic filters match, with which text), the columns that   *)
(* only pass through, and the pool: every reader frees its connection      *)
(* between statements.                                                     *)
(***************************************************************************)
EXTENDS Access, FiniteSets, Sequences

CONSTANTS Questions,      \* ids of table questions
          NoUser,         \* submitted_by IS NULL
          Keys,           \* secrets UserIdHasher may be keyed with
          Texts,          \* wordings of a question
          FirstText,      \* the one it is inserted with
          Created,        \* created_at of each question
          Translated,     \* questions whose category exists in their language
          Seeded,         \* questions that exist, approved, from the start
          SeededAge,      \* min_age of each question before it is reviewed
          Ages,           \* values of min_age and of the filter age
          NoAge,          \* the filter is absent
          DefaultLimit, MaxLimit,   \* 50 and 1000
          MinWindow, MaxWindow,     \* kMinUnansweredWindow, kMaxUnansweredWindow
          MaxInt,         \* the largest int of the platform
          Requests,       \* HTTP requests, each served once
          Calls,          \* what requests may ask for
          Changes,        \* the changes others may make
          MaxChanges      \* bound: how many of them

ASSUME SearchAssumption ==
  /\ IsFiniteSet(Questions)
  /\ NoUser \notin Users
  /\ FirstText \in Texts
  /\ Created \in [Questions -> Int]
  /\ Ages \subseteq Int /\ 0 \in Ages
  /\ DefaultLimit \in Nat /\ MaxLimit \in Nat /\ DefaultLimit \in 1..MaxLimit
  /\ MinWindow \in Nat /\ MaxWindow \in Nat /\ MaxInt \in Nat
  /\ 1 <= MinWindow /\ MinWindow <= MaxWindow /\ MaxWindow <= MaxInt
  /\ MaxWindow + MaxLimit <= MaxInt
  /\ Seeded \subseteq Questions
  /\ SeededAge \in [Questions -> Ages]
  /\ MaxChanges \in Nat

VARIABLES
  status,         \* questions.submission_status, or that there is no row
  min_age,        \* questions.min_age
  text,           \* questions.text
  submitted_by,   \* questions.submitted_by
  question_user,  \* tracking rows: question, and the hash of voter and key
  key,            \* the secret of the running process
  changes,        \* how many changes others have made
  pc,             \* the statement a request sends next
  call,           \* what a request asks for
  window,         \* the LIMIT of an unanswered search's next query
  rows,           \* the rows a request has read and not answered with yet
  page,           \* the questions a request has been answered with
  answered,       \* those of them flagged as answered
  reply,          \* status code, 0 before
  permitted,      \* history: what the caller was allowed to see at some moment
  kept,           \* history: what the caller had answered all the time
  touched,        \* history: what the caller had answered at some moment
  calm            \* history: nothing has changed since the request arrived

tables == <<status, min_age, text, submitted_by, question_user, key, changes>>
history == <<permitted, kept, touched, calm>>
vars == <<tables, pc, call, window, rows, page, answered, reply, history>>

Statuses == {"undrawn", "pending", "approved", "rejected", "gone"}
Searches == {"search", "searchWithAuth", "unanswered"}
Lists == {"get", "getOne", "withCategories", "searchQuestions", "byLanguage",
          "mine", "submissions"}
OptionReads == {"options", "optionsWithAuth", "adminOptions"}

\* A call: the operation, the caller, the question named in the path, the
\* questions the topic filters match while they have a text, and the values of
\* age, offset and limit.
CallType ==
  [op : Searches \cup Lists \cup OptionReads, cred : Credentials,
   question : Questions, match : SUBSET (Questions \X Texts), age : Ages \cup {NoAge},
   offset : Int, limit : Int]
ASSUME CallsAssumption == Calls \subseteq CallType
NoCall == [op |-> "none"]

Row == [question : Questions, user : Users, key : Keys]
Waiting == {"select", "answered", "options"}
Ended == {"done", "failed", "lost"}

TypeOK ==
  /\ status \in [Questions -> Statuses]
  /\ min_age \in [Questions -> Ages]
  /\ text \in [Questions -> Texts]
  /\ submitted_by \in [Questions -> Users \cup {NoUser}]
  /\ question_user \subseteq Row
  /\ key \in Keys
  /\ changes \in 0..MaxChanges
  /\ pc \in [Requests -> Waiting \cup Ended \cup {"new"}]
  /\ call \in [Requests -> Calls \cup {NoCall}]
  /\ window \in [Requests -> 0..MaxWindow]
  /\ rows \in [Requests -> Seq(Questions)]
  /\ page \in [Requests -> SUBSET Questions]
  /\ answered \in [Requests -> SUBSET Questions]
  /\ reply \in [Requests -> {0, 200, 401, 403, 404, 423, 500}]
  /\ permitted \in [Requests -> SUBSET Questions]
  /\ kept \in [Requests -> SUBSET Questions]
  /\ touched \in [Requests -> SUBSET Questions]
  /\ calm \in [Requests -> BOOLEAN]

-----------------------------------------------------------------------------
(* Parameters of a search *)

Least(a, b) == IF a <= b THEN a ELSE b

\* parseSearchRequest.  A value that is no int is as good as a missing one, and
\* -1 stands for both.
Offset(c) == IF c.offset < 0 THEN 0 ELSE c.offset
Limit(c) == IF c.limit < 0 THEN DefaultLimit ELSE Least(c.limit, MaxLimit)

\* Without an age the public search takes 0, the others do not filter.
Age(c) == IF c.op = "search" /\ c.age = NoAge THEN 0 ELSE c.age

\* The WHERE clause, for a question with this status and minimum age.
Matches(c, q) ==
  /\ status[q] = "approved"
  /\ <<q, text[q]>> \in c.match
  /\ Age(c) # NoAge => min_age[q] <= Age(c)

\* ORDER BY created_at DESC: rows of one moment come in any order.
Sorted(S) ==
  {s \in [1..Cardinality(S) -> S] :
     \A i, j \in 1..Cardinality(S) :
        i < j => s[i] # s[j] /\ Created[s[i]] >= Created[s[j]]}

\* OFFSET and LIMIT; a limit of 0 is none.
Cut(s, offset, limit) ==
  SubSeq(s, offset + 1, IF limit = 0 THEN Len(s) ELSE Least(offset + limit, Len(s)))

Elements(s) == {s[i] : i \in 1..Len(s)}

-----------------------------------------------------------------------------
(* What callers may see and what they have answered *)

Caller(c) == c.cred.sub

\* Approved questions are visible to everybody, submissions to the administrators
\* and to the account that submitted them.
Visible(c, q) ==
  /\ status[q] \notin {"undrawn", "gone"}
  /\ \/ status[q] = "approved"
     \/ c.op \in AdminOnly /\ {"is_active", "is_admin"} \subseteq c.cred.claims
     \/ c.op \in {"optionsWithAuth", "mine"} /\ submitted_by[q] = Caller(c)

Permitted(c) ==
  {q \in Questions : IF c.op \in Searches THEN Matches(c, q) ELSE Visible(c, q)}

\* UserIdHasher::hash is injective on its message for a given key.
Hash(u, q, k) == [question |-> q, user |-> u, key |-> k]

Answered(c) == {q \in Questions : Hash(Caller(c), q, key) \in question_user}

Goto(r, label) == pc' = [pc EXCEPT ![r] = label]
Respond(r, code) == /\ Goto(r, "done")
                    /\ reply' = [reply EXCEPT ![r] = code]

\* The answer lists the questions of S, those in F with the flag answered.
Show(r, S, F) == /\ Respond(r, 200)
                 /\ page' = [page EXCEPT ![r] = S]
                 /\ answered' = [answered EXCEPT ![r] = F]

\* A row whose category has no name in its language makes the whole search 500.
ShowOr500(r, converted, S, F) ==
  \/ converted \subseteq Translated /\ Show(r, S, F)
  \/ ~(converted \subseteq Translated) /\ Respond(r, 500) /\ UNCHANGED <<page, answered>>

-----------------------------------------------------------------------------
Init ==
  /\ status = [q \in Questions |-> IF q \in Seeded THEN "approved" ELSE "undrawn"]
  /\ min_age = SeededAge
  /\ text = [q \in Questions |-> FirstText]
  /\ submitted_by = [q \in Questions |-> NoUser]
  /\ question_user = {}
  /\ key \in Keys
  /\ changes = 0
  /\ pc = [r \in Requests |-> "new"]
  /\ call = [r \in Requests |-> NoCall]
  /\ window = [r \in Requests |-> 0]
  /\ rows = [r \in Requests |-> <<>>]
  /\ page = [r \in Requests |-> {}]
  /\ answered = [r \in Requests |-> {}]
  /\ reply = [r \in Requests |-> 0]
  /\ permitted = [r \in Requests |-> {}]
  /\ kept = [r \in Requests |-> {}]
  /\ touched = [r \in Requests |-> {}]
  /\ calm = [r \in Requests |-> TRUE]

\* Rows needed to serve the page.  offset + limit may overflow an int, which
\* the build may wrap or not.
Required(c) ==
  LET sum == Offset(c) + Limit(c) IN
  IF Limit(c) = 0 THEN {MaxWindow}
  ELSE IF sum <= MaxInt THEN {sum} ELSE {sum, sum - 2 * (MaxInt + 1)}

Clamp(n) == IF n < MinWindow THEN MinWindow ELSE Least(n, MaxWindow)

\* The filter answers, or the handler parses the body and sends its statement.
Arrive(r) ==
  /\ pc[r] = "new"
  /\ \E c \in Calls :
       /\ call' = [call EXCEPT ![r] = c]
       /\ permitted' = [permitted EXCEPT ![r] = Permitted(c)]
       /\ kept' = [kept EXCEPT ![r] = Answered(c)]
       /\ touched' = [touched EXCEPT ![r] = Answered(c)]
       /\ \/ /\ Refusal(c.op, c.cred) # 0
             /\ Respond(r, Refusal(c.op, c.cred))
             /\ UNCHANGED window
          \/ /\ Refusal(c.op, c.cred) = 0
             /\ Goto(r, "select")
             /\ \E n \in Required(c) : window' = [window EXCEPT ![r] = Clamp(n)]
             /\ UNCHANGED reply
  /\ calm' = [calm EXCEPT ![r] = TRUE]
  /\ UNCHANGED <<tables, rows, page, answered>>

-----------------------------------------------------------------------------
(* The lists: one statement each *)

Approved == {q \in Questions : status[q] = "approved"}

\* get: ordered by any columns the client names, then cut to a page.  Unlike
\* the search it has no largest limit.
Get(r) ==
  LET c == call[r]
      left == Cardinality(Approved) - (IF c.offset < 0 THEN 0 ELSE c.offset)
      size == IF c.limit <= 0 THEN left ELSE Least(c.limit, left) IN
  /\ pc[r] = "select" /\ c.op = "get"
  /\ \E S \in SUBSET Approved :
       /\ Cardinality(S) = (IF size < 0 THEN 0 ELSE size)
       /\ Show(r, S, {})
  /\ UNCHANGED <<tables, call, window, rows, history>>

GetOne(r) ==
  LET q == call[r].question IN
  /\ pc[r] = "select" /\ call[r].op = "getOne"
  /\ \/ status[q] = "approved" /\ Show(r, {q}, {})
     \/ status[q] # "approved" /\ Respond(r, 404) /\ UNCHANGED <<page, answered>>
  /\ UNCHANGED <<tables, call, window, rows, history>>

\* Joined to the category by its id alone: a category of another language does.
WithCategories(r) ==
  /\ pc[r] = "select" /\ call[r].op = "withCategories"
  /\ Show(r, Approved, {})
  /\ UNCHANGED <<tables, call, window, rows, history>>

SearchQuestions(r) ==
  /\ pc[r] = "select" /\ call[r].op = "searchQuestions"
  /\ Show(r, {q \in Approved : <<q, text[q]>> \in call[r].match}, {})
  /\ UNCHANGED <<tables, call, window, rows, history>>

ByLanguage(r) ==
  /\ pc[r] = "select" /\ call[r].op = "byLanguage"
  /\ Show(r, {q \in Approved : <<q, text[q]>> \in call[r].match}, {})
  /\ UNCHANGED <<tables, call, window, rows, history>>

GetMySubmissions(r) ==
  /\ pc[r] = "select" /\ call[r].op = "mine"
  /\ Show(r, {q \in Questions : submitted_by[q] = Caller(call[r])
                                  /\ status[q] \notin {"undrawn", "gone"}}, {})
  /\ UNCHANGED <<tables, call, window, rows, history>>

\* ?status=pending or rejected, or everything that is not approved.
ListSubmissions(r) ==
  /\ pc[r] = "select" /\ call[r].op = "submissions"
  /\ \E filter \in {{"pending"}, {"rejected"}, {"pending", "rejected"}} :
       Show(r, {q \in Questions : status[q] \in filter}, {})
  /\ UNCHANGED <<tables, call, window, rows, history>>

-----------------------------------------------------------------------------
(* Answer options: the question is looked up, then its options *)

Lookup(r, found) ==
  /\ pc[r] = "select"
  /\ \/ found /\ Goto(r, "options") /\ UNCHANGED reply
     \/ ~found /\ Respond(r, 404)
  /\ UNCHANGED <<tables, call, window, rows, page, answered, history>>

GetAnswerOptions(r) ==
  call[r].op = "options" /\ Lookup(r, status[call[r].question] = "approved")

\* A form of GetAnswerOptionsWithAuth that takes any account for the owner.
GetAnswerOptionsUnowned(r) ==
  /\ call[r].op = "optionsWithAuth"
  /\ Lookup(r, status[call[r].question] \notin {"undrawn", "gone"})

\* The submitter sees the options of a question that is not approved.
GetAnswerOptionsWithAuth(r) ==
  LET q == call[r].question IN
  /\ call[r].op = "optionsWithAuth"
  /\ Lookup(r, /\ status[q] \notin {"undrawn", "gone"}
               /\ status[q] = "approved" \/ submitted_by[q] = Caller(call[r]))

\* A form of GetAdminAnswerOptions that does not look for the question first.
GetAdminAnswerOptionsBlind(r) ==
  call[r].op = "adminOptions" /\ Lookup(r, TRUE)

GetAdminAnswerOptions(r) ==
  /\ call[r].op = "adminOptions"
  /\ Lookup(r, status[call[r].question] \notin {"undrawn", "gone"})

\* Every question has options; they go with it (ON DELETE CASCADE).
SelectOptions(r) ==
  LET q == call[r].question IN
  /\ pc[r] = "options"
  /\ Show(r, {p \in {q} : status[p] \notin {"undrawn", "gone"}}, {})
  /\ UNCHANGED <<tables, call, window, rows, history>>

-----------------------------------------------------------------------------
(* The search *)

\* The page of rows the query of a search returns.
Found(c) ==
  {Cut(s, Offset(c), Limit(c)) : s \in Sorted({q \in Questions : Matches(c, q)})}

RestSearch(r) ==
  /\ pc[r] = "select" /\ call[r].op = "search"
  /\ \E s \in Found(call[r]) : ShowOr500(r, Elements(s), Elements(s), {})
  /\ UNCHANGED <<tables, call, window, rows, history>>

\* Rows are kept for the second query, which is not sent for an empty page.
RestSearchWithAuth(r) ==
  /\ pc[r] = "select" /\ call[r].op = "searchWithAuth"
  /\ \E s \in Found(call[r]) :
       \/ /\ s = <<>>
          /\ Show(r, {}, {})
          /\ UNCHANGED rows
       \/ /\ s # <<>>
          /\ rows' = [rows EXCEPT ![r] = s]
          /\ Goto(r, "answered")
          /\ UNCHANGED <<page, answered, reply>>
  /\ UNCHANGED <<tables, call, window, history>>

\* A form of AnsweredIds that asks for the voter of any question.
AnsweredIdsAny(r) == Elements(rows[r]) \cap {t.question : t \in question_user}

\* fetchAnsweredIds: which of the rows' questions have the caller's hash.
AnsweredIds(r) == Elements(rows[r]) \cap Answered(call[r])

FlagAnswered(r) ==
  LET S == Elements(rows[r]) IN
  /\ pc[r] = "answered" /\ call[r].op = "searchWithAuth"
  /\ ShowOr500(r, S, S, AnsweredIds(r))
  /\ UNCHANGED <<tables, call, window, rows, history>>

\* The unanswered search always reads from the start.  The answered ids of no
\* rows are none: the result is exhausted and the page is empty.
SelectWindow(r) ==
  /\ pc[r] = "select" /\ call[r].op = "unanswered"
  /\ \E s \in Sorted({q \in Questions : Matches(call[r], q)}) :
       \/ /\ s = <<>>
          /\ Show(r, {}, {})
          /\ UNCHANGED rows
       \/ /\ s # <<>>
          /\ rows' = [rows EXCEPT ![r] = Cut(s, 0, window[r])]
          /\ Goto(r, "answered")
          /\ UNCHANGED <<page, answered, reply>>
  /\ UNCHANGED <<tables, call, window, history>>

\* The rows up to position i that are not answered.
Rank(s, F, i) == Cardinality({j \in 1..i : s[j] \notin F})

\* A form of Remaining that lets answered rows count towards the offset.
RemainingCounted(s, F, from, to) ==
  {s[i] : i \in {j \in 1..Len(s) : s[j] \notin F /\ from < j /\ j <= to}}

\* A form of Remaining that forgets to leave the answered rows out.
RemainingAll(s, F, from, to) ==
  {s[i] : i \in {j \in 1..Len(s) : from < Rank(s, F, j) /\ Rank(s, F, j) <= to}}

\* The unanswered rows from rank "from" + 1 to rank "to".
Remaining(s, F, from, to) ==
  {s[i] : i \in {j \in 1..Len(s) : /\ s[j] \notin F
                                   /\ from < Rank(s, F, j) /\ Rank(s, F, j) <= to}}

\* The page holds enough rows, or no wider window can bring more.
Enough(r, F, required) ==
  \/ Len(rows[r]) - Cardinality(F) >= required
  \/ Len(rows[r]) < window[r]
  \/ window[r] >= MaxWindow

\* Forms of Widened that read the same window again, or pass the largest.
WidenedNot(n) == n
WidenedOver(n) == 2 * n

Widened(n) == Least(2 * n, MaxWindow)

\* The row after the last of the page is converted before the loop ends.
AnswerWindow(r) ==
  LET c == call[r]
      F == AnsweredIds(r)
      last == IF Limit(c) = 0 THEN Len(rows[r]) ELSE Offset(c) + Limit(c) IN
  /\ pc[r] = "answered" /\ c.op = "unanswered"
  /\ \E n \in Required(c) :
       \/ /\ Enough(r, F, n)
          /\ ShowOr500(r, Remaining(rows[r], F, 0, last + 1),
                          Remaining(rows[r], F, Offset(c), last), {})
          /\ UNCHANGED window
       \/ /\ ~Enough(r, F, n)
          /\ window' = [window EXCEPT ![r] = Widened(window[r])]
          /\ Goto(r, "select")
          /\ UNCHANGED <<page, answered, reply>>
  /\ UNCHANGED <<tables, call, rows, history>>

\* A statement raises DrogonDbException.
StatementFails(r) ==
  /\ pc[r] \in Waiting
  /\ Goto(r, "failed")
  /\ reply' = [reply EXCEPT ![r] = 500]
  /\ UNCHANGED <<tables, call, window, rows, page, answered, history>>

-----------------------------------------------------------------------------
(* What others do meanwhile, one committed change at a time *)

InFlight(r) == pc[r] \in Waiting

\* The history of every request takes the change in.
Changed ==
  /\ changes < MaxChanges /\ changes' = changes + 1
  /\ permitted' = [r \in Requests |->
       IF pc[r] = "new" THEN {} ELSE permitted[r] \cup Permitted(call[r])']
  /\ kept' = [r \in Requests |->
       IF pc[r] = "new" THEN {} ELSE kept[r] \cap Answered(call[r])']
  /\ touched' = [r \in Requests |->
       IF pc[r] = "new" THEN {} ELSE touched[r] \cup Answered(call[r])']
  /\ calm' = [r \in Requests |-> FALSE]

Submit(q, u) ==
  /\ status[q] = "undrawn"
  /\ status' = [status EXCEPT ![q] = "pending"]
  /\ submitted_by' = [submitted_by EXCEPT ![q] = u]
  /\ UNCHANGED <<min_age, text, question_user, key>>

\* The administrator who approves sets the minimum age.
Approve(q, age) ==
  /\ status[q] \notin {"undrawn", "gone"}
  /\ status' = [status EXCEPT ![q] = "approved"]
  /\ min_age' = [min_age EXCEPT ![q] = age]
  /\ UNCHANGED <<text, submitted_by, question_user, key>>

Reject(q) ==
  /\ status[q] \notin {"undrawn", "gone"}
  /\ status' = [status EXCEPT ![q] = "rejected"]
  /\ UNCHANGED <<min_age, text, submitted_by, question_user, key>>

\* Whatever the status, and with the answers it has.
ChangeQuestionText(q) ==
  /\ status[q] \notin {"undrawn", "gone"}
  /\ \E t \in Texts : text' = [text EXCEPT ![q] = t]
  /\ UNCHANGED <<status, min_age, submitted_by, question_user, key>>

\* ON DELETE CASCADE takes the tracking rows along.
DeleteQuestion(q) ==
  /\ status[q] \notin {"undrawn", "gone"}
  /\ status' = [status EXCEPT ![q] = "gone"]
  /\ question_user' = {t \in question_user : t.question # q}
  /\ UNCHANGED <<min_age, text, submitted_by, key>>

\* The status was checked before the transaction began: see Voting.
Answer(q, u) ==
  /\ status[q] \notin {"undrawn", "gone"}
  /\ question_user' = question_user \cup {Hash(u, q, key)}
  /\ UNCHANGED <<status, min_age, text, submitted_by, key>>

Withdraw(q, u) ==
  /\ Hash(u, q, key) \in question_user
  /\ question_user' = question_user \ {Hash(u, q, key)}
  /\ UNCHANGED <<status, min_age, text, submitted_by, key>>

\* ON DELETE SET NULL; the tracking rows do not name the account and stay.
DeleteUser(u) ==
  /\ \E q \in Questions : submitted_by[q] = u
  /\ submitted_by' = [q \in Questions |-> IF submitted_by[q] = u THEN NoUser
                                                               ELSE submitted_by[q]]
  /\ UNCHANGED <<status, min_age, text, question_user, key>>

\* Bounds: MaxChanges, and no changes after the last request has ended.
Change ==
  /\ \E r \in Requests : pc[r] \notin Ended
  /\ \E q \in Questions, u \in Users, age \in Ages :
       \/ "submit" \in Changes /\ Submit(q, u)
       \/ "approve" \in Changes /\ Approve(q, age)
       \/ "reject" \in Changes /\ Reject(q)
       \/ "changeText" \in Changes /\ ChangeQuestionText(q)
       \/ "deleteQuestion" \in Changes /\ DeleteQuestion(q)
       \/ "answer" \in Changes /\ Answer(q, u)
       \/ "withdraw" \in Changes /\ Withdraw(q, u)
       \/ "deleteUser" \in Changes /\ DeleteUser(u)
  /\ UNCHANGED <<pc, call, window, rows, page, answered, reply>>
  /\ Changed

\* The process dies; the next one may read another secret.  Bounds: as for Change.
Restart ==
  /\ "restart" \in Changes
  /\ \E r \in Requests : pc[r] \notin Ended
  /\ key' \in Keys
  /\ pc' = [r \in Requests |-> IF InFlight(r) THEN "lost" ELSE pc[r]]
  /\ UNCHANGED <<status, min_age, text, submitted_by, question_user, call, window,
                 rows, page, answered, reply>>
  /\ Changed

\* Every request has been served; there are no others (bound: Requests).
Finished ==
  /\ \A r \in Requests : pc[r] \in Ended
  /\ UNCHANGED vars

Serve(r) ==
  \/ Get(r) \/ GetOne(r) \/ WithCategories(r) \/ SearchQuestions(r)
  \/ ByLanguage(r) \/ GetMySubmissions(r) \/ ListSubmissions(r)
  \/ GetAnswerOptions(r) \/ GetAnswerOptionsWithAuth(r) \/ GetAdminAnswerOptions(r)
  \/ SelectOptions(r)
  \/ RestSearch(r) \/ RestSearchWithAuth(r) \/ FlagAnswered(r)
  \/ SelectWindow(r) \/ AnswerWindow(r)

Next ==
  \/ \E r \in Requests : Arrive(r) \/ Serve(r) \/ StatementFails(r)
  \/ Change
  \/ Restart
  \/ Finished

Spec == Init /\ [][Next]_vars

\* Statements wait in the queue of the pool, which serves them in turn.
Fairness == \A r \in Requests : WF_vars(Serve(r))
FairSpec == Spec /\ Fairness

-----------------------------------------------------------------------------
(* Safety *)

\* Whatever is reviewed, deleted or given a minimum age between the statements of
\* a request, its answer only holds questions that its caller was allowed to see
\* at some moment since it arrived: no answer mixes one moment's permission with
\* another moment's rows (getAnswerOptionsWithAuth, executeUnansweredSearch).
ShowsVisible ==
  \A r \in Requests : page[r] \subseteq permitted[r]

\* Rows and answered ids are read by different queries, the window's rows even
\* several times.  Still a question the caller had answered all along is flagged,
\* and never listed as unanswered; one not answered at any moment is not flagged.
FlagsTrue ==
  \A r \in Requests : reply[r] = 200 =>
    /\ call[r].op = "searchWithAuth" =>
         /\ page[r] \cap kept[r] \subseteq answered[r]
         /\ answered[r] \subseteq touched[r]
    /\ call[r].op = "unanswered" => page[r] \cap kept[r] = {}

\* The sequence s without the elements of F: what is left of it at its positions P,
\* taken in increasing order.
Increasing(P) ==
  {f \in [1..Cardinality(P) -> P] : \A i, j \in 1..Cardinality(P) : i < j => f[i] < f[j]}
Left(s, F) ==
  LET P == {i \in 1..Len(s) : s[i] \notin F} IN
  {[i \in 1..Cardinality(P) |-> s[f[i]]] : f \in Increasing(P)}

\* For an order of the rows the database may return, the page holds positions
\* offset + 1 to offset + limit among the unanswered ones of the first MaxWindow.
RightPage(r) ==
  LET c == call[r] IN
  \E s \in Sorted({q \in Questions : Matches(c, q)}) :
  \E t \in Left(Cut(s, 0, MaxWindow), Answered(c)) :
     page[r] = Elements(Cut(t, Offset(c), Limit(c)))

\* With nothing changing, the growing window ends in exactly the page asked for,
\* although it starts too small for it, answered rows in between do not count, and
\* rows created at one moment may be returned in another order by each query.
PageRight ==
  \A r \in Requests :
    (reply[r] = 200 /\ call[r].op = "unanswered" /\ calm[r]) => RightPage(r)

\* A list of options comes back empty only when the question was deleted after
\* the handler had found it.
EmptyMeansDeleted ==
  \A r \in Requests :
    (reply[r] = 200 /\ call[r].op \in OptionReads /\ page[r] = {})
      => status[call[r].question] = "gone"

\* What a search may stumble over: a question its caller was allowed to see at some
\* moment and, in an unanswered search, had not answered all along.
Suspects(r) == IF call[r].op = "unanswered" THEN permitted[r] \ kept[r] ELSE permitted[r]

\* For an order of the rows the database may return, there is a question without its
\* category's name on the page asked for; in an unanswered search, which counts the
\* offset while it converts, among the first offset + limit + 1 unanswered ones.
Meets(r) ==
  LET c == call[r] IN
  IF c.op = "unanswered"
  THEN \E s \in Sorted({q \in Questions : Matches(c, q)}) :
         LET top == Cut(s, 0, MaxWindow) IN
         \E i \in 1..Len(top) :
           /\ top[i] \notin Answered(c) \cup Translated
           /\ Limit(c) = 0 \/ Rank(top, Answered(c), i) <= Offset(c) + Limit(c) + 1
  ELSE \E s \in Found(c) : ~(Elements(s) \subseteq Translated)

\* A search that fails although every statement succeeded has met a question whose
\* category does not exist in its language.  With nothing changing, that question is
\* on the page; in an unanswered search it lies before the page, on it or right behind
\* it (respondWithSearchResults converts a row before it looks at offset and limit),
\* and an answered question, which is left out, fails nobody.
ErrorsHaveCause ==
  \A r \in Requests : (reply[r] = 500 /\ pc[r] = "done") =>
    /\ call[r].op \in Searches
    /\ Suspects(r) \ Translated # {}
    /\ calm[r] => Meets(r)

\* Every request is answered, unless the process dies: the window stops growing.
EveryRequestEnds ==
  \A r \in Requests : InFlight(r) ~> pc[r] \in Ended
=============================================================================
