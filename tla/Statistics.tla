----------------------------- MODULE Statistics -----------------------------
(***************************************************************************)
(* Answers tagged with the voter's profile, and the statistics over them:  *)
(* answerQuestion, getStats and getStatsMeta of                            *)
(* src/src/controllers/QuestionController.cpp, composed with Accounts,     *)
(* whose handlers change the profiles meanwhile, and with a calendar.      *)
(*                                                                         *)
(* A visit is a request to QuestionController.  What Voting models in      *)
(* detail, the transactions that store and withdraw an answer, is one step *)
(* here; questions stay approved.  BucketSize and MinAnswers are read from *)
(* config.json on every request and do not change here.                    *)
(*                                                                         *)
(* Left out: gender and region, which are copied and filtered as the       *)
(* nationality is; the options, over which the counts are split; filter    *)
(* values that fail validation (400).                                      *)
(***************************************************************************)
EXTENDS Accounts, AgeBuckets

CONSTANTS Visits,          \* requests to QuestionController, each served once
          Questions,
          BirthYear,       \* birth_year of each account; no statement updates it
          FirstYear, LastYear,   \* bound: the calendar runs from one to the other
          BucketSize,      \* age_bucket_size
          MinAnswers,      \* stats_min_answers
          Filters,         \* the filters visits to the statistics may name
          VisitOps,        \* the operations visits may ask for
          MaxLoad          \* bound: how much is served in all

\* The age ranges clients can choose from.
Labels == age_bucket_labels(BucketSize, MaxAge)

ASSUME StatisticsAssumption ==
  /\ BirthYear \in [Ids -> Int]
  /\ FirstYear \in Int /\ LastYear \in Int /\ FirstYear <= LastYear
  /\ BucketSize \in Int /\ MinAnswers \in Int /\ MaxLoad \in Nat
  /\ Filters \subseteq [code : Known \cup {NoCode}, bucket : Labels \cup {NoBucket}]
  /\ VisitOps \subseteq {"answer", "withdraw", "stats", "meta"}

VARIABLES
  year,      \* the server's calendar
  votes,     \* rows of user_answers
  tracked,   \* rows of question_user: who has answered what
  stage,     \* the statement a visit sends next
  ask,       \* what a visit asks for
  tags,      \* the tags an answer in progress will be stored with
  result,    \* what a visit to the statistics has been answered with
  held,      \* history: nationalities the caller's row had during the visit
  years      \* history: years during the visit

voteVars == <<year, votes, tracked, stage, ask, tags, result, held, years>>
vars == <<accountVars, voteVars>>

Bucket == Int \X Int

\* As a filter NoCode and NoBucket mean that the parameter is absent.
Tags == [code : Known \cup {NoCode}, bucket : Bucket]
NoTags == [code |-> NoCode, bucket |-> NoBucket]
Vote == [visit : Visits, question : Questions, code : Known \cup {NoCode},
         bucket : Bucket]

Asks ==
  [op : {"answer", "withdraw"}, id : Ids, question : Questions]
    \cup [op : {"stats"}, question : Questions, filter : Filters]
    \cup [op : {"meta"}]
NoAsk == [op |-> "none"]
Nothing == [status |-> "none", votes |-> {}, codes |-> {}]

Stages == {"new", "select", "insert", "done", "failed", "lost"}
Waits(v) == stage[v] \in {"select", "insert"}

TypeOK ==
  /\ AccountsTypeOK
  /\ year \in FirstYear..LastYear
  /\ votes \subseteq Vote
  /\ tracked \subseteq Ids \X Questions
  /\ stage \in [Visits -> Stages]
  /\ ask \in [Visits -> Asks \cup {NoAsk}]
  /\ tags \in [Visits -> Tags]
  /\ result \in [Visits -> [status : {"none", "ok", "insufficient_data", "meta"},
                            votes : SUBSET Vote, codes : SUBSET Known]]
  /\ held \in [Visits -> SUBSET (Known \cup {NoCode})]
  /\ years \in [Visits -> SUBSET (FirstYear..LastYear)]

-----------------------------------------------------------------------------
Init ==
  /\ AccountsInit
  /\ year = FirstYear
  /\ votes = {}
  /\ tracked = {}
  /\ stage = [v \in Visits |-> "new"]
  /\ ask = [v \in Visits |-> NoAsk]
  /\ tags = [v \in Visits |-> NoTags]
  /\ result = [v \in Visits |-> Nothing]
  /\ held = [v \in Visits |-> {}]
  /\ years = [v \in Visits |-> {}]

Move(v, to) == stage' = [stage EXCEPT ![v] = to]

CodesOf(id) == {users[i].code : i \in {j \in {id} : Exists(j)}}

\* The bound on arrivals: a request to accounts counts twice, a visit once.
Load == 2 * Cardinality({r \in Requests : pc[r] # "new"})
          + Cardinality({v \in Visits : stage[v] # "new"})

ArriveVisit(v) ==
  /\ stage[v] = "new" /\ Load + 1 <= MaxLoad
  /\ \E a \in Asks :
       /\ a.op \in VisitOps
       /\ a.op \in {"answer", "withdraw"} => a.id \in Subjects
       /\ ask' = [ask EXCEPT ![v] = a]
       /\ held' = [held EXCEPT ![v] = IF a.op = "answer" THEN CodesOf(a.id) ELSE {}]
       /\ years' = [years EXCEPT ![v] = IF a.op = "answer" THEN {year} ELSE {}]
  /\ Move(v, "select")
  /\ UNCHANGED <<accountVars, year, votes, tracked, tags, result>>

\* A form of TagsOf that reads the row of some account.
TagsOfSome(id) ==
  [code |-> users[CHOOSE i \in Ids : Exists(i)].code,
   bucket |-> bucketBirthYear(BirthYear[id], BucketSize, year)]

\* The tags of an answer: an empty bucket is left out.
TagsOf(id) == [code |-> users[id].code,
               bucket |-> bucketBirthYear(BirthYear[id], BucketSize, year)]

\* answerQuestion reads the profile; 401 when the account is gone.
SelectProfile(v) ==
  /\ stage[v] = "select" /\ ask[v].op = "answer"
  /\ \/ ~Exists(ask[v].id) /\ Move(v, "done") /\ UNCHANGED tags
     \/ /\ Exists(ask[v].id)
        /\ tags' = [tags EXCEPT ![v] = TagsOf(ask[v].id)]
        /\ Move(v, "insert")
  /\ UNCHANGED <<accountVars, year, votes, tracked, ask, result, held, years>>

\* The transaction: 409 when the voter is tracked already.  The account may be
\* gone by now, or have another profile.
StoreAnswer(v) ==
  LET voter == <<ask[v].id, ask[v].question>> IN
  /\ stage[v] = "insert"
  /\ \/ voter \in tracked /\ UNCHANGED <<votes, tracked>>
     \/ /\ voter \notin tracked
        /\ tracked' = tracked \cup {voter}
        /\ votes' = votes \cup {[visit |-> v, question |-> ask[v].question,
                                 code |-> tags[v].code, bucket |-> tags[v].bucket]}
  /\ Move(v, "done")
  /\ UNCHANGED <<accountVars, year, ask, tags, result, held, years>>

\* A form of WithdrawAnswer that only forgets who has answered.
WithdrawAnswerTracking(v) ==
  /\ stage[v] = "select" /\ ask[v].op = "withdraw"
  /\ tracked' = tracked \ {<<ask[v].id, ask[v].question>>}
  /\ Move(v, "done")
  /\ UNCHANGED <<accountVars, year, votes, ask, tags, result, held, years>>

\* deleteAnswer takes every answer to the question along (see Voting).
WithdrawAnswer(v) ==
  LET voter == <<ask[v].id, ask[v].question>> IN
  /\ stage[v] = "select" /\ ask[v].op = "withdraw"
  /\ tracked' = tracked \ {voter}
  /\ votes' = {a \in votes : voter \in tracked => a.question # ask[v].question}
  /\ Move(v, "done")
  /\ UNCHANGED <<accountVars, year, ask, tags, result, held, years>>

\* A form of Matching that takes answers with one of the tags (tags && $2).
MatchingAny(q, filter) ==
  {a \in votes : /\ a.question = q
                 /\ \/ filter.code = NoCode /\ filter.bucket = NoBucket
                    \/ filter.code # NoCode /\ a.code = filter.code
                    \/ filter.bucket # NoBucket /\ a.bucket = filter.bucket}

\* tags @> $2: the answers to a question whose tags contain those of the filter.
Matching(q, filter) ==
  {a \in votes : /\ a.question = q
                 /\ filter.code # NoCode => a.code = filter.code
                 /\ filter.bucket # NoBucket => a.bucket = filter.bucket}

\* getStats: nothing is told about fewer than MinAnswers answers.
GetStats(v) ==
  LET found == Matching(ask[v].question, ask[v].filter)
      enough == MinAnswers <= Cardinality(found) IN
  /\ stage[v] = "select" /\ ask[v].op = "stats"
  /\ result' = [result EXCEPT ![v] =
       IF enough THEN [status |-> "ok", votes |-> found, codes |-> {}]
       ELSE [status |-> "insufficient_data", votes |-> {}, codes |-> {}]]
  /\ Move(v, "done")
  /\ UNCHANGED <<accountVars, year, votes, tracked, ask, tags, held, years>>

Living(code) == {i \in Ids : Exists(i) /\ users[i].code = code}

\* The nationalities of at least MinAnswers accounts.
Offered == {c \in Known : Living(c) # {} /\ Cardinality(Living(c)) >= MinAnswers}

\* getStatsMeta.
GetStatsMeta(v) ==
  /\ stage[v] = "select" /\ ask[v].op = "meta"
  /\ result' = [result EXCEPT ![v] =
                  [status |-> "meta", votes |-> {}, codes |-> Offered]]
  /\ Move(v, "done")
  /\ UNCHANGED <<accountVars, year, votes, tracked, ask, tags, held, years>>

-----------------------------------------------------------------------------
VisitFails(v) ==
  /\ Waits(v)
  /\ Move(v, "failed")
  /\ UNCHANGED <<accountVars, year, votes, tracked, ask, tags, result, held, years>>

NewYear ==
  /\ year < LastYear
  /\ year' = year + 1
  /\ years' = [v \in Visits |->
                 IF Waits(v) /\ ask[v].op = "answer" THEN years[v] \cup {year + 1}
                                                    ELSE years[v]]
  /\ UNCHANGED <<accountVars, votes, tracked, stage, ask, tags, result, held>>

\* A handler of Accounts runs; a profile it changes is seen by visits.
ChangeAccounts ==
  /\ \E r \in Requests : (pc[r] = "new" => Load + 2 <= MaxLoad) /\ AccountStep(r)
  /\ UNCHANGED <<year, votes, tracked, stage, ask, tags, result, years>>
  /\ held' = [v \in Visits |->
                IF Waits(v) /\ ask[v].op = "answer" THEN held[v] \cup CodesOf(ask[v].id)'
                                                   ELSE held[v]]

\* The process dies with everything it is serving.
Crash ==
  /\ (\E r \in Requests : InFlight(r)) \/ (\E v \in Visits : Waits(v))
  /\ pc' = [r \in Requests |-> IF InFlight(r) THEN "lost" ELSE pc[r]]
  /\ stage' = [v \in Visits |-> IF Waits(v) THEN "lost" ELSE stage[v]]
  /\ UNCHANGED <<users, links, call, subject, reply, past, year, votes, tracked, ask,
                 tags, result, held, years>>

Visit(v) ==
  \/ ArriveVisit(v) \/ SelectProfile(v) \/ StoreAnswer(v) \/ WithdrawAnswer(v)
  \/ GetStats(v) \/ GetStatsMeta(v) \/ VisitFails(v)

Next ==
  \/ ChangeAccounts
  \/ \E v \in Visits : Visit(v)
  \/ NewYear
  \/ Crash

Spec == Init /\ [][Next]_vars

-----------------------------------------------------------------------------
(* Safety *)

\* Whose vote an answer is.  The options stay out here: one stands for them all.
AnOption == "option"
Ballot(a) == [req |-> a.visit, user |-> ask[a.visit].id, question |-> a.question,
              option |-> AnOption]

\* Storing and withdrawing an answer in one step is what Voting, which runs their
\* transactions statement by statement, makes of them: both implement Ballots.
Abstract == INSTANCE Ballots WITH
  Users <- Ids, Options <- {AnOption}, Requests <- Visits,
  voted <- tracked, ballots <- {Ballot(a) : a \in votes}
ImplementsBallots == Abstract!Spec

\* An answer is tagged with a nationality its voter had during the visit, and with
\* an age bucket of a year of the visit, though both are read before the answer is
\* stored: profiles that change in between never leave a mixture.
TagsWereTrue ==
  \A a \in votes :
    /\ a.code \in held[a.visit]
    /\ \E y \in years[a.visit] :
         a.bucket = bucketBirthYear(BirthYear[ask[a.visit].id], BucketSize, y)

\* What a filtered statistic counts, voters of that segment have answered: each
\* had the nationality and an age in the range during the visit, whatever became
\* of the profile, the account or the voter's age before the answers are counted.
SegmentsAreTrue ==
  \A v \in Visits : \A a \in result[v].votes :
    LET filter == ask[v].filter IN
    /\ filter.code # NoCode => filter.code \in held[a.visit]
    /\ filter.bucket # NoBucket =>
         \E y \in years[a.visit] :
            filter.bucket = bucketBirthYear(BirthYear[ask[a.visit].id], BucketSize, y)

\* The ranges of /stats/meta under which an answer is counted: its own alone, however
\* old the answer is by now; none if its range passes the largest age, because the
\* last range offered is cut there.  A width that divides the 120 ages (10 does)
\* cuts none: then every answer up to the largest age is counted under one.
EveryAgeOffered ==
  \A a \in votes : a.bucket # NoBucket =>
    {l \in Labels : a \in Matching(a.question, [NoTags EXCEPT !.bucket = l])}
      = IF a.bucket[2] <= MaxAge THEN {a.bucket} ELSE {}
=============================================================================
