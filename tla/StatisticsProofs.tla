-------------------------- MODULE StatisticsProofs --------------------------
(***************************************************************************)
(* Theorems about AgeBuckets and Statistics and their proofs.              *)
(***************************************************************************)
EXTENDS StatisticsInv, AccountsProofs

(***************************************************************************)
(* Age ranges.                                                             *)
(***************************************************************************)
\* Division, and division with no remainder.
LEMMA Division ==
  ASSUME NEW size \in Nat \ {0}, NEW ages \in Nat
  PROVE  /\ ages \div size \in Nat
         /\ ages = size * (ages \div size) + (ages % size)
<1>1. ages \div size \in Nat
  BY SMTT(30)
<1>2. ages = size * (ages \div size) + (ages % size)
  BY SMTT(30)
<1>. QED
  BY <1>1, <1>2

LEMMA Divides ==
  ASSUME NEW size \in Nat \ {0}, NEW ages \in Nat, ages % size = 0
  PROVE  /\ ages \div size \in Nat
         /\ ages = (ages \div size) * size
<1>1. ages = size * (ages \div size) + 0
  BY Division
<1>2. ages \div size \in Nat
  BY Division
<1>. QED
  BY <1>1, <1>2

\* A multiple of the width is at most as many times it as fit.
LEMMA Fits ==
  ASSUME NEW size \in Nat \ {0}, NEW age \in Nat, NEW k \in Nat, k * size <= age
  PROVE  k \in 0..(age \div size)
  BY SMTT(30)

\* A width that divides the ages divides them into whole ranges.
LEMMA WholeRange ==
  ASSUME NEW size \in Nat \ {0}, NEW ages \in Nat, ages % size = 0,
         NEW k \in Int, k * size < ages
  PROVE  k * size + size <= ages
<1>1. PICK m \in Int : ages = m * size
  BY Divides
<1>2. k < m
  <2>1. SUFFICES ASSUME m <= k PROVE FALSE
    OBVIOUS
  <2>2. m * size <= k * size
    BY <2>1
  <2>. QED
    BY <1>1, <2>2
<1>3. (k + 1) * size <= m * size
  BY <1>2
<1>. QED
  BY <1>1, <1>3

\* The range an age falls into begins at a multiple of the width and has that width.
LEMMA BucketShape ==
  ASSUME NEW size \in Int, NEW birth \in Int, NEW y \in Int,
         bucketBirthYear(birth, size, y) # NoBucket
  PROVE  /\ size > 0
         /\ \E k \in Nat : bucketBirthYear(birth, size, y)
                             = <<k * size, k * size + size - 1>>
<1>1. size > 0 /\ birth <= y
  BY DEF bucketBirthYear
<1>2. (y - birth) \div size \in Nat
  BY <1>1
<1>3. bucketBirthYear(birth, size, y)
        = <<((y - birth) \div size) * size, ((y - birth) \div size) * size + size - 1>>
  BY DEF bucketBirthYear
<1>. QED
  BY <1>1, <1>2, <1>3

\* Two ranges of one width that begin at multiples of it and hold one age are the same.
LEMMA OneRange ==
  ASSUME NEW size \in Nat \ {0}, NEW age \in Int, NEW j \in Int, NEW k \in Int,
         j * size <= age, age < j * size + size,
         k * size <= age, age < k * size + size
  PROVE  j = k
<1>1. ASSUME NEW m \in Int, NEW n \in Int, m < n, n * size <= age, age < m * size + size
      PROVE  FALSE
  <2>1. (m + 1) * size <= n * size
    BY <1>1
  <2>2. (m + 1) * size = m * size + size
    OBVIOUS
  <2>. QED
    BY <1>1, <2>1, <2>2
<1>2. ~(j < k) /\ ~(k < j)
  BY <1>1
<1>. QED
  BY <1>2

\* bucketBirthYear and age_bucket_labels agree.  The range of a voter holds the voter's
\* age; if it ends within max_age, it is offered and no other range offered holds that
\* age; if not, it is not offered.  A width that divides the ages leaves no range out.
THEOREM BucketsAreOffered ==
  ASSUME NEW size \in Int, NEW birth \in Int, NEW y \in Int, NEW max_age \in Nat,
         NEW b, b = bucketBirthYear(birth, size, y), b # NoBucket
  PROVE  /\ b[1] <= y - birth /\ y - birth <= b[2]
         /\ b[2] <= max_age =>
              /\ b \in age_bucket_labels(size, max_age)
              /\ \A l \in age_bucket_labels(size, max_age) :
                   (l[1] <= y - birth /\ y - birth <= l[2]) <=> l = b
         /\ b[2] > max_age => b \notin age_bucket_labels(size, max_age)
         /\ (max_age + 1) % size = 0 /\ b[1] <= max_age => b[2] <= max_age
<1> DEFINE age == y - birth
           k == age \div size
           End(j) == IF j * size + size - 1 <= max_age THEN j * size + size - 1
                                                      ELSE max_age
<1>1. size \in Nat \ {0} /\ age \in Nat
  BY DEF bucketBirthYear
<1>2. b = <<k * size, k * size + size - 1>>
  BY DEF bucketBirthYear
<1>3. k \in Nat /\ k * size \in Int /\ k * size <= age /\ age < k * size + size
  <2>1. k \in Nat /\ age = size * k + (age % size)
    BY <1>1, Division
  <2>2. age % size \in 0..(size - 1)
    BY <1>1
  <2> HIDE DEF k, age
  <2>3. k * size \in Int /\ k * size = size * k
    BY <1>1, <2>1
  <2>. QED
    BY <1>1, <2>1, <2>2, <2>3
<1> HIDE DEF k, age
<1>4. age_bucket_labels(size, max_age)
        = {<<j * size, End(j)>> : j \in 0..(max_age \div size)}
  BY <1>1 DEF age_bucket_labels
<1>5. \A j \in 0..(max_age \div size) : End(j) <= max_age /\ End(j) <= j * size + size - 1
  BY <1>1
<1>6. b[1] = k * size /\ b[2] = k * size + size - 1
  BY <1>2
<1>7. ASSUME b[2] <= max_age
      PROVE  b \in age_bucket_labels(size, max_age)
  <2>1. k * size <= max_age /\ End(k) = k * size + size - 1
    BY <1>1, <1>3, <1>6, <1>7
  <2>2. k \in 0..(max_age \div size)
    BY <1>1, <1>3, <2>1, Fits
  <2>. QED
    BY <1>2, <1>4, <2>1, <2>2
<1>8. ASSUME b[2] <= max_age, NEW l \in age_bucket_labels(size, max_age)
      PROVE  (l[1] <= age /\ age <= l[2]) <=> l = b
  <2>1. PICK j \in 0..(max_age \div size) : l = <<j * size, End(j)>>
    BY <1>4, <1>8
  <2>2. j \in Int /\ j * size \in Int /\ l[1] = j * size /\ l[2] = End(j)
    BY <1>1, <2>1
  <2>3. ASSUME l[1] <= age, age <= l[2]
        PROVE  l = b
    <3>1. j * size <= age /\ age < j * size + size
      BY <1>1, <1>5, <2>2, <2>3
    <3>2. j = k
      BY <1>1, <1>3, <2>2, <3>1, OneRange
    <3>. QED
      BY <1>2, <1>6, <1>8, <2>1, <3>2
  <2>4. ASSUME l = b
        PROVE  l[1] <= age /\ age <= l[2]
    BY <1>1, <1>3, <1>6, <2>4
  <2>. QED
    BY <2>3, <2>4
<1>9. b[2] > max_age => b \notin age_bucket_labels(size, max_age)
  <2>1. \A l \in age_bucket_labels(size, max_age) : l[2] <= max_age
    BY <1>4, <1>5
  <2>2. b[2] \in Int
    BY <1>1, <1>3, <1>6
  <2>. QED
    BY <2>1, <2>2
<1>10. ASSUME (max_age + 1) % size = 0, b[1] <= max_age
       PROVE  b[2] <= max_age
  <2>1. max_age + 1 \in Nat /\ k \in Int /\ k * size < max_age + 1
    BY <1>3, <1>6, <1>10
  <2>2. k * size + size <= max_age + 1
    BY <1>1, <1>10, <2>1, WholeRange
  <2>. QED
    BY <1>1, <1>3, <1>6, <2>2
<1>11. b[1] <= age /\ age <= b[2]
  BY <1>1, <1>3, <1>6
<1>. QED
  BY <1>7, <1>8, <1>9, <1>10, <1>11 DEF age

\* A range is a pair of numbers.
LEMMA BucketType ==
  ASSUME NEW size \in Int, NEW birth \in Int, NEW y \in Int
  PROVE  bucketBirthYear(birth, size, y) \in Bucket
<1>1. CASE bucketBirthYear(birth, size, y) = NoBucket
  BY <1>1 DEF NoBucket, Bucket
<1>2. CASE bucketBirthYear(birth, size, y) # NoBucket
  <2>1. PICK k \in Nat : bucketBirthYear(birth, size, y)
                           = <<k * size, k * size + size - 1>>
    BY <1>2, BucketShape
  <2>2. k * size \in Int
    OBVIOUS
  <2>. QED
    BY <2>1, <2>2 DEF Bucket
<1>. QED
  BY <1>1, <1>2

(***************************************************************************)
(* Statistics.                                                             *)
(***************************************************************************)
\* Every step, one case per action.
LEMMA StatisticsCases ==
  ASSUME [Next]_vars
  PROVE  \/ ChangeAccounts
         \/ \E v \in Visits : ArriveVisit(v)
         \/ \E v \in Visits : SelectProfile(v)
         \/ \E v \in Visits : StoreAnswer(v)
         \/ \E v \in Visits : WithdrawAnswer(v)
         \/ \E v \in Visits : GetStats(v)
         \/ \E v \in Visits : GetStatsMeta(v)
         \/ \E v \in Visits : VisitFails(v)
         \/ NewYear
         \/ Crash
         \/ UNCHANGED vars
  BY DEF Next, Visit

\* What a visit of each kind carries.
LEMMA AskFields ==
  ASSUME NEW a \in Asks \cup {NoAsk}
  PROVE  /\ a.op \in {"answer", "withdraw"} => /\ a \in Asks /\ a.id \in Ids
                                               /\ a.question \in Questions
         /\ a.op = "stats" => a \in Asks /\ a.question \in Questions /\ a.filter \in Filters
         /\ a.op = "meta" => a \in Asks
  BY DEF Asks, NoAsk

\* Every step of the composition is a step of Accounts or leaves it alone.
LEMMA AccountsRefined ==
  ASSUME AccountsTypeOK, [Next]_vars
  PROVE  [AccountsNext]_accountVars
<1>1. CASE ChangeAccounts
  BY <1>1 DEF ChangeAccounts, AccountsNext
<1>2. CASE Crash
  <2>1. CASE \E r \in Requests : InFlight(r)
    BY <1>2, <2>1 DEF Crash, AccountsNext, AccountsCrash
  <2>2. CASE \A r \in Requests : ~InFlight(r)
    <3>1. pc' = pc
      BY <1>2, <2>2 DEF Crash, AccountsTypeOK
    <3>. QED
      BY <1>2, <3>1 DEF Crash, accountVars
  <2>. QED
    BY <2>1, <2>2
<1>3. CASE NewYear \/ UNCHANGED vars
  BY <1>3 DEF NewYear, vars
<1>4. CASE \E v \in Visits : Visit(v)
  BY <1>4 DEF Visit, ArriveVisit, SelectProfile, StoreAnswer, WithdrawAnswer,
        GetStats, GetStatsMeta, VisitFails
<1>. QED
  BY <1>1, <1>2, <1>3, <1>4 DEF Next

LEMMA StatisticsInit == Init => IInv
<1> SUFFICES ASSUME Init PROVE IInv
  OBVIOUS
<1>1. AccountsInvariant
  BY InvariantInit DEF Init
<1>2. TypeOK
  <2>1. NoTags \in Tags
    BY DEF NoTags, Tags, Bucket, NoBucket
  <2>2. Nothing \in [status : {"none", "ok", "insufficient_data", "meta"},
                     votes : SUBSET Vote, codes : SUBSET Known]
    BY DEF Nothing
  <2>. QED
    BY <1>1, <2>1, <2>2, StatisticsAssumption DEF Init, TypeOK, AccountsInvariant, Stages
<1>3. VisitOK /\ HeldOK /\ TagsOK
  BY DEF Init, VisitOK, HeldOK, TagsOK, Waits, Nothing
<1>4. AnswersOK /\ TagsWereTrue /\ SegmentsAreTrue
  BY DEF Init, AnswersOK, TagsWereTrue, SegmentsAreTrue, Nothing
<1>. QED
  BY <1>1, <1>2, <1>3, <1>4 DEF IInv

\* The tags SelectProfile reads.
LEMMA TagsRead ==
  ASSUME IInv, NEW id \in Ids, Exists(id)
  PROVE  /\ TagsOf(id) \in Tags
         /\ TagsOf(id).code = users[id].code
         /\ TagsOf(id).bucket = bucketBirthYear(BirthYear[id], BucketSize, year)
         /\ CodesOf(id) = {users[id].code}
<1>1. users[id].code \in Known \cup {NoCode}
  BY RowFields DEF IInv, TypeOK, Row
<1>2. bucketBirthYear(BirthYear[id], BucketSize, year) \in Bucket
  BY BucketType, StatisticsAssumption DEF IInv, TypeOK
<1>. QED
  BY <1>1, <1>2 DEF TagsOf, Tags, CodesOf

\* A visit is done once and for all; its history never forgets.
LEMMA VisitsMove ==
  ASSUME IInv, [Next]_vars
  PROVE  \A v \in Visits : stage[v] # "new" =>
           /\ stage'[v] # "new" /\ ask'[v] = ask[v]
           /\ held[v] \subseteq held'[v] /\ years[v] \subseteq years'[v]
           /\ stage[v] = "done" => stage'[v] = "done"
           /\ stage'[v] \in {"select", "insert"} => stage[v] \in {"select", "insert"}
<1> USE DEF IInv, TypeOK, Waits, Move
<1>1. CASE ChangeAccounts
  BY <1>1 DEF ChangeAccounts
<1>2. CASE \E v \in Visits : ArriveVisit(v)
  <2>1. PICK v \in Visits : ArriveVisit(v)
    BY <1>2
  <2>2. stage[v] = "new"
    BY <2>1 DEF ArriveVisit
  <2>. QED
    BY <2>1, <2>2 DEF ArriveVisit
<1>3. CASE NewYear
  BY <1>3 DEF NewYear
<1>4. CASE Crash
  BY <1>4 DEF Crash
<1>5. CASE \E v \in Visits : \/ SelectProfile(v) \/ StoreAnswer(v) \/ WithdrawAnswer(v)
                             \/ GetStats(v) \/ GetStatsMeta(v) \/ VisitFails(v)
  <2>1. PICK v \in Visits : \/ SelectProfile(v) \/ StoreAnswer(v) \/ WithdrawAnswer(v)
                            \/ GetStats(v) \/ GetStatsMeta(v) \/ VisitFails(v)
    BY <1>5
  <2>2. /\ stage[v] \in {"select", "insert"}
        /\ \E to \in {"insert", "done", "failed"} : stage' = [stage EXCEPT ![v] = to]
        /\ UNCHANGED <<ask, held, years>>
    BY <2>1 DEF SelectProfile, StoreAnswer, WithdrawAnswer, GetStats, GetStatsMeta,
          VisitFails
  <2>. QED
    BY <2>2
<1>6. CASE UNCHANGED vars
  BY <1>6 DEF vars, voteVars
<1>. QED
  BY <1>1, <1>2, <1>3, <1>4, <1>5, <1>6, StatisticsCases

(***************************************************************************)
(* A step preserves the invariant, conjunct by conjunct.                   *)
(***************************************************************************)
\* The answer StoreAnswer adds.
LEMMA StoredVote ==
  ASSUME IInv, NEW v \in Visits, StoreAnswer(v)
  PROVE  /\ ask[v] \in Asks /\ ask[v].op = "answer"
         /\ ask[v].id \in Ids /\ ask[v].question \in Questions
         /\ \/ UNCHANGED <<votes, tracked>>
            \/ \E a \in Vote :
                 /\ a.visit = v /\ a.question = ask[v].question
                 /\ a.code = tags[v].code /\ a.bucket = tags[v].bucket
                 /\ votes' = votes \cup {a}
                 /\ tracked' = tracked \cup {<<ask[v].id, ask[v].question>>}
<1>1. ask[v] \in Asks /\ ask[v].op = "answer"
  BY DEF StoreAnswer, IInv, VisitOK
<1>2. ask[v].id \in Ids /\ ask[v].question \in Questions
  BY <1>1, AskFields
<1>3. tags[v] \in Tags
  BY DEF IInv, TypeOK
<1>4. [visit |-> v, question |-> ask[v].question, code |-> tags[v].code,
       bucket |-> tags[v].bucket] \in Vote
  BY <1>2, <1>3 DEF Vote, Tags
<1>. QED
  BY <1>1, <1>2, <1>4 DEF StoreAnswer

\* What a visit to the statistics is answered with.
LEMMA ToldResult ==
  ASSUME IInv, NEW v \in Visits, GetStats(v) \/ GetStatsMeta(v)
  PROVE  \E told \in [status : {"none", "ok", "insufficient_data", "meta"},
                      votes : SUBSET Vote, codes : SUBSET Known] :
           /\ result' = [result EXCEPT ![v] = told]
           /\ told.votes # {} =>
                /\ ask[v].op = "stats"
                /\ told.votes = Matching(ask[v].question, ask[v].filter)
<1>1. Matching(ask[v].question, ask[v].filter) \subseteq Vote /\ Offered \subseteq Known
  BY DEF Matching, Offered, IInv, TypeOK
<1>2. CASE GetStats(v)
  <2> DEFINE told == IF MinAnswers <= Cardinality(Matching(ask[v].question, ask[v].filter))
                     THEN [status |-> "ok",
                           votes |-> Matching(ask[v].question, ask[v].filter),
                           codes |-> {}]
                     ELSE [status |-> "insufficient_data", votes |-> {}, codes |-> {}]
  <2>1. result' = [result EXCEPT ![v] = told] /\ ask[v].op = "stats"
    BY <1>2 DEF GetStats
  <2>2. told \in [status : {"none", "ok", "insufficient_data", "meta"},
                  votes : SUBSET Vote, codes : SUBSET Known]
    BY <1>1
  <2>3. told.votes # {} => told.votes = Matching(ask[v].question, ask[v].filter)
    OBVIOUS
  <2>. QED
    BY <2>1, <2>2, <2>3
<1>3. CASE GetStatsMeta(v)
  <2>1. [status |-> "meta", votes |-> {}, codes |-> Offered]
          \in [status : {"none", "ok", "insufficient_data", "meta"},
               votes : SUBSET Vote, codes : SUBSET Known]
    BY <1>1
  <2>. QED
    BY <1>3, <2>1 DEF GetStatsMeta
<1>. QED
  BY <1>2, <1>3

LEMMA StatisticsTypes ==
  ASSUME IInv, [Next]_vars, AccountsTypeOK'
  PROVE  TypeOK'
<1> USE DEF IInv, TypeOK, Move, Stages
<1>1. CASE ChangeAccounts
  <2>1. \A i \in Ids : CodesOf(i)' \subseteq Known \cup {NoCode}
    BY DEF CodesOf, Exists, AccountsTypeOK, Row
  <2>2. \A v \in Visits : ask[v].op = "answer" => ask[v].id \in Ids
    BY AskFields
  <2>3. \A v \in Visits : ask[v].op = "answer" =>
           CodesOf(ask[v].id)' \subseteq Known \cup {NoCode}
    <3>1. ask' = ask
      BY <1>1 DEF ChangeAccounts
    <3>. QED
      BY <2>1, <2>2, <3>1
  <2>4. held' \in [Visits -> SUBSET (Known \cup {NoCode})]
    BY <1>1, <2>3 DEF ChangeAccounts
  <2>. QED
    BY <1>1, <2>4 DEF ChangeAccounts
<1>2. ASSUME NEW v \in Visits, ArriveVisit(v) PROVE TypeOK'
  <2>1. PICK a \in Asks :
          /\ ask' = [ask EXCEPT ![v] = a]
          /\ held' = [held EXCEPT ![v] = IF a.op = "answer" THEN CodesOf(a.id) ELSE {}]
          /\ years' = [years EXCEPT ![v] = IF a.op = "answer" THEN {year} ELSE {}]
    BY <1>2 DEF ArriveVisit
  <2>2. \A i \in Ids : CodesOf(i) \subseteq Known \cup {NoCode}
    BY DEF CodesOf, Exists, AccountsTypeOK, Row
  <2>3. a.op = "answer" => a.id \in Ids
    BY AskFields
  <2>. QED
    BY <1>2, <2>1, <2>2, <2>3 DEF ArriveVisit
<1>3. ASSUME NEW v \in Visits, SelectProfile(v) PROVE TypeOK'
  <2>1. Exists(ask[v].id) => TagsOf(ask[v].id) \in Tags
    BY <1>3, AskFields, TagsRead DEF SelectProfile
  <2>. QED
    BY <1>3, <2>1 DEF SelectProfile
<1>4. ASSUME NEW v \in Visits, StoreAnswer(v) PROVE TypeOK'
  <2>1. votes' \subseteq Vote /\ tracked' \subseteq Ids \X Questions
    BY <1>4, StoredVote
  <2>. QED
    BY <1>4, <2>1 DEF StoreAnswer
<1>5. ASSUME NEW v \in Visits, WithdrawAnswer(v) PROVE TypeOK'
  BY <1>5 DEF WithdrawAnswer
<1>6. ASSUME NEW v \in Visits, GetStats(v) \/ GetStatsMeta(v) PROVE TypeOK'
  <2>1. result' \in [Visits -> [status : {"none", "ok", "insufficient_data", "meta"},
                                votes : SUBSET Vote, codes : SUBSET Known]]
    BY <1>6, ToldResult
  <2>. QED
    BY <1>6, <2>1 DEF GetStats, GetStatsMeta
<1>7. ASSUME NEW v \in Visits, VisitFails(v) PROVE TypeOK'
  BY <1>7 DEF VisitFails
<1>8. CASE NewYear
  <2>1. year + 1 \in FirstYear..LastYear
    BY <1>8, StatisticsAssumption DEF NewYear
  <2>. QED
    BY <1>8, <2>1 DEF NewYear
<1>9. CASE Crash
  BY <1>9 DEF Crash
<1>10. CASE UNCHANGED vars
  BY <1>10 DEF vars, voteVars
<1>. QED
  BY <1>1, <1>2, <1>3, <1>4, <1>5, <1>6, <1>7, <1>8, <1>9, <1>10, StatisticsCases

LEMMA VisitOKStep ==
  ASSUME IInv, [Next]_vars
  PROVE  VisitOK'
<1> USE DEF IInv, TypeOK, VisitOK, Move
<1>1. CASE ChangeAccounts
  BY <1>1 DEF ChangeAccounts
<1>2. ASSUME NEW v \in Visits, ArriveVisit(v) PROVE VisitOK'
  BY <1>2 DEF ArriveVisit, Nothing
<1>3. ASSUME NEW v \in Visits, SelectProfile(v) PROVE VisitOK'
  BY <1>3 DEF SelectProfile
<1>4. ASSUME NEW v \in Visits, StoreAnswer(v) PROVE VisitOK'
  BY <1>4 DEF StoreAnswer
<1>5. ASSUME NEW v \in Visits, WithdrawAnswer(v) PROVE VisitOK'
  BY <1>5 DEF WithdrawAnswer
<1>6. ASSUME NEW v \in Visits, GetStats(v) \/ GetStatsMeta(v) PROVE VisitOK'
  <2>1. PICK told : /\ result' = [result EXCEPT ![v] = told]
                    /\ told.votes # {} => ask[v].op = "stats"
    BY <1>6, ToldResult
  <2>2. ask[v] \in Asks /\ ask' = ask /\ stage' = [stage EXCEPT ![v] = "done"]
    BY <1>6 DEF GetStats, GetStatsMeta
  <2>. QED
    BY <2>1, <2>2
<1>7. ASSUME NEW v \in Visits, VisitFails(v) PROVE VisitOK'
  BY <1>7 DEF VisitFails
<1>8. CASE NewYear
  BY <1>8 DEF NewYear
<1>9. CASE Crash
  BY <1>9 DEF Crash
<1>10. CASE UNCHANGED vars
  BY <1>10 DEF vars, voteVars
<1>. QED
  BY <1>1, <1>2, <1>3, <1>4, <1>5, <1>6, <1>7, <1>8, <1>9, <1>10, StatisticsCases

LEMMA HeldOKStep ==
  ASSUME IInv, [Next]_vars
  PROVE  HeldOK'
<1> SUFFICES ASSUME NEW v \in Visits, Waits(v)', ask'[v].op = "answer"
             PROVE  (CodesOf(ask[v].id) \subseteq held[v] /\ year \in years[v])'
  BY DEF HeldOK
<1> USE DEF IInv, TypeOK, HeldOK, Waits, Move, CodesOf, Exists
<1>1. CASE ChangeAccounts
  <2>1. Waits(v) /\ ask' = ask /\ year' = year /\ years' = years
    BY <1>1 DEF ChangeAccounts
  <2>2. held'[v] = held[v] \cup CodesOf(ask[v].id)'
    BY <1>1, <2>1 DEF ChangeAccounts
  <2>. QED
    BY <2>1, <2>2
<1>2. ASSUME NEW w \in Visits, ArriveVisit(w)
      PROVE  (CodesOf(ask[v].id) \subseteq held[v] /\ year \in years[v])'
  <2>1. PICK a \in Asks :
          /\ ask' = [ask EXCEPT ![w] = a]
          /\ held' = [held EXCEPT ![w] = IF a.op = "answer" THEN CodesOf(a.id) ELSE {}]
          /\ years' = [years EXCEPT ![w] = IF a.op = "answer" THEN {year} ELSE {}]
    BY <1>2 DEF ArriveVisit
  <2>2. UNCHANGED <<users, year>>
    BY <1>2 DEF ArriveVisit, accountVars
  <2>3. CASE v = w
    BY <2>1, <2>2, <2>3
  <2>4. CASE v # w
    <3>1. stage'[v] = stage[v] /\ ask'[v] = ask[v]
      BY <1>2, <2>1, <2>4 DEF ArriveVisit
    <3>. QED
      BY <2>1, <2>2, <2>4, <3>1
  <2>. QED
    BY <2>3, <2>4
<1>3. CASE NewYear
  <2>1. UNCHANGED users /\ year' = year + 1 /\ ask' = ask /\ stage' = stage
        /\ held' = held
    BY <1>3 DEF NewYear, accountVars
  <2>2. year' \in years'[v]
    BY <1>3, <2>1 DEF NewYear
  <2>. QED
    BY <2>1, <2>2
<1>4. CASE \/ Crash \/ UNCHANGED vars
           \/ \E w \in Visits : \/ SelectProfile(w) \/ StoreAnswer(w) \/ WithdrawAnswer(w)
                                \/ GetStats(w) \/ GetStatsMeta(w) \/ VisitFails(w)
  <2>1. UNCHANGED <<users, year, ask, held, years>>
    BY <1>4 DEF Crash, vars, voteVars, accountVars, SelectProfile, StoreAnswer,
          WithdrawAnswer, GetStats, GetStatsMeta, VisitFails
  <2>2. Waits(v)
    <3>1. CASE Crash
      BY <3>1 DEF Crash
    <3>2. CASE UNCHANGED vars
      BY <3>2 DEF vars, voteVars
    <3>3. CASE \E w \in Visits : \/ SelectProfile(w) \/ StoreAnswer(w)
                                 \/ WithdrawAnswer(w) \/ GetStats(w)
                                 \/ GetStatsMeta(w) \/ VisitFails(w)
      BY <3>3 DEF SelectProfile, StoreAnswer, WithdrawAnswer, GetStats, GetStatsMeta,
            VisitFails
    <3>. QED
      BY <1>4, <3>1, <3>2, <3>3
  <2>. QED
    BY <2>1, <2>2
<1>. QED
  BY <1>1, <1>2, <1>3, <1>4, StatisticsCases

LEMMA TagsOKStep ==
  ASSUME IInv, [Next]_vars
  PROVE  TagsOK'
<1> SUFFICES ASSUME NEW v \in Visits, stage'[v] = "insert"
             PROVE  /\ tags'[v].code \in held'[v]
                    /\ \E y \in years'[v] :
                         tags'[v].bucket
                           = bucketBirthYear(BirthYear[ask'[v].id], BucketSize, y)
  BY DEF TagsOK, TrueTags
<1> USE DEF IInv, TypeOK, Move
<1>1. CASE SelectProfile(v)
  <2>1. /\ stage[v] = "select" /\ ask[v].op = "answer"
        /\ Exists(ask[v].id) /\ tags'[v] = TagsOf(ask[v].id)
        /\ UNCHANGED <<ask, held, years>>
    BY <1>1 DEF SelectProfile
  <2>2. ask[v].id \in Ids
    BY <2>1, AskFields
  <2>3. CodesOf(ask[v].id) \subseteq held[v] /\ year \in years[v]
    BY <2>1 DEF HeldOK, Waits
  <2>4. /\ tags'[v].code \in held[v]
        /\ tags'[v].bucket = bucketBirthYear(BirthYear[ask[v].id], BucketSize, year)
    BY <2>1, <2>2, <2>3, TagsRead
  <2>. QED
    BY <2>1, <2>3, <2>4 DEF TrueTags
<1>2. CASE ~SelectProfile(v)
  <2>1. stage[v] = "insert" /\ tags'[v] = tags[v]
    <3>1. CASE \E w \in Visits : Visit(w)
      BY <1>2, <3>1 DEF Visit, ArriveVisit, SelectProfile, StoreAnswer, WithdrawAnswer,
            GetStats, GetStatsMeta, VisitFails
    <3>2. CASE ~ \E w \in Visits : Visit(w)
      BY <3>2 DEF Next, ChangeAccounts, NewYear, Crash, vars, voteVars, Waits
    <3>. QED
      BY <3>1, <3>2
  <2>2. ask'[v] = ask[v] /\ held[v] \subseteq held'[v] /\ years[v] \subseteq years'[v]
    BY <2>1, VisitsMove
  <2>. QED
    BY <2>1, <2>2 DEF TagsOK, TrueTags
<1>. QED
  BY <1>1, <1>2

\* The answers there are after a step.
LEMMA VotesMove ==
  ASSUME IInv, [Next]_vars, NEW a \in votes'
  PROVE  \/ a \in votes
         \/ \E v \in Visits : /\ StoreAnswer(v) /\ a.visit = v
                              /\ a.question = ask[v].question
                              /\ a.code = tags[v].code /\ a.bucket = tags[v].bucket
                              /\ tracked' = tracked \cup {<<ask[v].id, ask[v].question>>}
<1>1. CASE \E v \in Visits : StoreAnswer(v)
  BY <1>1, StoredVote
<1>2. CASE ~ \E v \in Visits : StoreAnswer(v)
  BY <1>2, StatisticsCases
     DEF ChangeAccounts, ArriveVisit, SelectProfile, WithdrawAnswer, GetStats,
         GetStatsMeta, VisitFails, NewYear, Crash, vars, voteVars
<1>. QED
  BY <1>1, <1>2

\* The answers a visit has been told of after a step.
LEMMA ResultsMove ==
  ASSUME IInv, [Next]_vars, NEW v \in Visits, NEW a \in result'[v].votes
  PROVE  \/ /\ a \in result[v].votes
            /\ stage[v] # "new" /\ ask[v].op = "stats"
         \/ /\ GetStats(v) /\ ask[v].op = "stats"
            /\ a \in Matching(ask[v].question, ask[v].filter)
<1> USE DEF IInv, TypeOK
<1>1. CASE \E w \in Visits : GetStats(w) \/ GetStatsMeta(w)
  <2>1. PICK w \in Visits : GetStats(w) \/ GetStatsMeta(w)
    BY <1>1
  <2>2. PICK told : /\ result' = [result EXCEPT ![w] = told]
                    /\ told.votes # {} =>
                         /\ ask[w].op = "stats"
                         /\ told.votes = Matching(ask[w].question, ask[w].filter)
    BY <2>1, ToldResult
  <2>3. CASE v = w
    <3>1. result'[v] = told
      BY <2>2, <2>3
    <3>2. GetStats(v)
      BY <2>1, <2>2, <2>3, <3>1 DEF GetStatsMeta
    <3>. QED
      BY <2>2, <2>3, <3>1, <3>2
  <2>4. CASE v # w
    <3>1. result'[v] = result[v]
      BY <2>2, <2>4
    <3>. QED
      BY <3>1 DEF VisitOK, Nothing
  <2>. QED
    BY <2>3, <2>4
<1>2. CASE ~ \E w \in Visits : GetStats(w) \/ GetStatsMeta(w)
  <2>1. result' = result
    BY <1>2, StatisticsCases
       DEF ChangeAccounts, ArriveVisit, SelectProfile, StoreAnswer, WithdrawAnswer,
           VisitFails, NewYear, Crash, vars, voteVars
  <2>. QED
    BY <2>1 DEF VisitOK, Nothing
<1>. QED
  BY <1>1, <1>2

LEMMA AnswersOKStep ==
  ASSUME IInv, [Next]_vars
  PROVE  AnswersOK'
<1>1. ASSUME NEW a \in votes
      PROVE  /\ a.visit \in Visits /\ stage'[a.visit] = "done"
             /\ ask'[a.visit] \in Asks /\ ask'[a.visit].op = "answer"
  <2>1. /\ a.visit \in Visits /\ stage[a.visit] = "done"
        /\ ask[a.visit] \in Asks /\ ask[a.visit].op = "answer"
    BY DEF IInv, TypeOK, AnswersOK, Vote
  <2>. QED
    BY <2>1, VisitsMove
<1>2. ASSUME NEW a \in votes'
      PROVE  /\ stage'[a.visit] = "done"
             /\ ask'[a.visit] \in Asks /\ ask'[a.visit].op = "answer"
  <2>1. CASE a \in votes
    BY <1>1, <2>1
  <2>2. CASE \E v \in Visits : StoreAnswer(v) /\ a.visit = v
    <3>1. PICK v \in Visits : StoreAnswer(v) /\ a.visit = v
      BY <2>2
    <3>2. ask[v] \in Asks /\ ask[v].op = "answer"
      BY <3>1, StoredVote
    <3>3. ask' = ask /\ stage' = [stage EXCEPT ![v] = "done"]
      BY <3>1 DEF StoreAnswer, Move
    <3>. QED
      BY <3>1, <3>2, <3>3 DEF IInv, TypeOK
  <2>. QED
    BY <2>1, <2>2, VotesMove
<1>3. ASSUME NEW v \in Visits, NEW a \in result'[v].votes
      PROVE  /\ stage'[a.visit] = "done"
             /\ ask'[a.visit] \in Asks /\ ask'[a.visit].op = "answer"
  <2>1. CASE a \in result[v].votes
    <3>1. /\ a.visit \in Visits /\ stage[a.visit] = "done"
          /\ ask[a.visit] \in Asks /\ ask[a.visit].op = "answer"
      BY <2>1 DEF IInv, TypeOK, AnswersOK, Vote
    <3>. QED
      BY <3>1, VisitsMove
  <2>2. CASE a \in Matching(ask[v].question, ask[v].filter)
    BY <1>1, <2>2 DEF Matching
  <2>. QED
    BY <2>1, <2>2, ResultsMove
<1>. QED
  BY <1>2, <1>3 DEF AnswersOK

LEMMA TagsWereTrueStep ==
  ASSUME IInv, [Next]_vars
  PROVE  TagsWereTrue'
<1> SUFFICES ASSUME NEW a \in votes'
             PROVE  /\ a.code \in held'[a.visit]
                    /\ \E y \in years'[a.visit] :
                         a.bucket
                           = bucketBirthYear(BirthYear[ask'[a.visit].id], BucketSize, y)
  BY DEF TagsWereTrue
<1>1. PICK v \in Visits :
        /\ a.visit = v /\ stage[v] # "new"
        /\ a.code \in held[v]
        /\ \E y \in years[v] :
             a.bucket = bucketBirthYear(BirthYear[ask[v].id], BucketSize, y)
  <2>1. CASE a \in votes
    BY <2>1 DEF IInv, TypeOK, AnswersOK, TagsWereTrue, Vote
  <2>2. CASE \E v \in Visits : /\ StoreAnswer(v) /\ a.visit = v
                               /\ a.code = tags[v].code /\ a.bucket = tags[v].bucket
    BY <2>2 DEF StoreAnswer, IInv, TagsOK, TrueTags
  <2>. QED
    BY <2>1, <2>2, VotesMove
<1>2. ask'[v] = ask[v] /\ held[v] \subseteq held'[v] /\ years[v] \subseteq years'[v]
  BY <1>1, VisitsMove
<1>. QED
  BY <1>1, <1>2

LEMMA SegmentsStep ==
  ASSUME IInv, [Next]_vars
  PROVE  SegmentsAreTrue'
<1> DEFINE True(filter, has, in, id) ==
             /\ filter.code # NoCode => filter.code \in has
             /\ filter.bucket # NoBucket =>
                  \E y \in in :
                     filter.bucket = bucketBirthYear(BirthYear[id], BucketSize, y)
<1> SUFFICES ASSUME NEW v \in Visits, NEW a \in result'[v].votes
             PROVE  True(ask'[v].filter, held'[a.visit], years'[a.visit],
                         ask'[a.visit].id)
  BY DEF SegmentsAreTrue
<1>1. /\ a.visit \in Visits /\ stage[a.visit] # "new" /\ stage[v] # "new"
      /\ True(ask[v].filter, held[a.visit], years[a.visit], ask[a.visit].id)
  <2>1. CASE a \in result[v].votes /\ stage[v] # "new"
    BY <2>1 DEF IInv, TypeOK, AnswersOK, SegmentsAreTrue, Vote
  <2>2. CASE GetStats(v) /\ a \in Matching(ask[v].question, ask[v].filter)
    <3>1. /\ a \in votes
          /\ ask[v].filter.code # NoCode => a.code = ask[v].filter.code
          /\ ask[v].filter.bucket # NoBucket => a.bucket = ask[v].filter.bucket
      BY <2>2 DEF Matching
    <3>2. a.visit \in Visits /\ stage[a.visit] # "new" /\ stage[v] # "new"
      BY <2>2, <3>1 DEF IInv, TypeOK, AnswersOK, Vote, GetStats
    <3>. QED
      BY <3>1, <3>2 DEF IInv, TagsWereTrue
  <2>. QED
    BY <2>1, <2>2, ResultsMove
<1>2. /\ ask'[v] = ask[v] /\ ask'[a.visit] = ask[a.visit]
      /\ held[a.visit] \subseteq held'[a.visit] /\ years[a.visit] \subseteq years'[a.visit]
  BY <1>1, VisitsMove
<1>. QED
  BY <1>1, <1>2

(***************************************************************************)
(* The theorems.                                                           *)
(***************************************************************************)
LEMMA StatisticsStep == IInv /\ [Next]_vars => IInv'
<1> SUFFICES ASSUME IInv, [Next]_vars PROVE IInv'
  OBVIOUS
<1>1. AccountsInvariant'
  <2>1. AccountsInvariant /\ AccountsTypeOK
    BY DEF IInv, AccountsInvariant
  <2>2. [AccountsNext]_accountVars
    BY <2>1, AccountsRefined
  <2>. QED
    BY <2>1, <2>2, InvariantStep
<1>2. TypeOK'
  BY <1>1, StatisticsTypes DEF AccountsInvariant
<1>3. VisitOK' /\ HeldOK' /\ TagsOK' /\ AnswersOK'
  BY VisitOKStep, HeldOKStep, TagsOKStep, AnswersOKStep
<1>4. TagsWereTrue' /\ SegmentsAreTrue'
  BY TagsWereTrueStep, SegmentsStep
<1>. QED
  BY <1>1, <1>2, <1>3, <1>4 DEF IInv

THEOREM StatisticsInductive == Spec => []IInv
<1>. QED
  BY StatisticsInit, StatisticsStep, PTL DEF Spec

\* The tables and handlers keep their types (QuestionController, AuthController).
THEOREM StatisticsTypeCorrect == Spec => []TypeOK
<1>1. IInv => TypeOK
  BY DEF IInv
<1>. QED
  BY <1>1, StatisticsInductive, PTL

\* answerQuestion stores the voter's own nationality and age range.
THEOREM TrueTagsStored == Spec => []TagsWereTrue
<1>1. IInv => TagsWereTrue
  BY DEF IInv
<1>. QED
  BY <1>1, StatisticsInductive, PTL

\* getStats counts nobody in a segment they were not part of.
THEOREM TrueSegments == Spec => []SegmentsAreTrue
<1>1. IInv => SegmentsAreTrue
  BY DEF IInv
<1>. QED
  BY <1>1, StatisticsInductive, PTL

\* /stats/meta offers the age range of every answer once, or not at all if the range
\* passes the largest age.
THEOREM AgesOffered == Spec => []EveryAgeOffered
<1>1. IInv => EveryAgeOffered
  <2> SUFFICES ASSUME IInv, NEW a \in votes, a.bucket # NoBucket
               PROVE  {l \in Labels : a \in Matching(a.question, [NoTags EXCEPT !.bucket = l])}
                        = IF a.bucket[2] <= MaxAge THEN {a.bucket} ELSE {}
    BY DEF EveryAgeOffered
  <2>1. PICK y \in Int, birth \in Int : a.bucket = bucketBirthYear(birth, BucketSize, y)
    <3>1. a.visit \in Visits /\ ask[a.visit].op = "answer"
      BY DEF IInv, TypeOK, AnswersOK, Vote
    <3>2. ask[a.visit].id \in Ids /\ years[a.visit] \subseteq Int
      BY <3>1, AskFields, StatisticsAssumption DEF IInv, TypeOK
    <3>3. BirthYear[ask[a.visit].id] \in Int
      BY <3>2, StatisticsAssumption
    <3>. QED
      BY <3>2, <3>3 DEF IInv, TagsWereTrue
  <2>2. MaxAge \in Nat /\ BucketSize \in Int /\ BucketSize > 0
    BY <2>1, StatisticsAssumption, BucketShape DEF MaxAge
  <2>3. /\ a.bucket[2] \in Int
        /\ a.bucket[2] <= MaxAge => a.bucket \in Labels
        /\ a.bucket[2] > MaxAge => a.bucket \notin Labels
    <3>1. a.bucket \in Bucket
      BY DEF IInv, TypeOK, Vote
    <3>2. a.bucket[2] \in Int
      BY <3>1 DEF Bucket
    <3>. QED
      BY <2>1, <2>2, <3>2, BucketsAreOffered DEF Labels
  <2>4. \A m \in Labels : m # NoBucket
    <3>1. \A k \in 0..(MaxAge \div BucketSize) : k * BucketSize >= 0
      BY <2>2
    <3>2. \A m \in Labels : m[1] = 0 => m[2] >= 0
      BY <2>2, <3>1 DEF Labels, age_bucket_labels
    <3>. QED
      BY <3>2 DEF NoBucket
  <2>5. \A m \in Labels :
          a \in Matching(a.question, [NoTags EXCEPT !.bucket = m]) <=> m = a.bucket
    BY <2>4 DEF Matching, NoTags
  <2>6. CASE a.bucket[2] <= MaxAge
    BY <2>3, <2>5, <2>6
  <2>7. CASE ~(a.bucket[2] <= MaxAge)
    <3>1. a.bucket \notin Labels
      BY <2>2, <2>3, <2>7
    <3>. QED
      BY <2>5, <2>7, <3>1
  <2>. QED
    BY <2>6, <2>7
<1>. QED
  BY <1>1, StatisticsInductive, PTL

(***************************************************************************)
(* Refinement: each step does to ballots what Ballots allows.              *)
(***************************************************************************)
\* Whose vote an answer is stays what it is.
LEMMA BallotsStay ==
  ASSUME IInv, [Next]_vars, NEW a \in votes
  PROVE  /\ a.visit \in Visits /\ a.question \in Questions
         /\ ask[a.visit].id \in Ids
         /\ Ballot(a)' = Ballot(a)
<1>1. /\ a.visit \in Visits /\ a.question \in Questions
      /\ stage[a.visit] = "done" /\ ask[a.visit].op = "answer"
  BY DEF IInv, TypeOK, AnswersOK, Vote
<1>2. ask'[a.visit] = ask[a.visit]
  BY <1>1, VisitsMove
<1>3. ask[a.visit].id \in Ids
  BY <1>1, AskFields DEF IInv, TypeOK
<1>. QED
  BY <1>1, <1>2, <1>3 DEF Ballot

\* StoreAnswer casts a ballot, unless its user has voted already.
LEMMA StoringCasts ==
  ASSUME IInv, NEW v \in Visits, StoreAnswer(v)
  PROVE  [Abstract!Next]_<<tracked, {Ballot(a) : a \in votes}>>
<1>1. [Next]_vars
  BY DEF Next, Visit
<1>2. \A a \in votes : Ballot(a)' = Ballot(a)
  BY <1>1, BallotsStay
<1>3. CASE <<ask[v].id, ask[v].question>> \in tracked
  <2>1. votes' = votes /\ tracked' = tracked
    BY <1>3 DEF StoreAnswer
  <2>2. {Ballot(a) : a \in votes}' = {Ballot(a) : a \in votes}
    BY <1>2, <2>1
  <2>. QED
    BY <2>1, <2>2
<1>4. CASE <<ask[v].id, ask[v].question>> \notin tracked
  <2> DEFINE b == [req |-> v, user |-> ask[v].id, question |-> ask[v].question,
                   option |-> AnOption]
  <2>1. PICK new :
          /\ new.visit = v /\ new.question = ask[v].question
          /\ votes' = votes \cup {new}
          /\ tracked' = tracked \cup {<<ask[v].id, ask[v].question>>}
          /\ ask' = ask
    BY <1>4, StoredVote DEF StoreAnswer
  <2>2. Ballot(new)' = b
    BY <2>1 DEF Ballot
  <2>3. {Ballot(a) : a \in votes}' = {Ballot(a) : a \in votes} \cup {b}
    <3>1. {Ballot(a) : a \in votes}' = {Ballot(a)' : a \in votes \cup {new}}
      BY <2>1
    <3>. QED
      <4> HIDE DEF b
      <4>. QED
        BY <1>2, <2>2, <3>1
  <2>4. b \in Abstract!Ballot
    BY StoredVote DEF Abstract!Ballot
  <2>5. Abstract!Cast(b)
    BY <1>4, <2>1, <2>3 DEF Abstract!Cast
  <2>. QED
    BY <2>4, <2>5 DEF Abstract!Next
<1>. QED
  BY <1>3, <1>4

\* WithdrawAnswer withdraws the ballot of a user who has voted.
LEMMA WithdrawingWithdraws ==
  ASSUME IInv, NEW v \in Visits, WithdrawAnswer(v)
  PROVE  [Abstract!Next]_<<tracked, {Ballot(a) : a \in votes}>>
<1>1. [Next]_vars
  BY DEF Next, Visit
<1>2. \A a \in votes : Ballot(a)' = Ballot(a)
  BY <1>1, BallotsStay
<1>3. ask[v].id \in Ids /\ ask[v].question \in Questions
  BY AskFields DEF IInv, TypeOK, WithdrawAnswer
<1> DEFINE voter == <<ask[v].id, ask[v].question>>
<1>4. CASE voter \notin tracked
  <2>1. votes' = votes /\ tracked' = tracked
    BY <1>4 DEF WithdrawAnswer, IInv, TypeOK
  <2>2. {Ballot(a) : a \in votes}' = {Ballot(a) : a \in votes}
    BY <1>2, <2>1
  <2>. QED
    BY <2>1, <2>2
<1>5. CASE voter \in tracked
  <2> DEFINE of == {b \in {Ballot(a) : a \in votes} : b.question = ask[v].question}
  <2>1. /\ tracked' = tracked \ {voter}
        /\ votes' = {a \in votes : a.question # ask[v].question}
    BY <1>5 DEF WithdrawAnswer
  <2>2. {Ballot(a) : a \in votes}' = {Ballot(a) : a \in votes} \ of
    <3>1. {Ballot(a) : a \in votes}'
            = {Ballot(a) : a \in {x \in votes : x.question # ask[v].question}}
      BY <1>2, <2>1
    <3>2. \A a : Ballot(a).question = a.question
      BY DEF Ballot
    <3>. QED
      BY <3>1, <3>2
  <2>3. Abstract!Withdraw(ask[v].id, ask[v].question)
    <3>1. of \in SUBSET of
      OBVIOUS
    <3>. QED
      BY <1>5, <2>1, <2>2, <3>1 DEF Abstract!Withdraw
  <2>. QED
    BY <1>3, <2>3 DEF Abstract!Next
<1>. QED
  BY <1>4, <1>5

LEMMA StatisticsRefines ==
  ASSUME IInv, [Next]_vars
  PROVE  [Abstract!Next]_<<tracked, {Ballot(a) : a \in votes}>>
<1>1. CASE \E v \in Visits : StoreAnswer(v)
  BY <1>1, StoringCasts
<1>2. CASE \E v \in Visits : WithdrawAnswer(v)
  BY <1>2, WithdrawingWithdraws
<1>3. CASE ~ \E v \in Visits : WithdrawAnswer(v) \/ StoreAnswer(v)
  <2>1. tracked' = tracked /\ votes' = votes
    BY <1>3, StatisticsCases
       DEF ChangeAccounts, ArriveVisit, SelectProfile, GetStats, GetStatsMeta,
           VisitFails, NewYear, Crash, vars, voteVars
  <2>2. \A a \in votes : Ballot(a)' = Ballot(a)
    BY BallotsStay
  <2>3. {Ballot(a) : a \in votes}' = {Ballot(a) : a \in votes}
    BY <2>1, <2>2
  <2>. QED
    BY <2>1, <2>3
<1>. QED
  BY <1>1, <1>2, <1>3

\* answerQuestion and deleteAnswer, taken here in one step each, keep the promise
\* their transactions keep in Voting, whatever happens to accounts meanwhile.
THEOREM BallotsImplemented == Spec => ImplementsBallots
<1>1. Init => Abstract!Init
  BY DEF Init, Abstract!Init
<1>2. IInv /\ [Next]_vars => [Abstract!Next]_<<tracked, {Ballot(a) : a \in votes}>>
  BY StatisticsRefines
<1>. QED
  BY <1>1, <1>2, StatisticsInductive, PTL DEF Spec, ImplementsBallots, Abstract!Spec
=============================================================================
