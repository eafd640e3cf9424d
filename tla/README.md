# Voting backend: verification

TLA+ models of the voting backend (a C++ server on drogon and PostgreSQL), the
TLC configurations that check them on small instances, and theorems about them
with TLAPS proofs. Paths are relative to the directory that holds `src/`.

Contents: [the system](#the-system), [the models](#the-models),
[runs](#runs), [where the code departs from its
documentation](#where-the-code-departs-from-its-documentation),
[proofs](#proofs), [abstractions](#abstractions),
[not modelled](#not-modelled), [what is left](#what-is-left).

## The system

The backend is one process with a few event-loop threads. A handler parses and
validates its request, sends an SQL statement, returns, and goes on in the
statement's callback; it keeps no lock and no state besides what its lambdas
capture. All durable state is in PostgreSQL. So concurrency means: *between any
two statements of one request, any statement of any other request may run*.
Only `answerQuestion`, `deleteAnswer`, `submitQuestion` and `reset_password` use
a transaction; every other handler is a chain of auto-committed statements.

`src/config.json` gives drogon's pool one connection
(`number_of_connections: 1`). An open transaction owns it until it commits or is
rolled back; statements and transactions that find none free wait in queues.

| Component | Code | State | Operations | What makes it correct |
|---|---|---|---|---|
| Voting | `QuestionController.cpp`, `UserController.cpp`, `001_init.sql` | `questions`, `answer_options`, `question_user` (who answered, under a hash), `user_answers` (what was answered, without the user) | `answerQuestion`, `deleteAnswer`, `submitQuestion`, `approveQuestion`, `rejectQuestion`, `deleteQuestion`, `changeQuestionText`, `delete_user`, the maintenance job's purge | one vote per user and question; the tracking row and the answer come and go together; a refused request leaves nothing; no vote on a question no admin has seen; a question appears with all of its options; every request is answered |
| Sessions | `AuthController.cpp`, `UserController.cpp`, `002_auth.sql` | `users.is_active`, `users.password_hash`, `refresh_tokens`, `password_resets` | `login`, `logout`, `refresh`, `forgot_password`, `reset_password`, `update_me` (password), `set_user_active`, `set_user_inactive`, `delete_user` | a reset token works once, and is used up only if the password was set; a reset ends the sessions that exist; refreshing costs the presented token; no token without its account |
| Accounts | `AuthController::register_user`, `update_me`, `me`, `forgot_password`; `UserController` | `users.username`, `users.email`, profile | register, change profile, read, delete, mail a password link | unique names and mail addresses under check-then-insert; a 409 has a cause; a link goes to an address of its account |
| Filters and JWT | `filters/*.cpp`, `utils/JwtService.cpp` | none (claims) | admit or refuse a request | what a reader is shown fits the claims of its token |
| Search, statistics | `QuestionController` (GET handlers and searches) | none (read-only); the window of a running search | listing, paging, answer options, tallies with a threshold | an answer holds what its caller may see; flags are true; the page is the one asked for; a filtered tally counts that segment only; the window stops growing |
| Age buckets | `utils/BirthYearBucketer.cpp` | none | label of a birth year, list of labels | an answer is found under its own range and no other; under none only past the largest age |
| User hash, HMAC keys | `utils/UserIdHash.cpp`, `utils/Config.cpp` | the key | hash of (user, question) | one hash per voter, question and key |
| Reference data | `utils/Nationality.cpp`, `utils/Region.cpp`, `CategoryController.cpp` | constant tables | validation, lists | - |
| Server, configuration, errors | `main.cpp`, `utils/ErrorResponse.cpp`, `config.json` | none | wiring, CORS, JSON bodies | - |
| Generated models | `models/*.cpp` | none | object mapping | - |
| Deployment | `ansible/`, `quadlets/`, `Containerfile` | none | installation; `db-maintenance.sh.j2` purges rejected questions | (the purge is part of Voting) |

How the parts meet: the filters put the subject and the claims of an access token
on the request; Voting trusts them (the account may be gone by then). Sessions
mints those claims. An answer is tagged with the profile that Accounts keeps, and
the statistics count those tags long after the profile has changed. Searches read
what Voting writes, one statement at a time. `delete_user` removes refresh and
reset tokens and submissions' ownership through foreign keys, but not votes, which
have no foreign key to `users`. The maintenance job works on Voting's tables in a
session of its own. Voting uses the hash of (user, question) as the voter's name.

Hard behaviours, all listed with their lines as `hazards` in `PROJECT.json`:
status and credentials read in one statement and relied on in a later one;
transactions of one user racing each other; errors after a first write; COMMIT
that fails, or lands unnoticed; a crash between two steps; retries of a request
whose answer was lost; row locks and the single connection as things to wait
for; counters at their limit; rows, flags and permissions of one answer that are
read at different moments; a page assembled from several queries; checks that a
unique index has to back up; a profile that changes between reading and storing.

## The models

| Module | Contents |
|---|---|
| `Ballots` | what voting promises, without requests and statements: `Cast`, `Withdraw`, `Close` on the sets `voted` and `ballots` |
| `Voting` | the voting handlers, statement by statement; safety, liveness and the refinement of `Ballots` |
| `VotingInv` | the inductive invariant of `Voting` |
| `VotingProofs` | theorems about `Voting` |
| `MCVoting` | the small instances for TLC |
| `Credentials` | what signing in promises, without requests and statements: `SignIn`, `SignOut`, `SendLink`, `Redeem`, `ChangePassword`, `Leave` on the sets of live sessions and open links |
| `Sessions` | signing in and out, refreshing, forgotten passwords and account state, statement by statement; the refinement of `Credentials` |
| `SessionsInv` | the inductive invariant of `Sessions` |
| `SessionsProofs` | theorems about `Sessions` |
| `MCSessions` | the small instances for TLC |
| `Accounts` | registering, profiles, deletion and the addressee of a password link, over the unique indexes of `users` |
| `AccountsInv`, `AccountsProofs` | its inductive invariant and theorems |
| `AgeBuckets` | `bucketBirthYear` and `age_bucket_labels` |
| `Statistics` | answers tagged from a profile and the statistics over them: extends `Accounts` and `AgeBuckets`, adds visits and a calendar, and implements `Ballots` |
| `StatisticsInv`, `StatisticsProofs` | its inductive invariant and theorems, those of the age ranges among them |
| `MCStatistics` | the small instance for TLC |
| `Access` | what the two filters answer to a token, and which routes name which |
| `Search` | every reading handler of `QuestionController`, with what others change meanwhile: extends `Access` |
| `SearchInv`, `SearchProofs` | its inductive invariant, the measure of a request's remaining statements, and theorems |
| `SearchPages` | lemmas about ranks, windows and pages that the proof of `PageRight` rests on |
| `MCSearch` | the small instance for TLC |

`Statistics` is the composition: its steps are those of `Accounts`, seen from a
visit to the questions, and steps that leave accounts alone. `Ballots` is where it
meets `Voting`: both are shown to implement it, `Voting` with the statements of a
transaction apart and `Statistics` with the transaction as one step, so what
`Statistics` leaves out inside a vote is what `Voting` shows to be invisible. `Search` does not
compose with `Voting` step by step: to a reader only committed changes matter, and
each of them (a question submitted, reviewed, reworded, deleted; an answer given or
withdrawn; an account deleted) is one action there.

### How a handler becomes actions

A *request* `r` is served once. `call[r]` is what it asks for (the body after
validation, and the filters' identity), `pc[r]` names the statement it sends
next, `reply[r]` is the status code the client got. One action is the execution
of one SQL statement *and* everything its callback decides, up to the next
statement or the answer. Each early return of a callback is a disjunct that
ends in `Respond(r, code)`.

| Statement in the code | Action |
|---|---|
| `answerQuestion`: `SELECT` of the profile tags (`QuestionController` 1257) | `AnswerProfile` |
| `SELECT submission_status, special_category` (1298) | `AnswerStatus` (400, 404; computes `record_consent`) |
| `newTransactionAsync` (1338, 1514, 2283, `AuthController` 1145) | `Begin` |
| `INSERT INTO question_user` (1366) | `InsertQuestionUser` (409 on the primary key) |
| `INSERT INTO user_answers ... WHERE EXISTS` (1380) | `InsertUserAnswers` (400 and rollback if the option is another question's) |
| automatic `COMMIT` with the commit callback (1415, 1554, 2336) | `Commit`, `CommitFails`, `CommitUnacknowledged` |
| `deleteAnswer`: `SELECT` of the status, two `DELETE`s (1499, 1526, 1534) | `DeleteStatus`, `DeleteUserAnswers`, `DeleteQuestionUser` (404 and rollback if nothing was tracked) |
| `submitQuestion`: `INSERT` of the question, one `INSERT` of all options (2283-2330) | `InsertQuestion`, `InsertOptions` |
| `approveQuestion`, `rejectQuestion`, `deleteQuestion`, `delete_user` | `Approve`, `Reject`, `DeleteQuestion`, `DeleteUser` |
| `cleanup_rejected_questions` | `Purge` |
| `login`: `SELECT`, bcrypt, `INSERT` of the refresh token | `LoginSelect`, `LoginInsert` |
| `logout`: `UPDATE ... SET revoked` | `Logout` |
| `refresh`: `SELECT` of the token, `UPDATE`, `SELECT` of the user, `INSERT` | `RefreshSelect`, `RefreshRevoke`, `RefreshUser`, `RefreshInsert` |
| `forgot_password`: `SELECT` with the count, `INSERT` | `ForgotSelect`, `ForgotInsert` |
| `reset_password`: claiming `UPDATE`, `UPDATE users`, `UPDATE refresh_tokens`, `COMMIT`; the detached count | `Claim`, `UpdatePassword`, `RevokeAll`, `Commit` (and its failures); `CountAttempt` |
| `update_me`: region check, `UPDATE users` | `Preflight`, `UpdateMe` |
| `delete_user`: `DELETE FROM users` (`UserController` 232), which locks the row, and then its foreign keys' `ON DELETE CASCADE` (`Sessions`) | `DeleteUser`, `Cascade` |
| `register_user`: codes and taken names in one `SELECT` (352), `INSERT` (396) | `RegisterSelect` (400, 409), `RegisterInsert` (500 when the index refuses), `InsertUnnoticed` |
| `update_me`: codes (791), `UPDATE ... RETURNING` (864) | `UpdateSelect`, `UpdateStatement` (404, 409) |
| `me`, `get_user_by_id`, `list_users`, `delete_user` | `ReadAccount`, `ListUsers`, `DeleteUser` |
| `forgot_password`: `SELECT`, `INSERT` and mail, for the address | `ForgotSelect`, `ForgotInsert` |
| `answerQuestion`, as far as the tags go: `SELECT` of the profile (1257), transaction (1363) | `SelectProfile`, `StoreAnswer`; `WithdrawAnswer` for `deleteAnswer` |
| `getStats`, `getStatsMeta` | `GetStats`, `GetStatsMeta` |
| `get`, `getOne`, `getQuestionsWithCategories`, `searchQuestions`, `getQuestionsByLanguage`, `getMySubmissions`, `listSubmissions` | `Get`, `GetOne`, `WithCategories`, `SearchQuestions`, `ByLanguage`, `GetMySubmissions`, `ListSubmissions` |
| `getAnswerOptions`, `...WithAuth`, `getAdminAnswerOptions`: the question, then its options | `GetAnswerOptions`, `GetAnswerOptionsWithAuth`, `GetAdminAnswerOptions`, then `SelectOptions` |
| `restSearchQuestions` (`executeSearchQuery`) | `RestSearch` |
| `restSearchQuestionsWithAuth`: rows, then `fetchAnsweredIds` | `RestSearchWithAuth`, `FlagAnswered` |
| `executeUnansweredSearch`: a window of rows, the answered ids, a wider window | `SelectWindow`, `AnswerWindow` |
| `changeQuestionText` | `Search.ChangeQuestionText` |
| any `DrogonDbException` handler | `StatementFails`, `AccountFails`, `VisitFails` |

The rows a transaction has written are kept apart until COMMIT: in `trans[r]`
(Voting), and in `revoking[r]` together with `pc[r]` (Sessions). A statement that
would wait for another transaction's row lock has `~VoterLocked`,
`~QuestionLocked`, `~Claimed`, `~UserLocked`, `~TokenLocked` or `~Deleting` as a
guard; the locks come from the primary and foreign keys of the tables. A statement
is split where it holds one lock and waits for the next: `DeleteUser` locks the row
of `users`, `Cascade` takes the rows that refer to it. `ConnectionFree`
guards every statement outside a transaction, and `Begin`. `Search`, `Accounts` and
`Statistics` have neither: their handlers give the connection back after each
statement, so it decides who waits and nothing else.

The environment: `Crash` ends all requests in flight, and PostgreSQL rolls their
transactions back; `Expire` lets a token pass its `expires_at`;
`CommitUnacknowledged` and `CommitUnnoticed` are a COMMIT whose effect stays
while the client gets no answer, or a 500; `InsertUnnoticed` is the same for an
`INSERT` outside a transaction. `Restart` (Search) ends the process, and the next
one may be configured with another HMAC secret. `NewYear` (Statistics) moves the
calendar that ages are computed from.

Two history variables of `Sessions` serve properties only: `resets` (the resets
that were committed) and `verified[r]` (those that were committed when `r`'s
credential was checked). Those of the other models collect what was true while a
request was served: `past` (who had which name and address), `held` and `years`
(the voter's nationalities, and the years), `permitted`, `kept` and `touched` (what
the caller could see, had answered throughout, had answered at some moment), `calm`
(whether nothing has changed). `req` in the rows of Voting and Sessions is a
history column: the row's writer. So is `user` in `user_answers`, which the real table does not
have; no action's outcome depends on either beyond what the statement sees.

## Runs

All runs explore every interleaving of their requests, and of what others do, with
all failures.

| Run | Instance | Shows |
|---|---|---|
| `answers` | 3 requests, 2 users, one approved question with 2 options and a foreign option, 1 connection; 618 000 states | `OneTrackingRow`, `AnswersTracked`, `OneAnswerPerUser`, `ConsentWasGiven`, `ErrorsLeaveNoTrace`, the inductive invariant `IInv1` (with `TypeOK`), and `ImplementsBallots` |
| `submissions` | 4 requests, 1 user, one question id to be drawn; submit, review, answer, delete the account, purge; 82 000 states | `SubmissionsWhole`, `NoVoteBeforeReview` |
| `live` | 3 requests, 2 connections, fairness; 66 000 states | `NoStandstill` and `EveryRequestEnds`, with transactions that overlap and wait for each other |
| `sessions` | 4 requests, 1 account, 2 passwords, 1 connection, all operations; 272 000 states | `ResetOnce`, `UsedMeansReset`, `TokensHaveOwners`, `RotationRevokes`, `BudgetUnspent`, `ResetRevokesStored`, the inductive invariant `IInv1` (with `TypeOK`), and `ImplementsCredentials` |
| `overlap` | 3 requests, 1 account, 2 connections, fairness, all operations; 53 000 states | `NoStandstill`, `EveryRequestEnds` and `EndedStaysEnded`, with resets and deletions that overlap |
| `search` | one reader of any kind, 4 questions, 2 wordings, 2 keys, 2 changes by others; fairness; 236 000 states | `ShowsVisible`, `FlagsTrue`, `PageRight`, `EmptyMeansDeleted`, `ErrorsHaveCause`, the inductive invariant `IInv` (with `TypeOK`), `WorkShrinks`, `EveryRequestEnds` |
| `accounts` | 1 registered account, 2 requests to accounts or one and 2 visits or 3 visits, 2 names, 2 mail addresses, 2 years; 387 000 states | `NoTwins`, `ConflictWasReal`, `LinkForAddressee`, `TagsWereTrue`, `SegmentsAreTrue`, `EveryAgeOffered`, the inductive invariant `IInv` (with `TypeOK`), `ImplementsBallots` |
| `others`, `unapproved`, `stored`, `survivors`, `inactive` | 3 requests, only the operations needed | each a counterexample to a statement of the documentation, see below |

**Bounds, and why they are enough.** `Requests` bounds how much happens. The
shortest violation of each property by a faulty form of the code (the `mutants`
of `PROJECT.json`, one for every property of every passing run) needs two to
four requests: two racing answers; answer, withdraw, answer; forgot, reset,
reset; login, refresh, forgot, reset. Two users are needed where one's request can
touch another's rows (`answers`); elsewhere rows of different users do not meet: every statement has the user or
the question in its `WHERE` clause. `MaxRequests = 2` and `MaxAttempts = 1` let
both limits be met within the requests. Two options of the question and one of
another distinguish a changed vote and a foreign option. The proofs lift every
property of the passing runs except `EveryRequestEnds` to any number of everything,
but for `PoolSize`.

`search` has one reader, because readers do not see each other: what one does is
visible to none. Its `MaxChanges = 2` allows a change before and after each of two
statements, or two between them; an answer and a restart may also come before the
request, which then searches under another key than the answer was stored with. The
windows of 100 to 5000 rows, the limits 50 and
1000 and the range of `int` are scaled down together (2 to 3, 1 and 2, 5), so that
four questions fill a window, widen it, exceed the widest, and `offset + limit`
overflows, and a row just behind the page is in the window; two questions share their
`created_at`, and one has a category without a name in its language. In `accounts`, `MaxLoad = 4`,
where a request to accounts counts twice and a visit once: two requests race each
other; or a registration, an update or a deletion falls between the two statements of
an answer, and another visit reads the statistics or withdraws; or three visits meet.
Two requests next to one visit are left out: only what happens to the voter's own row
between the two statements of its answer matters there, and one request shows that.
Buckets of 50 years do not divide the 120 ages: the account of 99 years is counted
under a range that is offered, and when the year ends falls into one that is not;
`FirstYear` and `LastYear` bound the calendar, `Filters` the filters asked for.

**PoolSize.** 1 is what `config.json` ships; 2 is checked because the number is
meant to be configured. `VotingAssumption` and `SessionsAssumption` stop there.
The guards of the model give a statement the rows that are committed when it
runs; with three connections a `DELETE` that has waited for a lock would go on
with the snapshot it started from, which the model does not represent.
`AnswersTracked`, `OneAnswerPerUser` and Voting's `ImplementsBallots` hold with one
connection only: with two, the two `DELETE`s of a withdrawal see different
snapshots, and the same user's answer committed between them survives the
tracking row it came with (`QuestionController.cpp:1526`, 1534).
`ImplementsCredentials` is stated for one connection: then nothing is stored between
the `UPDATE` that revokes a user's tokens and the COMMIT, and the reset ends all
sessions there are.

**Fairness.** `WF_vars(Serve(r))` for every request: drogon keeps statements that
wait for the connection, and transactions that wait to begin, in queues served
in order when a connection is returned, and PostgreSQL queues lock waiters.
Nothing is assumed of failures, crashes, expiry, the purge or the arrival of
requests. `Sessions` adds `WF_vars(AbortDeadlock(r))`: PostgreSQL looks for statements
that wait for each other (after `deadlock_timeout`) and fails one of them. Only a
request in the circle of `InCircle` is failed by it; all other failures stay free to
happen or not. No strong fairness is needed: a `Serve` step that is disabled again and
again (the connection is taken by others) is so only finitely often, because
each of the finitely many requests is served once. That is weaker than a server
under a load that never ends. In `Search` what ends a request is that its window
grows up to a maximum; it does not depend on others to stop changing the tables.
`Blocked` spells out what `Serve(r)` waits for; `NoStandstill` is about it. In Voting
some request can always go on. In Sessions there is one exception, and it takes two
connections: a deletion holds the row of `users` while its cascade waits for the
`password_resets` row a reset has claimed, and that reset waits for the row of `users`
in its `UPDATE` (`AuthController.cpp:1204`). One of the two clients gets a 500.

**Deadlock** is checked in every run but `accounts`: a state in which some request
can neither move nor fail would be reported. `Finished` is the only step allowed to
repeat when all requests are over. `accounts` may really stop, when its calendar and
as many requests as `MaxLoad` allows are over; nothing waits for anything there.

## Where the code departs from its documentation

Each is a run with expected outcome "violation", and a `finding` in
`PROJECT.json` that quotes the sentence.

1. `others` (`OthersKeepAnswers`). The first `DELETE` of `deleteAnswer`
   (`QuestionController.cpp:1526`) has no condition on the user: a withdrawal
   deletes everybody's answers to the question. Their tracking rows stay, so the
   others are not counted and cannot answer again. `Ballots.Withdraw` states the
   weaker promise that is kept.
2. `stored` (`CreatedIsStored`). The commit callbacks of Voting ignore the flag
   that tells whether COMMIT succeeded (`QuestionController.cpp:1415`, 2336;
   `deleteAnswer` likewise): 201 is sent for a vote that was not stored.
   `reset_password` does look at the flag.
3. `unapproved` (`OnlyApprovedAnswered`). The review status is read before the
   transaction and not again; an answer may be stored on a question that was
   rejected meanwhile. What still holds is proved: it had been reviewed
   (`NoVoteBeforeReview`).
4. `survivors` (`SessionsEndAtReset`). A login that verified the old password, or
   a refresh that checked a token, before a reset commits and stores its token
   afterwards keeps a good session. What still holds is proved: everything stored
   when the reset commits is revoked (`ResetRevokesStored`).
5. `inactive` (`ClaimReadsAccount`). `refresh` mints the access token with
   `is_active = true` without reading the account (`AuthController.cpp:986`).

Three more, which no run is spent on:

- `002_auth.sql:321` says that a reset token is "killed" (used = TRUE) after too many
  failures. Nothing sets `used` then, and only tokens that are used or expired ever
  collect attempts (`BudgetUnspent`, proved): the claiming `UPDATE` finds a live
  token at the first try, or its hash is not in the table at all.
- `BirthYearBucketer.hpp:34` says that the labels offered mirror exactly what
  `bucketBirthYear` produces up to `max_age`. That is so for a width that divides
  120; the width shipped is 10. With another width the last label is clipped
  (`BirthYearBucketer.cpp:45`) and the tags are not, so the answers of the oldest are
  under no label offered. `EveryAgeOffered` and `BucketsAreOffered` say both, for every
  width: an answer is counted under its own range alone, or under none if that range
  passes the largest age, which a width that divides the ages rules out.
- `register_user` answers 409 when its `SELECT` finds the name or address taken, and
  500 when it loses the race to the unique index afterwards; `update_me` tells the
  same error by its text and answers 409 (`ConflictWasReal` holds for both).

## Proofs

TLAPS checks all of them, for every number of users, questions, options, requests,
accounts and passwords, and every limit. The assumptions are named `...Assumption`
in the modules. `VotingAssumption` and `SessionsAssumption`: requests are finitely
many (for the pool's cardinality), options belong to one question and every question
has one, the limits are positive, the pool has one or two connections.
`SearchAssumption`: questions are finitely many, limits and windows are ordered as
the constants of the code are, and a widest window plus a largest limit is an int.
`AccountsAssumption` and `StatisticsAssumption` only keep the markers (no row, no
code, keep) apart from values.

| Theorem of `VotingProofs` | Property | Needs |
|---|---|---|
| `TypeCorrect` | `TypeOK` | |
| `OneVotePerUser` | `OneTrackingRow` | |
| `VotesAfterReview` | `NoVoteBeforeReview` | |
| `FailedRequestsLeaveNothing` | `ErrorsLeaveNoTrace` | |
| `SubmissionIsAtomic` | `SubmissionsWhole` | |
| `ConsentIsGenuine` | `ConsentWasGiven` | |
| `AnswersAreTracked` | `AnswersTracked` | `PoolSize = 1` |
| `NobodyCountedTwice` | `OneAnswerPerUser` | `PoolSize = 1` |
| `Refinement` | `ImplementsBallots` | `PoolSize = 1` |
| `TransactionsDontDeadlock` | `NoStandstill` | |

| Theorem of `SessionsProofs` | Property | Needs |
|---|---|---|
| `TypeCorrect` | `TypeOK` | |
| `OneResetPerToken` | `ResetOnce` | |
| `ResetIsAtomic` | `UsedMeansReset` | |
| `NoOrphanTokens` | `TokensHaveOwners` | |
| `RefreshRotates` | `RotationRevokes` | |
| `AttemptsStopNothing` | `BudgetUnspent` | |
| `ResetEndsStoredSessions` | `ResetRevokesStored` | `PoolSize = 1` |
| `NoRevival` | `EndedStaysEnded` | |
| `StandstillOnlyInCircle` | `NoStandstill` | |
| `CredentialsImplemented` | `ImplementsCredentials` | `PoolSize = 1` |

| Theorem of `AccountsProofs` | Property |
|---|---|
| `AccountsInductive` | `AccountsInvariant` |
| `UniqueAccounts` | `NoTwins` |
| `TrueConflicts` | `ConflictWasReal` |
| `LinksAddressed` | `LinkForAddressee` |

| Theorem of `StatisticsProofs` | Property |
|---|---|
| `BucketsAreOffered` | (of `AgeBuckets`: the range of an age is the only one offered that holds it, or is not offered because it passes the largest age) |
| `StatisticsInductive`, `StatisticsTypeCorrect` | `IInv`, `TypeOK` |
| `BallotsImplemented` | `ImplementsBallots` |
| `TrueTagsStored` | `TagsWereTrue` |
| `TrueSegments` | `SegmentsAreTrue` |
| `AgesOffered` | `EveryAgeOffered` |

| Theorem of `SearchProofs` | Property |
|---|---|
| `SearchInductive`, `SearchTypeCorrect` | `IInv`, `TypeOK` |
| `OnlyVisibleShown` | `ShowsVisible` |
| `FlagsAgree` | `FlagsTrue` |
| `OptionsComplete` | `EmptyMeansDeleted` |
| `ErrorsExplained` | `ErrorsHaveCause` |
| `PagesRight` | `PageRight` |
| `RequestsAdvance` | `WorkShrinks` |

**The invariant of Voting** (`IInv`, and `IInv1` with one connection). The
properties speak about committed rows; whether a COMMIT keeps them depends on
what is uncommitted. `HandlerOK` and `TransOK` say what `pc[r]` implies about
`call[r]` and `trans[r]`. `PendingUnique`: an uncommitted tracking row has no
rival, committed or not (that is what waiting for the primary key achieves), so
a COMMIT keeps `OneTrackingRow`. `CheckedReviewed`: a question once seen
approved is approved, rejected or gone, because nothing makes a question pending
again and ids are not reused; so the late COMMIT keeps `NoVoteBeforeReview`.
`DrawnPrivate`: nobody can name a question that is not committed.
`OneRowPerRequest` and `ErrorsLeaveNoTrace` go together: only a request that ends
with 201, or is lost, has rows. With one connection `OneTransaction` holds, so
what a withdrawal has collected is still complete when it commits
(`WithdrawalComplete`), and `AnswersTracked` survives.

*Nobody waits in a circle* (`NoStandstill`; in Sessions, but for the one circle of
`InCircle`). The argument is an order on statements. Storing an answer, submitting and committing wait for
nothing. If no request is there, a statement on a tracking row waits for nobody,
because only transactions past it have touched such a row (`TransOK`). If none is
there either, the `DELETE` of the answers is free in the same way; and with no
transaction open the pool has a connection and no row is locked. In Sessions the
order is: revoking and committing, the cascade of a deletion, the new password, the
claim, the rest. A cascade only waits for a reset that is to write the password, has
claimed a token of the account and is itself held up by this deletion: the circle.
With one connection no deletion begins while a reset is open (`OneTransaction`), so
there is none. An `INSERT`
with a drawn question id never waits for another one: ids come from a sequence.

**The invariant of Sessions.** `TokenOK` and `RowsOK` tie a token to the request
that drew it, which is over. `ClaimOK`: an open reset that claimed its token has
an unused row, and no second reset has claimed it; hence `ResetOnce` at the
COMMIT. `RefreshOK`: a refresh between its statements has its presented token's
row and, past `RefreshRevoke`, has revoked it, unless the account is gone; hence
`RotationRevokes` at the `INSERT`. `AttemptOK`: an attempt that waits to be
counted was refused because the token is used or expired, and both last; hence
`BudgetUnspent`, although the counting statement runs after the answer and
perhaps much later. `RevokesOwn`: what an open reset has revoked belongs to its user;
so only a reset about to commit holds locks on refresh tokens (`NoStandstill`). With
one connection nothing is stored while a reset is open (`RevokedAll`).

*Credentials* is implemented under the mapping `sessions` = the rows of
`refresh_tokens` that are not revoked, `links` = the unused rows of
`password_resets`, `drawn` = the tokens a client has received. `StoringSignsIn` (the
`INSERT` of a login or refresh), `RevokingSignsOut`, `AnsweringSendsLink`,
`CommittingRedeems` and `AccountsPromise` name the statements that are steps there;
`NothingPromised` says that every other statement changes nothing that `Credentials`
sees. The COMMIT of a reset is the interesting step: `RevokedAll` makes the revoked
tokens all that the user has, `RevokesOwn` makes them nobody else's, `ClaimOK` makes
the link one that was open. The abstract account that leaves takes its sessions and
links along; the cascades of the foreign keys do that. `EndedStaysEnded` says that
no statement sets `revoked` back, and no token is stored twice.

**The invariant of Accounts** (`AccountsInvariant`). `NoTwins` is inductive by
itself, since the statements that write are decided by the index and not by the
preflight. `PastOK`: the history of a request that is being served contains what is
in the table now, so a conflict found by any statement is in it
(`ConflictWasReal`). `SubjectOK`: the accounts that the `SELECT` of a forgotten
password found have had the address; the `INSERT` may come after they gave it up,
and the mail still goes where it was (`LinkForAddressee`).

**The invariant of Statistics** (`IInv`). It contains that of Accounts, which the
composition inherits because its steps are built from those of Accounts
(`AccountsRefined`; nothing is claimed by that). `HeldOK`: what a visit may have read includes the present; `TagsOK`: the
tags it carries to its transaction were true at one moment of it, hence
`TagsWereTrue` when they are stored. `AnswersOK`: votes and results refer to visits
that are over, whose history no longer changes, so what was true stays true whatever
becomes of the account. `BallotsImplemented` rests on that too: the
voter an answer is counted for does not change once it is stored (`BallotsStay`), so
storing adds one ballot for a voter without one, and withdrawing takes the ballots of
one question and the tracking row of one voter.

**The invariant of Search** (`IInv`). `HistoryOK`: `permitted` and `touched` contain
the present, `kept` is contained in it. `RowsOK`: the rows a search holds between its
statements were permitted when they were read, and a question whose options are
about to be read was seen. Each answer then takes its rows from `permitted` and its
flags from between `kept` and `touched`. `HandlerOK` ties the program counter to the
operation and to what the filter let through. All of that holds whatever others
change (`AnswersOK`). `WindowOK` is about a request during which nothing has changed:
the rows it holds are the first `window[r]` of some sorted result. `PageRight` follows
at the answer: the page is cut from the unanswered rows of that window, and the row
with rank `offset + k` of the window is the one with that rank in the whole result, if
the window holds enough (`WindowSuffices`, `PageOfWindow`). Pages are defined by rank
(the number of unanswered rows up to a position) and not by recursion, which is what
makes this provable: ranks are cardinalities, and grow by one at each unanswered row
(`Ranks`). An overflow of `offset + limit` takes the case that nothing is cut.

`ErrorsHaveCause` has two halves. `ErrorsSeen` holds whatever others change: a failed
search has converted a row that is among `permitted` and, in the unanswered search,
not among `kept`. `ErrorsMet` is about a request during which nothing has changed.
`FoundOK` says that the rows it holds are a page the first query may give, and
`WindowOK` that they are the head of a sorted result. The row that failed is then on
that page, or its rank in the window is at most `offset + limit + 1`: the loop of
`respondWithSearchResults` ends at the first unanswered row behind the page
(`ServeCauses`). What a search may find and meet stays as long as the tables do
(`CausesStay`).

`WorkShrinks` is the safety half of "the window stops growing": `Work(r)` bounds the
statements a request still sends, and each one lowers it.

**How the proofs are laid out.** `NextCases` lists the steps. Lemmas named
`...Next` show that a part of the invariant survives a step from the parts it
depends on; where several parts need to know what a step does to a table, that is
said once (`TokensStep`, `ResetsStep`, `Stable`, `Entered`, `Opened` in
`SessionsProofs`; `RowsShrinkSteps`, `CheckKeptSteps`, `EndedKept` in
`VotingProofs`). `SearchProofs` says once what an answer is good for (`Good`,
`Outcome`) and shows it of each handler; `AccountsProofs` and `StatisticsProofs` say
what moves (`RowsMove`, `LinksMove`, `VotesMove`, `ResultsMove`). TLC checks `IInv1`
in `answers` and `sessions`, and `IInv` in `search` and `accounts`.

**Only model-checked:** `EveryRequestEnds`, in three runs: liveness under fairness is
out of the prover's reach. Its two premises are proved: while a request is served,
one is not blocked or, in Sessions, is in the circle that the database breaks
(`NoStandstill`), and in Search each statement brings its request
nearer to the end (`WorkShrinks`). That `Blocked(r)` is what disables `Serve(r)` is
read off the guards: TLAPS does not reason about ENABLED. Where a theorem says
`PoolSize = 1`, nothing is claimed of two connections.

## Abstractions

- Categories, languages, names, genders, the columns that only pass through and the
  JSON of answers are left out; no modelled decision depends on them. A request body
  that fails validation is answered before the first statement. Wording appears in
  `Search` only: a call carries the questions its topic filters match, and with which
  text. Region is treated as nationality is by every statement, and left out.
- `hash_user_id` is injective on (user, question, key): a tracking row of Voting names
  the first two, one of Search all three. Voting has one key throughout.
- Statistics models the transactions of `answerQuestion` and `deleteAnswer` as one step
  each; Voting shows what goes on inside. Questions stay approved there. Its `tracked`
  names the voter, which the hash does.
- Codes come normalized to Accounts; which of them the tables know is `Known`.
- Signature, issuer and expiry of a token are one outcome, "invalid".
- In Search, every question has options, and they go with it (`SubmissionsWhole`
  of Voting shows why). Rows with equal `created_at` come in any order, another one in
  each query. Overflow of `offset + limit` gives the mathematical or the wrapped sum.
- Random tokens and sequence ids are fresh; a token stands for the request that
  drew it. Equal hashes are equal passwords.
- There is no clock. A token may expire at any time; any earlier reset request
  may be outside the rate limit's window, so the limit may or may not refuse once
  enough rows are there.
- A statement of a handler without transaction fails without effect, or succeeds
  and is answered. That its effect stays and the answer is an error (a connection
  broken in between) is modelled for COMMIT and for the `INSERT` of a registration.
- PostgreSQL's deadlock detection fails a statement, like any other error
  (`StatementFails`). `AbortDeadlock` is that step where statements do wait for each
  other; which of the two it hits is open.
- `get_user_by_id` reads `birth_year`, `gender` and `nationality` without asking whether
  they are NULL (`UserController.cpp:101-103`). What drogon's `as<>()` does then is not
  in the repository: the model allows a default (200) and an exception (500).
- An access token is good until it expires, whatever happens to the account: the
  identity in `call` need not exist any more.
- Lock waits are guards: a waiting statement takes effect when the lock is free,
  on the rows of that moment.

## Not modelled

- Reference data: constant tables and normalisation of codes; nothing changes state.
- Wiring, error bodies, CORS, generated models, deployment: no state and no decisions
  that concern the properties. The generated models are not used by these handlers.
- `hmac_key_version` is written and never read. Nothing migrates rows to a new key:
  after a change a user's earlier votes are not found, so they can be repeated and not
  withdrawn. Search models what a search shows then (`Restart`); Voting keeps one key.
- The clock of the reset tokens and of the rate limit's window, see above. That
  concurrent requests may pass the limit together is listed as a hazard.
- Memory: `executeUnansweredSearch` (1036) captures the closure in itself, so it is
  not freed. The request ends all the same (`EveryRequestEnds`).
- `/stats/meta` offers segments by the number of accounts, `/stats` withholds by the
  number of answers: what is offered may have no data. Both thresholds are modelled,
  no property relates them.

## What is left

1. Voting and Search composed step by step, with one pool: would show the same
   properties with the locks of Voting in the way of readers' statements.
2. Sessions and Voting composed through the access token: what a deactivated or
   deleted account can still do within the token's lifetime.
3. The key of the hash as a variable of Voting, with the votes of earlier keys.
4. A clock for the rate limit of `forgot_password`.
