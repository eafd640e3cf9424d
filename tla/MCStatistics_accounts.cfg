SPECIFICATION Spec
CONSTANTS
  a1 = a1
  Registered = {a1}
  Requests = {r1, r2}
  Names = {n1, n2}
  Emails = {e1, e2}
  Codes = {c1, c2}
  Known = {c1}
  NoCode = NoCode
  Keep = Keep
  NoRow = NoRow
  Ops = {"register", "update", "get_user_by_id", "list_users", "forgot", "delete_user"}
  Visits = {v1, v2, v3}
  Questions = {q1}
  BirthYear <- MCBirthYear
  FirstYear = 2024
  LastYear = 2025
  BucketSize = 50
  MinAnswers = 1
  Filters <- MCFilters
  MaxLoad = 4
  VisitOps = {"answer", "withdraw", "stats", "meta"}
SYMMETRY Symmetry
CHECK_DEADLOCK FALSE
INVARIANTS NoTwins ConflictWasReal LinkForAddressee TagsWereTrue SegmentsAreTrue EveryAgeOffered IInv
PROPERTIES ImplementsBallots
