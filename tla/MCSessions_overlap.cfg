SPECIFICATION FairSpec
CONSTANTS
  Users = {u1}
  Passwords = {p1}
  Requests = {r1, r2, r3}
  MaxRequests = 2
  MaxAttempts = 1
  PoolSize = 2
  Ops = {"login", "logout", "refresh", "forgot", "reset", "update", "inactive", "active", "deleteUser"}
INVARIANTS NoStandstill
PROPERTIES EndedStaysEnded EveryRequestEnds
