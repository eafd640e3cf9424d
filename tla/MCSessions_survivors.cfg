SPECIFICATION Spec
CONSTANTS
  Users = {u1}
  Passwords = {p1}
  Requests = {r1, r2, r3}
  MaxRequests = 2
  MaxAttempts = 1
  PoolSize = 1
  Ops = {"login", "forgot", "reset"}
INVARIANT SessionsEndAtReset
