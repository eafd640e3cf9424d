SPECIFICATION Spec
CONSTANTS
  Users = {u1}
  Passwords = {p1, p2}
  Requests = {r1, r2, r3, r4}
  MaxRequests = 2
  MaxAttempts = 1
  PoolSize = 1
  Ops = {"login", "logout", "refresh", "forgot", "reset", "update", "inactive", "active", "deleteUser"}
SYMMETRY Symmetry
INVARIANTS ResetOnce UsedMeansReset TokensHaveOwners RotationRevokes BudgetUnspent IInv1
PROPERTIES ResetRevokesStored ImplementsCredentials
