SPECIFICATION Spec
CONSTANTS
  u1 = u1
  u2 = u2
  q1 = q1
  q2 = q2
  o1 = o1
  o2 = o2
  o3 = o3
  OptionsOf <- MCOptionsOf
  Users = {u1}
  Questions = {q2}
  Options = {o3}
  Requests = {r1, r2, r3, r4}
  Seeded = {}
  PoolSize = 1
  Ops = {"submit", "approve", "reject", "answer", "deleteUser"}
SYMMETRY RequestSymmetry
INVARIANTS SubmissionsWhole NoVoteBeforeReview
