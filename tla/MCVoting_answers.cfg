SPECIFICATION Spec
CONSTANTS
  u1 = u1
  u2 = u2
  q1 = q1
  q2 = q2
  o1 = o1
  o2 = o2
  o3 = o3
  OptionsOf <- MCOptionsOf
  Users = {u1, u2}
  Questions = {q1}
  Options = {o1, o2, o3}
  Requests = {r1, r2, r3}
  Seeded = {q1}
  PoolSize = 1
  Ops = {"answer", "deleteAnswer", "approve", "reject", "deleteQuestion"}
SYMMETRY RequestUserSymmetry
INVARIANTS OneTrackingRow AnswersTracked OneAnswerPerUser ConsentWasGiven ErrorsLeaveNoTrace IInv1
PROPERTIES ImplementsBallots
