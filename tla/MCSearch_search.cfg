SPECIFICATION FairSpec
CONSTANTS
  u1 = u1
  u2 = u2
  q1 = q1
  q2 = q2
  q3 = q3
  q4 = q4
  NoUser = NoUser
  NoAge = NoAge
  Users = {u1, u2}
  Questions = {q1, q2, q3, q4}
  Keys = {k1, k2}
  Texts = {"t1", "t2"}
  FirstText = "t1"
  Created <- MCCreated
  Translated = {q1, q2, q4}
  Seeded = {q1, q2, q3}
  SeededAge <- MCSeededAge
  Ages = {0, 1}
  DefaultLimit = 1
  MaxLimit = 2
  MinWindow = 2
  MaxWindow = 3
  MaxInt = 5
  Requests = {r1}
  Calls <- MCCalls
  Changes = {"submit", "approve", "reject", "changeText", "deleteQuestion", "answer", "withdraw", "deleteUser", "restart"}
  MaxChanges = 2
INVARIANTS ShowsVisible FlagsTrue PageRight EmptyMeansDeleted ErrorsHaveCause IInv
PROPERTIES EveryRequestEnds WorkShrinks
