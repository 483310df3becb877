CONSTANTS
  q1 = q1  q2 = q2  q3 = q3  u1 = u1  u2 = u2  None = None
  Msgs = {q1, q2, q3, u1, u2}
  Urgent = {u1, u2}
  Threshold = 2
  MaxGen = 5
  MaxRot = 3
  MaxFailures = 3
  MaxDeletes = 1
SPECIFICATION FairSpec
CHECK_DEADLOCK FALSE
INVARIANTS NothingLost AtMostOnce OneOfEach NoTurnCut
PROPERTIES MovesOn
CONSTRAINT InOrder
