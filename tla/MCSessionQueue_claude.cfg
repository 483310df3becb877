CONSTANTS
  u1 = u1
  u2 = u2
  n1 = n1
  n2 = n2
  l1 = l1
  Msgs <- MixedMsgs
  Prio <- MixedPrio
  Provider = "claude"
  Limit = 3
  None = None
SPECIFICATION FairSpec
INVARIANTS BacklogBounded NoLostWakeup CurrentIsLive NothingLost
PROPERTIES QueuedIsSettled
CHECK_DEADLOCK FALSE
