CONSTANTS
  u1 = u1
  u2 = u2
  n1 = n1
  n2 = n2
  l1 = l1
  Msgs <- MCMsgs
  Prio <- MCPrio
  Provider = "codex"
  Limit = 3
  None = None
SPECIFICATION FairSpec
INVARIANTS IInv AtMostOnce
PROPERTIES DroppedStaysDropped QueuedIsSettled
CHECK_DEADLOCK FALSE
