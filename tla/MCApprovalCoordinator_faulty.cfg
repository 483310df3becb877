CONSTANTS
  h1 = h1  g1 = g1
  Ids <- MCIds
  Hooks <- MCHooks
  Reloadable <- MCReloadable
  Timeout <- MCTimeout
  MaxDecisions = 2
  MaxCrashes = 1
  MaxFaults = 1
SPECIFICATION Spec
INVARIANTS FailClosed WaitedForIsKnown PendingIsArmed SnapshotCurrent
CHECK_DEADLOCK FALSE
