CONSTANTS
  h1 = h1  g1 = g1
  Ids <- MCIds
  Hooks <- MCHooks
  Reloadable <- MCReloadable
  Timeout <- MCTimeout
  MaxDecisions = 2
  MaxCrashes = 1
  MaxFaults = 0
SPECIFICATION Spec
INVARIANTS RestartSafe
CHECK_DEADLOCK FALSE
