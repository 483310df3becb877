CONSTANTS
  h1 = h1  g1 = g1
  Ids <- MCIds
  Hooks <- MCHooks
  Reloadable <- MCReloadable
  Timeout <- MCTimeout
  MaxDecisions = 2
  MaxCrashes = 0
  MaxFaults = 0
SPECIFICATION FairSpec
INVARIANTS AuditFaithful
PROPERTIES FirstRulingCounts AnsweredAndForgotten
CHECK_DEADLOCK FALSE
