CONSTANTS
  a1 = a1  a2 = a2  a3 = a3  b = b  c = c  p = p  q = q  r = r
  Writers = {a1, a2, a3, b, c}
  Procs = {p, q, r}
  ProcOf <- MCProcOf
  None = None
  UseStale = TRUE
  MaxCrashes = 1
  MaxFailures = 1
SPECIFICATION FairSpec
INVARIANTS ExclusiveUnlessWrong OnlyBreakersCollide NoLeftover
PROPERTIES WritersEnd
CHECK_DEADLOCK FALSE
CONSTRAINT InOrder
