CONSTANTS
  p1 = p1
  Procs = {p1}
  MaxOutput = 1
  MaxLate = 1
  BufferLimit = 2
  MaxConns = 3
  MaxFaults = 1
SPECIFICATION FairSpec
INVARIANTS EachInOnePlace SidesAgree
PROPERTIES Reconnects
CHECK_DEADLOCK FALSE
