CONSTANTS
  r1 = r1  r2 = r2  r3 = r3  r4 = r4
  Requests = {r1, r2, r3, r4}
  NoRequest = NoRequest
  MaxFaults = 2
  MaxCrashes = 2
  MaxExpiries = 2
SPECIFICATION FairSpec
INVARIANTS AtMostOnce NoFalseDuplicate
PROPERTIES EveryCallAnswered
CHECK_DEADLOCK FALSE
