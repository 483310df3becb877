CONSTANTS
  MaxRuns = 2
  Limits = {0, 1}
  s1 = s1  s2 = s2  Gone = Gone  Torn = Torn
  Slots = {s1, s2}
  MaxRequests = 2
  MaxTotal = 3
  MaxFailures = 2
  MaxCrashes = 1
SPECIFICATION FairSpec
CHECK_DEADLOCK FALSE
INVARIANTS RunsCounted ActiveHasJob
PROPERTIES UserDecides RunsEnd
