SPECIFICATION FairSpec
CONSTANTS
  Targets = 2
  Timeout = 2
  Interval = 3
  A = {1}
  AAAA = {2}
INVARIANTS
  Accurate
  PassedLayersWork
  ResultsFresh
PROPERTIES
  RunStops
CHECK_DEADLOCK FALSE
