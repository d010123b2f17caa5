SPECIFICATION FairSpec
CONSTANTS
  QueueCap = 2
  MaxChanges = 3
  MaxTouches = 3
INVARIANTS
  TypeOK
  ChangeNoticed
PROPERTIES
  Converges
  WatcherStops
CHECK_DEADLOCK FALSE
