SPECIFICATION FairSpec
CONSTANTS
  Handler = {h1, h2}
  InCap = 1
  OutCap = 1
  ErrCap = 2
  MaxQueries = 3
  EarlyStop = FALSE
INVARIANTS
  Conservation
  NoSendOnClosed
  NothingStranded
PROPERTIES
  ShutdownCompletes
CHECK_DEADLOCK FALSE
