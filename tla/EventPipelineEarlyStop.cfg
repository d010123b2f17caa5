SPECIFICATION Spec
CONSTANTS
  Handler = {h1, h2}
  InCap = 1
  OutCap = 1
  ErrCap = 2
  MaxQueries = 3
  EarlyStop = TRUE
INVARIANTS
  NoSendOnClosed
CHECK_DEADLOCK FALSE
