SPECIFICATION WriterSpec
CONSTANTS
  MaxLines = 2
  Window = 3
  MaxBuffer = 1
  MaxChunk = 4
  MaxBytes = 7
  MaxTime = 5
  MaxRestarts = 1
INVARIANTS
  BytesAccounted
  SuppressionReported
  LogRateBounded
CHECK_DEADLOCK FALSE
