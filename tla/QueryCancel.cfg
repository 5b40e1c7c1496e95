CONSTANTS
  Calls = {c1}
  ChanCap = 1
  BufCap = 1
  MaxBatches = 3
SPECIFICATION FairSpec
PROPERTY CancelCancelsQuery
CHECK_DEADLOCK FALSE
