CONSTANTS
  Calls = {c1, c2}
  ChanCap = 2
  BufCap = 2
  MaxBatches = 5
SPECIFICATION FairSpec
INVARIANTS
  TypeOK
  StreamIntact
  NullMeansComplete
PROPERTIES
  Contract
  PendingCallsWake
  AbandonedQueryEnds
CHECK_DEADLOCK FALSE
