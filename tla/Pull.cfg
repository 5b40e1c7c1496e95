CONSTANTS
  Calls = {c1, c2}
  ChanCap = 2
  Retain = 2
  MaxFrames = 4
SPECIFICATION FairSpec
INVARIANTS
  TypeOK
  StreamIntact
  InactiveOnceOver
  NullMeansComplete
PROPERTIES
  Contract
  PendingCallsWake
  ReaderLearnsOfTheEnd
  PortalReleased
CHECK_DEADLOCK FALSE
