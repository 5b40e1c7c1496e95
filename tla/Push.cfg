CONSTANTS
  Closers = {k1, k2}
  NoCloser = NoCloser
  Reentrant = TRUE
  ChanCap = 2
  Retain = 2
  MaxFrames = 4
SPECIFICATION FairSpec
INVARIANTS
  TypeOK
  StreamIntact
  OneHandlerAtATime
  SilentEndIsComplete
PROPERTIES
  Contract
  NoCallbackAfterClose
  ErrorThenClose
  CloseResolves
  PortalIsReleased
CHECK_DEADLOCK FALSE
