CONSTANTS
  Closers = {k1, k2}
  NoCloser = NoCloser
  Reentrant = TRUE
  ChanCap = 1
  Retain = 1
  MaxFrames = 2
SPECIFICATION FairSpec
PROPERTY CloseAlwaysResolves
CHECK_DEADLOCK FALSE
