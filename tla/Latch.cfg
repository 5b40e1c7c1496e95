CONSTANTS
  Closers = {k1, k2}
  o1 = o1
  o2 = o2
  Ops = {o1, o2}
  MayCall <- MCMayCall
  BufCap = 2
SPECIFICATION FairSpec
INVARIANTS
  TypeOK
  OneAttempt
  LatchConverges
  QueriesAccounted
PROPERTIES
  Contract
  CallsSettle
