CONSTANTS
  Closers = {k1, k2}
  o1 = o1
  o2 = o2
  Ops = {o1, o2}
  MayCall <- MCMayCall
  BufCap = 1
SPECIFICATION Spec
INVARIANT OkMeansDown
