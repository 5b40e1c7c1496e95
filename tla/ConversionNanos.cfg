CONSTANTS
  ExpBelow = 10
  ExpAbove = 10
  Precision = 5
  Precision32 = 4
  I8Max = 3
  I16Max = 7
  I32Max = 15
  I64Max = 255
  MsPerDay = 4
  MsPerSecond = 6
  MicrosPerMs = 6
  NanosPerMs = 28
  Numbers <- MCNumbers
  BigInts <- MCBigInts
SPECIFICATION Spec
INVARIANT WholeMillisReadBackWhole
CHECK_DEADLOCK FALSE
