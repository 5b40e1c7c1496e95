CONSTANTS
  Capacity = 2
  Payloads <- MCPayloads
  MaxCalls = 3
  MaxMark = 1
SPECIFICATION Spec
INVARIANTS
  TypeOK
  LogIntact
  AnswersAccount
PROPERTY ClosedWriterIsQuiet
CHECK_DEADLOCK FALSE
