SPECIFICATION FairSpec
CONSTANTS
  Requests = {r1, r2, r3}
  MaxBuffer = 2
  MaxLines = 3
INVARIANTS
  WaitsAreBounded
  FailureReachesAll
PROPERTIES
  RequestsSettle
  CloseReaps
CHECK_DEADLOCK FALSE
