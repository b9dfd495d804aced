SPECIFICATION Spec
CONSTANTS
  none = none
  Calls = {"startStack", "error", "cleanDestroy", "restart", "endCall", "sendMessage"}
  Kind <- MCKind
  Async = {"endCall"}
  After <- MCAfter
  Nested <- MCNested
INVARIANTS
  TypeOK
  WaitsForItsJob
  NobodyForgotten
PROPERTIES
  InOrder
  ImplementsSerialJobs
CHECK_DEADLOCK FALSE
