SPECIFICATION FairSpec
CONSTANTS
  none = none
  Calls = {"startStack", "error"}
  Kind <- MCKind
  Async = {}
  After <- MCAfter
  Nested <- MCNested
PROPERTIES
  NoDeadlock
CHECK_DEADLOCK FALSE
