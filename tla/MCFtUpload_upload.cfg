SPECIFICATION Spec
CONSTANTS
  Threshold = 1
  MaxResend = 2
  MaxChecks = 2
  MaxCancels = 1
  MaxRestarts = 1
CHECK_DEADLOCK FALSE
INVARIANTS
  TypeOK
  RowHandled
  StoredOnce
  Resumable
PROPERTIES
  ImplementsDelivery
  EveryUploadEnds
