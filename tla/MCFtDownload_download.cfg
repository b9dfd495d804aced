SPECIFICATION Spec
CONSTANTS
  none = none
  Requests = {r1, r2}
  Threshold = 0
  MaxResend = 1
  MaxCancels = 1
  MaxCrashes = 1
SYMMETRY Symmetry
CONSTRAINT OneRetry
CHECK_DEADLOCK FALSE
INVARIANTS
  TypeOK
  RowHandled
  Decryptable
  ShownMeansPending
PROPERTIES
  ImplementsRetrieval
