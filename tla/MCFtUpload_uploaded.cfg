SPECIFICATION Spec
CONSTANTS
  Threshold = 1
  MaxResend = 1
  MaxChecks = 0
  MaxCancels = 0
  MaxRestarts = 0
CHECK_DEADLOCK FALSE
INVARIANTS
  UploadedMeansStored
