SPECIFICATION AddSpec
INVARIANTS
  OkMeansAdded
CHECK_DEADLOCK FALSE
