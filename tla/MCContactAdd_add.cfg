SPECIFICATION AddFairSpec
INVARIANTS
  AddedOrUntouched
  LocalRolledBack
PROPERTIES
  AddEnds
CHECK_DEADLOCK FALSE
