SPECIFICATION FairSpec
CONSTANTS
  Tasks <- BranchTasks
  Prepared <- BranchTasks
  Deps <- BranchDeps
  Last = "store"
  RunAnyway = {}
  CustomFinish = FALSE
INVARIANTS
  TypeOK
  OkMeansAllDone
  NoWorkAfterFailure
PROPERTIES
  CancelIsFinal
  EndsUncancelled
  EndsIfSomeoneRuns
CHECK_DEADLOCK FALSE
