SPECIFICATION FairSpec
CONSTANTS
  MaxAttempts = 2
  LoopGuard = 6
  WorkspaceEnabled = TRUE
  Native = FALSE
  Controlled = TRUE
  MaxCrashes = 2
  MaxTaskResumes = 1
  Errors <- CoreErrors
CHECK_DEADLOCK FALSE
INVARIANTS
  ValidatorBackedCompletion
  TaskFollowsRun
PROPERTIES
  RunEnds
