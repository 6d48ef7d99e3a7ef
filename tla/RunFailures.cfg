SPECIFICATION Spec
CONSTANTS
  MaxAttempts = 2
  LoopGuard = 3
  WorkspaceEnabled = FALSE
  Native = TRUE
  Controlled = TRUE
  MaxCrashes = 1
  MaxTaskResumes = 1
  Errors <- AllErrors
CHECK_DEADLOCK FALSE
INVARIANTS
  RetryOrder
