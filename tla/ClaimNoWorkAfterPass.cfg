CONSTANTS
  MaxAttempts = 1
  LoopGuard = 256
  WorkspaceEnabled = TRUE
  Native = TRUE
  Controlled = FALSE
  MaxCrashes = 1
  MaxTaskResumes = 1
  Errors <- BlockedOrNot
SPECIFICATION Spec
PROPERTY NoWorkAfterPass
CHECK_DEADLOCK FALSE
