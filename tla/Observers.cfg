SPECIFICATION ObserversSpec
CONSTANTS
  \* RunLifecycle
  MaxAttempts = 2
  LoopGuard = 256
  WorkspaceEnabled = TRUE
  Native = TRUE
  Controlled = FALSE
  Errors <- Blocking
  MaxCrashes = 1
  MaxTaskResumes = 1
  \* ProductCli
  Profiles = {"mimo"}
  Threshold = 0
  MaxCalls = 1
  \* RecoveryControl
  Actions = {a1, a2}
  States = {s1, s2}
  Policies = {"NO_PROGRESS_AWARE", "LEGACY_BOUNDED"}
  RootCalls = 1
  Escalations = {"macro_replan"}
  MaxRepairs = 2
  MaxTurns = 3
SYMMETRY Sym
CHECK_DEADLOCK FALSE
INVARIANTS
  ReportIsTrue
  LivenessIsHonest
  EscalationIsEarned
