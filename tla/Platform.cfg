SPECIFICATION PlatformSpec
CONSTANTS
  Components = {"delegation", "targets", "runners", "workspaces", "mcp", "tools", "launcher",
                "verified"}
  \* Delegation
  Children = {d1, d2}
  MaxChildren = 2
  MaxCrashes = 1
  \* TargetSwitch
  Targets = {"t1", "t2"}
  Configured = "t1"
  Procs = {p1, p2}
  MaxSwitches = 3
  \* ExperimentRunners
  Kinds = {"pilot", "canary", "dry"}
  NTasks = 1
  Arms <- MCArms
  Seed = 1
  Endpoints = {"e1", "e2"}
  MaxInvocations = 2
  \* WorkspaceSessions
  Files = {f1, f2}
  MaxVersions = 4
  MaxFaults = 2
  \* McpManager
  Callers = {c1, c2}
  Owner = owner0
  MaxGen = 2
  MaxId = 4
  MaxTrouble = 1
  \* ToolCalls
  Paths = {w1, w2}
  Errors = {"EXECUTION_FAILED"}
  MaxKeys = 1
  MaxRepeat = 2
  MaxCalls = 3
  \* BenchmarkLauncher
  RunIds = {1, 2}
  Selections = {{1}, {1, 2}}
  Profiles = {"phase4-v1", "cheap_model"}
  MaxLaunches = 3
  \* VerifiedState
  Candidates = {j1, j2}
  Contents = {x1}
  Elsewhere <- MCElsewhere
  MaxPresented = 2
  MaxObserved = 1
  MaxFeedbacks = 2
CHECK_DEADLOCK FALSE
INVARIANTS
  InstalledIsCommitted
  MarkerIsHonest
  BaselineIsASnapshot
  SignalIsRight
  ProgressIsBacked
  OneBenchmarkPerDirectory
  VerifiedIsEarned
PROPERTIES
  OutcomeStands
  NoAnswerDiscarded
