SPECIFICATION CallSpec
CONSTANTS
  Ops <- OneAwait
  MaxTokens = 3
  MaxTime = 2
  Jitter = 1
  Calls = {"probe", "commit"}
  Commit = {"commit"}
  SideEffect = {"commit"}
  Idempotent = {}
  Keys <- MCKeys
  Tool <- MCTool
  Results <- MCResults
  TrialArms = {"A1", "A2", "A3", "A5"}
  RouteModes = {"route-v1"}
  MaxBatch = 2
  MaxTurns = 3
  MaxModelCalls = 3
  TokenBudgets = {1, 9}
  MaxRecovery = 2
CHECK_DEADLOCK FALSE
INVARIANTS
  BlameIsFounded
  EffectNotRepeated
  AnswerIsBacked
PROPERTIES
  NoLateResult
  AwaitsEnd
  HaltIsHalt
  TrialEnds
