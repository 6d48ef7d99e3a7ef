SPECIFICATION OfferedSpec
CONSTANTS
  c1 = c1
  c2 = c2
  c3 = c3
  c4 = c4
  c5 = c5
  c6 = c6
  c7 = c7
  CallIds = {c1, c2, c3, c4, c5, c6, c7}
  Kind <- Tools
  Keyed = FALSE
  MaxTurns = 3
  MaxToolCalls = 2
  MaxBatch = 2
  MaxRuns = 3
CHECK_DEADLOCK FALSE
INVARIANTS
  EffectAtMostOnce
  SafeToRetryIsSafe
  CompletedIsAccepted
  NothingOpenAtModelCall
  LedgersAgree
  ExternalReceiptsHonest
PROPERTIES
  NothingStartsAfterStop
  KernelReturns
