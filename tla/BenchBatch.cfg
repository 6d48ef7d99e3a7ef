\* Two runs of a benchmark batch, all launchers, one crash.
SPECIFICATION FairSpec
CONSTANTS
  MaxProviderCalls = 2
  NRuns = 2
  Assignments <- MCAssignments
  Launchers = {"runner", "tracing", "controller"}
  MaxCrashes = 1
  Identities <- MCIdentities
INVARIANTS
  BudgetIsShared
  VerdictAgrees
  DoneIsComplete
PROPERTIES
  KeepsPromise
  BatchEnds
