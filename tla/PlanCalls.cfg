SPECIFICATION FairSpec
CONSTANTS
  Procs = {p1}
  Graph <- Join
  Gated = {3}
  Modes = {"LINEAR", "SIMPLE_DEPENDENCY"}
  Contexts = {"official", "handover"}
  HasVerifier = TRUE
  ReusedIds = {"PENDING"}
  MaxRepair = 1
  MaxReplans = 1
  MaxCalls = 3
  MaxCrashes = 1
CHECK_DEADLOCK FALSE
INVARIANTS
  VerifiedGrounded
  CompletedMeansDone
PROPERTIES
  VerifiedIsForever
  CallEnds
