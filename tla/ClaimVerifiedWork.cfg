SPECIFICATION FairSpec
CONSTANTS
  Procs = {p1}
  Graph <- Join
  Gated = {}
  Modes = {"SIMPLE_DEPENDENCY"}
  Contexts = {"plain"}
  HasVerifier = TRUE
  ReusedIds = {"PENDING", "VERIFIED"}
  MaxRepair = 0
  MaxReplans = 1
  MaxCalls = 1
  MaxCrashes = 0
CHECK_DEADLOCK FALSE
PROPERTY
  VerifiedIsForever
