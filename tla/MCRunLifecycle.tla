--------------------------- MODULE MCRunLifecycle ---------------------------
(***************************************************************************)
(* RunLifecycle for TLC.  CoreErrors holds one failure for each way through*)
(* Classify and Decide: blocked provider, escalate at once, a structured   *)
(* budget error, retry with expanded context, plain retry.                 *)
(***************************************************************************)
EXTENDS RunLifecycle

CoreErrors == {"QUOTA_EXHAUSTED", "CONTEXT_CONFLICT", "BUDGET_EXHAUSTED", "STALE_CONTEXT",
               "UNKNOWN"}
BlockedOrNot == {"QUOTA_EXHAUSTED", "UNKNOWN"}
AllErrors == FailureTypes
============================================================================
