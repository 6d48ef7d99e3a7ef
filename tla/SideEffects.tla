---------------------------- MODULE SideEffects ----------------------------
(***************************************************************************)
(* The pure part of the side-effect boundary: how a tool is classified     *)
(* (src/lhas/native/tools.py) and how a receipt moves (src/lhas/           *)
(* side_effects.py).  A receipt is abstracted to its status; its effect    *)
(* class follows from the kind of the call.                                *)
(***************************************************************************)

None == "NONE"

\* What a call can be: a read, a staged workspace edit, a delegation, a tool
\* that only says side_effect=True, or one that declares an external class.
Kinds == {"read", "edit", "delegate", "legacy",
          "idempotent", "receipt", "unverifiable"}

SideEffectClass(kind) ==
  CASE kind = "read"     -> "READ_ONLY"
    [] kind = "edit"     -> "WORKSPACE_MUTATION"
    [] kind = "delegate" -> "DELEGATION"
    [] OTHER             -> "EXTERNAL"

EffectClass(kind) ==
  CASE kind \in {"read", "delegate"} -> "NONE"
    [] kind = "edit"                 -> "LOCAL_REVERSIBLE"
    [] kind = "legacy"               -> "LOCAL_DURABLE"
    [] kind = "idempotent"           -> "EXTERNAL_IDEMPOTENT"
    [] kind = "receipt"              -> "EXTERNAL_RECEIPT"
    [] kind = "unverifiable"         -> "EXTERNAL_UNVERIFIABLE"

LocalClasses == {"LOCAL_REVERSIBLE", "LOCAL_DURABLE"}

ReceiptStatuses == {"REQUEST_CREATED", "DISPATCH_STARTED", "COMMITTED",
                    "OBSERVED", "RECONCILED", "COMMIT_STATE_UNKNOWN"}

\* Once here a receipt is never moved back.
Settled == {"COMMITTED", "OBSERVED"}

MarkDispatchStarted(status) ==
  IF status = "REQUEST_CREATED" THEN "DISPATCH_STARTED" ELSE status

MarkCommitted(status) == IF status \in Settled THEN status ELSE "COMMITTED"

MarkUnknown(status) ==
  IF status \in Settled THEN status ELSE "COMMIT_STATE_UNKNOWN"

\* A broken Reconcile: every class is looked up in the workspace.
ReconcileAnyClass(class, status, present) ==
  IF status \in Settled \cup {"RECONCILED"} THEN status
  ELSE IF present = "yes" THEN MarkCommitted(status)
  ELSE IF present = "no" THEN "RECONCILED"
  ELSE MarkUnknown(status)

\* reconcile without a lookup, as the dispatcher calls it; present is "yes",
\* "no" or "unknown".
Reconcile(class, status, present) ==
  IF status \in Settled \cup {"RECONCILED"} THEN status
  ELSE IF class \in LocalClasses /\ present = "yes" THEN MarkCommitted(status)
  ELSE IF class \in LocalClasses /\ present = "no" THEN "RECONCILED"
  ELSE MarkUnknown(status)

\* The receipt layer's own answer to "may this be done again?".
ReplayDecision(class, status, keyed) ==
  CASE status \in Settled                    -> "REUSE_COMMITTED"
    [] status = "RECONCILED"                 -> "SAFE_TO_RETRY"
    [] status = "COMMIT_STATE_UNKNOWN"       -> "REQUIRE_HUMAN"
    [] status \in {"REQUEST_CREATED", "DISPATCH_STARTED"} ->
         IF class = "EXTERNAL_IDEMPOTENT" /\ keyed THEN "SAFE_TO_RETRY"
         ELSE IF class = "EXTERNAL_UNVERIFIABLE" THEN "REQUIRE_HUMAN"
         ELSE "RECONCILE_FIRST"
============================================================================
