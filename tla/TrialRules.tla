---------------------------- MODULE TrialRules -----------------------------
(***************************************************************************)
(* The pure decisions behind one Phase 5 trial:                            *)
(*                                                                         *)
(*   ToolResultNormalizer, ExecutionAuthorizationGate  execution_control.py*)
(*   RecoveryRouteDecider                              recovery_route.py   *)
(*   ShadowProgressObserver                            shadow_observer.py  *)
(*   PolicyStrategy of the six arms                    control_arms.py     *)
(*   PublicEvidenceCompletionValidator                 runtime_validator.py*)
(*                                                                         *)
(* A call is one (tool, arguments) signature.  A raw tool result is a      *)
(* record [status, error, flag, ready, receipt, structured]: the status    *)
(* word, the class of the error value, the retryable/transient flag, the   *)
(* readiness keys with their values, whether the result declares itself    *)
(* idempotent, and whether its error or output value is not a string.  Two *)
(* results have the same digest exactly when the records are equal.        *)
(***************************************************************************)
EXTENDS Naturals, Sequences, FailurePolicy

CONSTANTS
  Calls,          \* the call signatures the model may propose
  Commit,         \* calls of commit-class tools: dependent, give no readiness
  SideEffect,     \* calls that change the outside world
  Idempotent,     \* calls whose tool is declared idempotent
  Tool,           \* the tool of a call
  Keys,           \* readiness keys
  MaxTurns        \* root turn budget, also the Phase 4 attempt limit

NoCall == "no-call"

----------------------------------------------------------------------------
(* Normalisation.  Statuses stand for their vocabularies; "confirmed" is a  *)
(* success of the gate only, "timeout" a failure of the gate only.          *)

Present(res) == { k \in Keys : res.ready[k] # "absent" }

ExecStatus(res) ==
  IF res.error # "none" \/ res.status \in {"error", "failed", "timeout"}
    THEN "FAILED"
  ELSE IF res.status \in {"success", "confirmed"} THEN "SUCCEEDED"
  ELSE "UNKNOWN"

ReadyStatus(c, res) ==
  IF Present(res) = {} \/ c \in Commit THEN "NO_EVIDENCE"
  ELSE IF \E k \in Keys : res.ready[k] = "no" THEN "NOT_READY"
  ELSE IF \A k \in Present(res) : res.ready[k] = "yes" THEN "READY"
  ELSE "UNKNOWN"

TransientBasis(res) ==
  /\ ExecStatus(res) # "SUCCEEDED"
  /\ \/ res.flag = "yes"
     \/ res.flag = "unset" /\ (res.status = "timeout" \/ res.error = "transient")

Retryability(res) ==
  IF ExecStatus(res) = "SUCCEEDED" THEN "NOT_RETRYABLE"
  ELSE IF TransientBasis(res) THEN "RETRYABLE"
  ELSE IF res.flag = "no" \/ res.error = "permanent" THEN "NOT_RETRYABLE"
  ELSE "UNKNOWN"

AffectsFollowups(c, res) ==
  /\ ReadyStatus(c, res) # "READY"
  /\ \/ ExecStatus(res) \in {"FAILED", "UNKNOWN"}
     \/ ReadyStatus(c, res) \in {"NOT_READY", "UNKNOWN"}

----------------------------------------------------------------------------
(* The authorization gate: readiness conditions, the unsafe-batch flag, the *)
(* last two attempts of every call (no rule looks further back) and the     *)
(* terminal flag.                                                           *)

NewGate ==
  [ cond |-> [k \in Keys |-> "clear"], unsafe |-> FALSE,
    att |-> [c \in Calls |-> << >>], terminal |-> FALSE ]

UpdatedConditions(g, c, res) ==
  [ k \in Keys |->
      IF ReadyStatus(c, res) = "NO_EVIDENCE" THEN g.cond[k]
      ELSE IF res.ready[k] = "yes" THEN "clear"
      ELSE IF res.ready[k] = "no" THEN "NOT_READY"
      ELSE IF res.ready[k] = "null" /\ g.cond[k] = "clear" THEN "DECLARED_UNKNOWN"
      ELSE g.cond[k] ]

Observe(g, c, res) ==
  LET cond   == UpdatedConditions(g, c, res)
      unsafe == g.unsafe \/ AffectsFollowups(c, res)
      all    == Append(g.att[c], [res |-> res, state |-> << cond, unsafe >>])
      recent == IF Len(all) > 2 THEN Tail(all) ELSE all
  IN  [g EXCEPT !.cond = cond, !.unsafe = unsafe, !.att[c] = recent]

Attempts(g, c) == IF c = NoCall THEN << >> ELSE g.att[c]

LastResult(g, c) == Attempts(g, c)[Len(Attempts(g, c))].res

PermanentFailure(g, c) ==
  /\ Attempts(g, c) # << >>
  /\ ExecStatus(LastResult(g, c)) = "FAILED"
  /\ Retryability(LastResult(g, c)) = "NOT_RETRYABLE"

\* The same non-success twice, with the same observable control state.
Looping(g, c) ==
  LET a == Attempts(g, c)
  IN  Len(a) = 2 /\ a[1] = a[2] /\ AffectsFollowups(c, a[2].res)

\* A broken repeat rule: a success is forgotten.
EvaluateRepeatForgetful(g, c) ==
  IF g.att[c] = << >> THEN "ALLOW"
  ELSE IF PermanentFailure(g, c) THEN "NO_PROGRESS_RETRY"
  ELSE IF Looping(g, c) /\ ~TransientBasis(LastResult(g, c))
    THEN "NO_PROGRESS_RETRY"
  ELSE "ALLOW"

EvaluateRepeat(g, c) ==
  IF g.att[c] = << >> THEN "ALLOW"
  ELSE IF PermanentFailure(g, c) THEN "NO_PROGRESS_RETRY"
  ELSE IF Looping(g, c) /\ ~TransientBasis(LastResult(g, c))
    THEN "NO_PROGRESS_RETRY"
  ELSE IF /\ c \in SideEffect \ Idempotent
          /\ ExecStatus(LastResult(g, c)) = "SUCCEEDED"
          /\ ~LastResult(g, c).receipt
    THEN "SIDE_EFFECT_REPEAT"
  ELSE "ALLOW"

Authorize(g, c, retry) ==
  IF g.terminal THEN "TERMINAL_CONTROL_STATE"
  ELSE IF /\ c \in Commit
          /\ \/ \E k \in Keys : g.cond[k] # "clear"
             \/ g.unsafe /\ ~retry
    THEN "DEPENDENCY_UNRESOLVED"
  ELSE EvaluateRepeat(g, c)

TerminalRules == {"TERMINAL_CONTROL_STATE", "NO_PROGRESS_RETRY"}

----------------------------------------------------------------------------
(* The route of a proposed recovery.                                        *)

StateChanged(g, c) ==
  LET a == Attempts(g, c)
      shows(x) == (Present(x.res) # {} \/ x.res.status # "absent")
  IN  /\ Len(a) = 2
      /\ shows(a[1]) /\ shows(a[2])
      /\ a[1].state # a[2].state

ReplanOrEscalate(replanned) == IF replanned THEN "ESCALATE" ELSE "REPLAN"

Route(mode, act, g, c, terminal, replanned) ==
  IF terminal THEN "STOP"
  ELSE IF act = "escalate" THEN "ESCALATE"
  ELSE IF act = "stop" THEN "STOP"
  ELSE IF mode = "baseline"
    THEN IF act = "retry_with_context" THEN "RETRY_CHANGED" ELSE "RETRY_SAME"
  ELSE IF PermanentFailure(g, c) THEN ReplanOrEscalate(replanned)
  ELSE IF Looping(g, c)
    THEN IF act = "retry" THEN "STOP" ELSE ReplanOrEscalate(replanned)
  ELSE IF act = "retry_with_context" THEN "RETRY_CHANGED"
  ELSE IF Attempts(g, c) # << >> /\ TransientBasis(LastResult(g, c)) THEN "RETRY_SAME"
  ELSE IF StateChanged(g, c) THEN "RETRY_CHANGED"
  ELSE "RETRY_SAME"

RouteAction(route) ==
  CASE route = "RETRY_SAME" -> "retry"
    [] route \in {"RETRY_CHANGED", "REPLAN"} -> "retry_with_context"
    [] route = "ESCALATE" -> "escalate"
    [] route = "STOP" -> "stop"

----------------------------------------------------------------------------
(* Arms, their strategies and the shadow observer.                          *)

Arms == {"A0", "A1", "A2", "A3", "A4", "A5"}
Odys == {"A3", "A4", "A5"}
Validates(arm) == arm \in Odys \cup {"A2"}
MaxRetries == 3

PublicFailure(res) == res.status \in {"error", "failure", "failed"} \/ res.error # "none"

StatusWord(res) ==
  IF res.status # "absent" THEN res.status
  ELSE IF res.error # "none" THEN "error" ELSE "unknown"

\* seen: the observer's window before this result, latest last (two suffice).
Signal(seen, c, res) ==
  LET word == StatusWord(res)
  IN  IF word = "error" THEN "ANOMALY"
      ELSE IF Len(seen) = 2 /\ seen[1].call = c /\ seen[2].call = c THEN "STALLED"
      ELSE IF seen # << >> /\ seen[Len(seen)].word = "success" /\ word # "success"
        THEN "REGRESSING"
      ELSE "NONE"

Seen(seen, c, res) ==
  LET all == Append(seen, [call |-> c, word |-> StatusWord(res)])
  IN  IF Len(all) > 2 THEN Tail(all) ELSE all

FailureOf(signal) ==
  CASE signal \in {"TOOL_ERROR", "ANOMALY"} -> "TOOL_ERROR"
    [] signal = "STALLED"    -> "STALE_CONTEXT"
    [] signal = "REGRESSING" -> "WRONG_MATCH"
    [] OTHER                 -> "UNKNOWN"

\* The Phase 4 policy's answer to the n-th delegated failure.
Delegate(signal, n) ==
  LET action == Decide(FailureOf(signal), n, MaxTurns)
  IN  CASE action \in RetryActions -> "retry_with_context"
        [] action = "ESCALATE"     -> "escalate"
        [] OTHER                   -> "stop"

\* The signal on which an Odys arm turns to the Phase 4 policy, if any.
Trigger(arm, signal, res) ==
  IF arm # "A4" /\ signal # "NONE" THEN signal
  ELSE IF PublicFailure(res) THEN "TOOL_ERROR" ELSE "NONE"

----------------------------------------------------------------------------
(* The completion validator, on the tools with an unresolved public failure *)
(* and on whether some public result was a success.                         *)

ExplicitSuccess(res) == res.status = "success"

Verdict(empty, unresolved, positive) ==
  IF empty \/ unresolved # {} THEN "REJECT"
  ELSE IF ~positive THEN "INDETERMINATE" ELSE "ACCEPT"
============================================================================
