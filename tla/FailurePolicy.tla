--------------------------- MODULE FailurePolicy ---------------------------
(***************************************************************************)
(* The two pure decision functions of the recovery pipeline:               *)
(*                                                                         *)
(*   RuleFailureClassifier.classify   src/lhas/failure.py                  *)
(*   DefaultRecoveryPolicy.decide     src/lhas/recovery.py                 *)
(*                                                                         *)
(* The classifier looks for signatures in one text made of the attempt's   *)
(* and of the persisted result's error type and message.  That text is     *)
(* abstracted to the set of the signatures it mentions.                    *)
(***************************************************************************)
EXTENDS Naturals

None == "NONE"

\* Failures for which the provider route itself is blocked.
ProviderBlocked ==
  {"QUOTA_EXHAUSTED", "BILLING_OR_CREDIT_EXHAUSTED", "AUTH_INVALID"}

\* Signatures looked for in the error text: the ones that win over the attempt
\* status, and the ones that only matter when the attempt neither timed out
\* nor crashed.  The order is the order of the tests in the code.
ProviderSignatures ==
  << "QUOTA_EXHAUSTED", "BILLING_OR_CREDIT_EXHAUSTED", "AUTH_INVALID",
     "PROVIDER_TIMEOUT", "PROVIDER_UNAVAILABLE",
     "MALFORMED_PROVIDER_RESPONSE", "UNKNOWN_PROVIDER_FAILURE" >>

LateSignatures ==
  << "NETWORK_ERROR", "TOOL_ERROR", "MISSING_CONTEXT", "STALE_CONTEXT",
     "CONTEXT_CONFLICT", "CONTEXT_OVERLOAD" >>

FailureTypes ==
  { ProviderSignatures[i] : i \in 1..7 }
    \cup { LateSignatures[i] : i \in 1..6 }
    \cup { "BUDGET_EXHAUSTED", "TIMEOUT", "EXECUTOR_CRASH",
           "MISSING_REQUIRED_FIELD", "UNKNOWN" }

Mentions(signatures, size, text) == \E i \in 1..size : signatures[i] \in text

\* The first signature of the list that the text mentions.
FirstMentioned(signatures, size, text) ==
  signatures[ CHOOSE i \in 1..size :
                /\ signatures[i] \in text
                /\ \A j \in 1..(i - 1) : signatures[j] \notin text ]

\* The failure type of an attempt that ended with the given status.  "text" is
\* the set of signatures in the whole error text, "typed" the structured error
\* types alone, "verdict" the persisted validation ("pass", "fail" or None).
\* A failed validation also yields WRONG_MATCH, BAD_RANKING or EMPTY_RESULT in
\* the code; the policy treats all four alike, so one of them stands for all.
Classify(status, text, typed, verdict) ==
  IF Mentions(ProviderSignatures, 7, text)
    THEN FirstMentioned(ProviderSignatures, 7, text)
  ELSE IF "BUDGET_EXHAUSTED" \in typed THEN "BUDGET_EXHAUSTED"
  ELSE IF status = "TIMED_OUT" THEN "TIMEOUT"
  ELSE IF status = "CRASHED" THEN "EXECUTOR_CRASH"
  ELSE IF Mentions(LateSignatures, 6, text)
    THEN FirstMentioned(LateSignatures, 6, text)
  ELSE IF verdict = "fail" THEN "MISSING_REQUIRED_FIELD"
  ELSE "UNKNOWN"

----------------------------------------------------------------------------
RetryActions == {"RETRY_WITH_FAILURE_CONTEXT", "RETRY_WITH_EXPANDED_CONTEXT"}

RecoveryActions == RetryActions \cup {"ESCALATE", "BLOCK_PROVIDER"}

\* What the policy does about failure type ft of attempt number n.  Its
\* APPROVAL_REQUIRED branch is left out: RuleFailureClassifier never reports it.
Decide(ft, n, maxAttempts) ==
  CASE ft = "CONTEXT_CONFLICT"   -> "ESCALATE"
    [] ft \in ProviderBlocked    -> "BLOCK_PROVIDER"
    [] OTHER ->
         IF n >= maxAttempts THEN "ESCALATE"
         ELSE IF ft = "STALE_CONTEXT" THEN "RETRY_WITH_EXPANDED_CONTEXT"
         ELSE IF ft \in {"MISSING_CONTEXT", "TIMEOUT"} \/ n = 1
                THEN "RETRY_WITH_FAILURE_CONTEXT"
         ELSE "RETRY_WITH_EXPANDED_CONTEXT"
============================================================================
