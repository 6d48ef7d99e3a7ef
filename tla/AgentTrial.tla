---------------------------- MODULE AgentTrial -----------------------------
(***************************************************************************)
(* One Phase 5 trial, from execute_trial to its validity:                  *)
(*                                                                         *)
(*   execute_trial             src/lhas/phase5/trial_executor.py           *)
(*   the ToolMaze adapter      src/lhas/phase5/agent_adapter.py            *)
(*   Phase5AgentCore           src/lhas/phase5/agent_core.py               *)
(*   RecoveryBudgetGate        src/lhas/phase5/recovery_budget.py          *)
(*   BudgetedModelDriver       src/lhas/phase5/model_driver.py             *)
(*   LiveModelDriver           src/lhas/phase5/live_driver.py              *)
(*                                                                         *)
(* The frozen benchmark engine is outside the repository: it calls the     *)
(* adapter's step, executes the one call it gets back, reports the result, *)
(* and stops at a final answer or after its round limit.  The adapter holds *)
(* the model's batch and releases one authorized call at a time; the core   *)
(* owns recovery; the driver owns the root budget.                          *)
(***************************************************************************)
EXTENDS TrialRules, FiniteSets

CONSTANTS
  TrialArms,      \* the arms to run
  RouteModes,     \* route-v1 and baseline
  Results,        \* raw results the tools may return
  MaxBatch,       \* largest batch the model proposes
  MaxModelCalls,  \* root model-call budget
  TokenBudgets,   \* root token budgets to try; every response costs one unit
  MaxRecovery     \* recovery interventions of A3 and A4

ASSUME TrialConstants ==
  /\ TrialArms \subseteq Arms /\ NoCall \notin Calls
  /\ {MaxTurns, MaxBatch, MaxModelCalls, MaxRecovery} \cup TokenBudgets
       \subseteq Nat

VARIABLES
  trial,   \* arm, route mode, token budget, engine rounds, why it ended, its validity
  pc,      \* where control is
  gate,    \* the execution authorization gate
  core,    \* Phase5AgentCore
  held,    \* calls the adapter retains, then the one it released
  driver,  \* model calls used and tokens spent
  strat    \* the strategy's counters and the observer's window

vars == << trial, pc, gate, core, held, driver, strat >>

Batches == UNION { [1..n -> Calls] : n \in 1..MaxBatch }
RoundGuard == MaxTurns + MaxModelCalls

NewCore ==
  [ flag |-> FALSE, kind |-> "NONE", pending |-> "none", pcall |-> NoCall,
    last |-> NoCall, batch |-> << >>, processed |-> {}, used |-> 0,
    replanned |-> {}, unresolved |-> {}, positive |-> FALSE, final |-> "none" ]

Init ==
  /\ \E a \in TrialArms, m \in RouteModes, t \in TokenBudgets :
       trial = [ arm |-> a, mode |-> m, tokens |-> t, rounds |-> 0,
                 reason |-> "pending", validity |-> "pending" ]
  /\ pc = "setup"
  /\ gate = NewGate
  /\ core = NewCore
  /\ held = [queue |-> << >>, released |-> << >>]
  /\ driver = [calls |-> 0, tokens |-> 0]
  /\ strat = [retries |-> 0, attempt |-> 0, seen |-> << >>]

End(reason) ==
  /\ trial' = [trial EXCEPT !.reason = reason]
  /\ pc' = "classify"

----------------------------------------------------------------------------
(* Wiring the trial: the evidence ledger may be missing (fatal only to the   *)
(* arms that validate), and the benchmark checkout may be.                   *)

Unwired(reason) ==
  /\ trial' = [trial EXCEPT !.reason = reason, !.validity = "INVALID_INFRA"]
  /\ pc' = "done"

Setup ==
  /\ pc = "setup"
  /\ UNCHANGED << gate, core, held, driver, strat >>
  /\ \/ pc' = "adapter" /\ UNCHANGED trial
     \/ Validates(trial.arm) /\ Unwired("evidence_ledger_error")
     \/ Unwired("toolmaze_unavailable")

----------------------------------------------------------------------------
(* The adapter's step: retained calls are released one at a time.            *)

TerminalPending(c) == c.flag \/ c.pending \in {"escalate", "stop"}

\* record_blocked_tool_call: the call gets a synthetic answer, so its slot of
\* the active batch is resolved; nothing is executed.
Blocked(c, record) ==
  IF record.index \in 1..Len(c.batch)
    THEN [c EXCEPT !.processed = @ \cup {record.index}] ELSE c

\* All retained calls are refused.
BlockRemaining(c, queue) ==
  LET slots == { queue[i].index : i \in 1..Len(queue) }
  IN  [c EXCEPT !.processed = @ \cup (slots \cap 1..Len(c.batch))]

\* A broken form: the refused calls are not dropped.
HaltHeldKeeps ==
  /\ pc = "adapter" /\ held.queue # << >> /\ TerminalPending(core)
  /\ core' = BlockRemaining(core, held.queue)
  /\ UNCHANGED << trial, pc, gate, held, driver, strat >>

HaltHeld ==
  /\ pc = "adapter" /\ held.queue # << >> /\ TerminalPending(core)
  /\ core' = BlockRemaining(core, held.queue)
  /\ held' = [held EXCEPT !.queue = << >>]
  /\ UNCHANGED << trial, pc, gate, driver, strat >>

\* A broken guard: a pending terminal decision does not stop retained calls.
MayProposeAlways == held.queue # << >>
MayPropose == held.queue # << >> /\ ~TerminalPending(core)

Propose ==
  /\ pc = "adapter" /\ MayPropose
  /\ LET record == Head(held.queue)
         rule   == Authorize(gate, record.call, record.retry)
     IN  \/ /\ rule = "ALLOW"
            /\ held' = [queue |-> Tail(held.queue), released |-> << record >>]
            /\ pc' = "tool"
            /\ UNCHANGED << trial, gate, core >>
         \/ /\ rule # "ALLOW" /\ rule \notin TerminalRules
            /\ held' = [held EXCEPT !.queue = Tail(@)]
            /\ core' = Blocked(core, record)
            /\ UNCHANGED << trial, pc, gate >>
         \/ /\ rule \in TerminalRules
            /\ held' = [held EXCEPT !.queue = << >>]
            /\ core' = [BlockRemaining(core, held.queue) EXCEPT
                          !.flag = TRUE, !.kind = "STOP", !.final = "terminated"]
            /\ gate' = [gate EXCEPT !.terminal = TRUE]
            /\ End("completed")
  /\ UNCHANGED << driver, strat >>

AskCore ==
  /\ pc = "adapter" /\ held.queue = << >>
  /\ pc' = "core"
  /\ UNCHANGED << trial, gate, core, held, driver, strat >>

\* The adapter takes over a batch: begin_batch clears the unsafe flag.
Hold(calls, retry) ==
  /\ held' = [ queue |-> [ i \in 1..Len(calls) |->
                             [call |-> calls[i], index |-> i, retry |-> retry] ],
               released |-> << >> ]
  /\ gate' = [gate EXCEPT !.unsafe = FALSE]
  /\ pc' = "adapter"

----------------------------------------------------------------------------
(* Phase5AgentCore.next_model_action.                                        *)

Finish(final) ==
  /\ core' = [core EXCEPT !.final = final]
  /\ End("completed")
  /\ UNCHANGED << gate, held, driver, strat >>

Terminated ==
  /\ pc = "core" /\ core.flag
  /\ Finish("terminated")

\* A pending escalation or stop takes effect.
Escalated ==
  /\ pc = "core" /\ ~core.flag /\ core.pending \in {"escalate", "stop"}
  /\ core' = [core EXCEPT !.flag = TRUE, !.pending = "none", !.pcall = NoCall,
                          !.final = "terminated"]
  /\ End("completed")
  /\ UNCHANGED << gate, held, driver, strat >>

RetrySource == IF core.pcall # NoCall THEN core.pcall ELSE core.last

\* A pending retry replays its call, without asking the model.
Replay ==
  /\ pc = "core" /\ ~core.flag /\ core.pending = "retry" /\ RetrySource # NoCall
  /\ core' = [core EXCEPT !.pending = "none", !.pcall = NoCall,
                          !.last = RetrySource,
                          !.batch = << >>, !.processed = {}]
  /\ Hold(<< RetrySource >>, TRUE)
  /\ UNCHANGED << trial, driver, strat >>

\* Otherwise the model is asked; a retry with context only adds a message.
\* Asking while a call of the last batch is unanswered is a protocol error.
AsksModel ==
  /\ pc = "core" /\ ~core.flag
  /\ \/ core.pending \in {"none", "retry_with_context"}
     \/ core.pending = "retry" /\ RetrySource = NoCall

Unanswered == core.processed # 1..Len(core.batch)

Cleared == [core EXCEPT !.pending = "none", !.pcall = NoCall,
                        !.batch = << >>, !.processed = {}]

BudgetGone == driver.calls >= MaxModelCalls \/ driver.calls >= MaxTurns

\* BudgetExhausted, and the name execute_trial finds for it.
Exhausted(tokens, calls) ==
  End(IF tokens >= trial.tokens THEN "TOKEN_BUDGET_EXHAUSTED"
      ELSE IF calls >= MaxTurns THEN "TURN_BUDGET_EXHAUSTED"
      ELSE "MODEL_CALL_BUDGET_EXHAUSTED")

\* The model cannot be asked: a call is unanswered, or the budget is gone.
CannotAsk ==
  /\ AsksModel /\ (Unanswered \/ BudgetGone)
  /\ IF Unanswered THEN End("infrastructure_error")
     ELSE Exhausted(driver.tokens, driver.calls)
  /\ core' = Cleared
  /\ UNCHANGED << gate, held, driver, strat >>

\* One request that the root budget allows.
MayAsk == AsksModel /\ ~Unanswered /\ ~BudgetGone

\* It is answered, and the answer is paid for.
Request ==
  /\ MayAsk
  /\ driver.tokens < trial.tokens
  /\ driver' = [calls |-> driver.calls + 1, tokens |-> driver.tokens + 1]

\* The answer overruns the token budget and is discarded.
OutOfTokens ==
  /\ MayAsk
  /\ driver.tokens = trial.tokens
  /\ driver' = [calls |-> driver.calls + 1, tokens |-> driver.tokens + 1]
  /\ Exhausted(driver'.tokens, driver'.calls)
  /\ core' = Cleared
  /\ UNCHANGED << gate, held, strat >>

\* The live driver makes one HTTP attempt and rejects a malformed answer.
ProviderFails ==
  /\ MayAsk
  /\ driver' = [driver EXCEPT !.calls = @ + 1]
  /\ \E r \in {"provider_transport_failure", "provider_protocol_failure"} : End(r)
  /\ core' = Cleared
  /\ UNCHANGED << gate, held, strat >>

\* The model proposes a batch of tool calls.
ProposeBatch ==
  /\ Request
  /\ \E calls \in Batches :
       /\ core' = [Cleared EXCEPT !.batch = calls, !.last = calls[1]]
       /\ Hold(calls, FALSE)
  /\ UNCHANGED << trial, strat >>

----------------------------------------------------------------------------
(* Recovery: the route first, then the recovery budget.                      *)

\* The first decision of a batch owns the recovery slot.
SlotFree(c) == c.pending = "none"

\* Only the arms that recover under a budget are held to it.
BudgetAllows(c) == trial.arm \notin {"A3", "A4"} \/ c.used < MaxRecovery

AuthorizeRecovery(c, g, act, call) ==
  LET route == Route(trial.mode, act, g, call, g.terminal \/ c.flag,
                     call \in c.replanned)
      known == IF route = "REPLAN"
                 THEN [c EXCEPT !.replanned = @ \cup {call}] ELSE c
      taken == [known EXCEPT !.pending = RouteAction(route), !.pcall = call]
  IN  IF ~SlotFree(c) THEN c
      ELSE IF route = "STOP" THEN [taken EXCEPT !.kind = "STOP"]
      ELSE IF route = "ESCALATE" THEN [taken EXCEPT !.kind = "ESCALATION"]
      ELSE IF ~BudgetAllows(c)
        THEN [known EXCEPT !.flag = TRUE, !.kind = "BUDGET_EXHAUSTION"]
      ELSE [taken EXCEPT !.used = IF trial.arm \in Odys THEN @ + 1 ELSE @]

----------------------------------------------------------------------------
(* The model answers: the candidate is validated by the arms that validate.  *)

\* Broken: a rejected candidate of a recovering arm is returned.
RejectedReturned ==
  /\ core' = [Cleared EXCEPT !.final = "answer"]
  /\ End("completed")
  /\ UNCHANGED strat

\* A rejected candidate, in an arm that recovers: the Phase 4 policy decides.
Rejected ==
  LET n == strat.attempt + 1
      c == AuthorizeRecovery(Cleared, gate, Delegate("VALIDATION_REJECT", n),
                             core.last)
  IN  /\ strat' = [strat EXCEPT !.attempt = n]
      /\ IF c.flag
           THEN core' = [c EXCEPT !.final = "terminated"] /\ End("completed")
           ELSE core' = c /\ UNCHANGED << trial, pc >>

Answer ==
  /\ Request
  /\ UNCHANGED << gate, held >>
  /\ \E empty \in BOOLEAN :
       LET verdict == Verdict(empty, core.unresolved, core.positive)
       IN  \/ /\ ~Validates(trial.arm) \/ verdict = "ACCEPT"
              /\ core' = [Cleared EXCEPT !.final = "answer"]
              /\ End("completed")
              /\ UNCHANGED strat
           \/ /\ trial.arm = "A2" /\ verdict # "ACCEPT"
              /\ core' = [Cleared EXCEPT !.final = "blocked"]
              /\ End("completed")
              /\ UNCHANGED strat
           \/ trial.arm \in Odys /\ verdict # "ACCEPT" /\ Rejected

\* The validator itself fails: the trial fails closed.
ValidatorFails ==
  /\ Request
  /\ Validates(trial.arm)
  /\ core' = Cleared
  /\ trial' = [trial EXCEPT !.reason = "runtime_validator_error",
                            !.validity = "INVALID_INFRA"]
  /\ pc' = "classify"
  /\ UNCHANGED << gate, held, strat >>

----------------------------------------------------------------------------
(* The engine executed the released call; receive_tool_result records the    *)
(* observation, then asks the strategy.                                      *)

Released == held.released[1]

\* The observation, as the validator will read it: a success resolves every
\* earlier failure of its tool.
Recorded(c, call, res) ==
  [ c EXCEPT
      !.processed = IF c.batch # << >> THEN @ \cup {Released.index} ELSE @,
      !.last = call,
      !.unresolved = IF PublicFailure(res) THEN @ \cup {Tool[call]}
                     ELSE IF ExplicitSuccess(res) THEN @ \ {Tool[call]} ELSE @,
      !.positive = @ \/ ExplicitSuccess(res) ]

\* The step result's proposal: what the strategy wants done, if anything.
RetryOnly(res) ==
  trial.arm = "A1" /\ PublicFailure(res) /\ strat.retries < MaxRetries

Consulted(res) ==
  IF trial.arm \in Odys
    THEN Trigger(trial.arm, Signal(strat.seen, Released.call, res), res)
    ELSE "NONE"

Watched(res) ==
  [strat EXCEPT !.seen = IF trial.arm \in Odys
                           THEN Seen(@, Released.call, res) ELSE @]

NextRound ==
  /\ trial' = [trial EXCEPT !.rounds = @ + 1,
                            !.reason = IF trial.rounds + 1 >= RoundGuard
                                         THEN "completed" ELSE @]
  /\ pc' = IF trial.rounds + 1 >= RoundGuard THEN "classify" ELSE "adapter"
  /\ held' = [held EXCEPT !.released = << >>]

ReceiveResult(res) ==
  /\ pc = "tool"
  /\ LET call   == Released.call
         signal == Consulted(res)
         g      == Observe(gate, call, res)
         c      == Recorded(core, call, res)
         n      == strat.attempt + 1
     IN  /\ ~(signal # "NONE" /\ res.structured)
         /\ gate' = g
         /\ \/ /\ RetryOnly(res)
               /\ core' = AuthorizeRecovery(c, g, "retry", call)
               /\ strat' = [Watched(res) EXCEPT !.retries = @ + 1]
            \/ /\ signal # "NONE"
               /\ core' = AuthorizeRecovery(c, g, Delegate(signal, n), call)
               /\ strat' = [Watched(res) EXCEPT !.attempt = n]
            \/ /\ ~RetryOnly(res) /\ signal = "NONE"
               /\ core' = c
               /\ strat' = Watched(res)
  /\ NextRound
  /\ UNCHANGED driver

\* Delegating a result whose error or output is not a string raises inside
\* the strategy: policy_error.
PolicyFails(res) ==
  /\ pc = "tool"
  /\ Consulted(res) # "NONE" /\ res.structured
  /\ gate' = Observe(gate, Released.call, res)
  /\ core' = Recorded(core, Released.call, res)
  /\ strat' = [Watched(res) EXCEPT !.attempt = @ + 1]
  /\ held' = [held EXCEPT !.released = << >>]
  /\ End("policy_error")
  /\ UNCHANGED driver

\* The evidence ledger or the progress observer raises while a result is
\* being recorded.
TreatmentFails ==
  /\ pc = "tool"
  /\ trial' = [trial EXCEPT !.reason = "treatment_component_error",
                            !.validity = "INVALID_INFRA"]
  /\ pc' = "classify"
  /\ held' = [held EXCEPT !.released = << >>]
  /\ UNCHANGED << gate, core, driver, strat >>

----------------------------------------------------------------------------
(* The end of execute_trial: the grader runs unless an exception other than  *)
(* BudgetExhausted ended the run, and validity is computed from the reason.  *)

BudgetReasons == { "TOKEN_BUDGET_EXHAUSTED", "TURN_BUDGET_EXHAUSTED",
                   "MODEL_CALL_BUDGET_EXHAUSTED" }

Validity(reason, graderError) ==
  IF reason \in {"completed"} \cup BudgetReasons /\ ~graderError THEN "VALID"
  ELSE IF reason \in { "provider_transport_failure", "provider_protocol_failure",
                       "policy_error", "runtime_validator_error",
                       "infrastructure_error" }
    THEN "INVALID_INFRA"
  ELSE IF graderError THEN "INVALID_INFRA" ELSE "VALID"

Conclude ==
  /\ pc = "classify"
  /\ \E graderError \in BOOLEAN :
       /\ graderError => trial.reason \in {"completed"} \cup BudgetReasons
       /\ trial' = [trial EXCEPT !.validity = Validity(trial.reason, graderError)]
  /\ pc' = "done"
  /\ UNCHANGED << gate, core, held, driver, strat >>

Next ==
  \/ Setup \/ HaltHeld \/ Propose \/ AskCore
  \/ Terminated \/ Escalated \/ Replay
  \/ CannotAsk \/ OutOfTokens \/ ProviderFails
  \/ ProposeBatch \/ Answer \/ ValidatorFails
  \/ \E res \in Results : ReceiveResult(res) \/ PolicyFails(res)
  \/ TreatmentFails
  \/ Conclude

Spec == Init /\ [][Next]_vars /\ WF_vars(Next)

----------------------------------------------------------------------------
(* Properties.                                                               *)

\* Shapes of the state.
TypeOK ==
  /\ trial.arm \in TrialArms /\ trial.mode \in RouteModes
  /\ trial.rounds \in 0..RoundGuard
  /\ trial.validity \in {"pending", "VALID", "INVALID_INFRA"}
  /\ pc \in {"setup", "adapter", "core", "tool", "classify", "done"}
  /\ core.pending \in {"none", "retry", "retry_with_context", "escalate", "stop"}
  /\ core.kind \in {"NONE", "STOP", "ESCALATION", "BUDGET_EXHAUSTION"}
  /\ core.processed \subseteq 1..Len(core.batch)
  /\ Len(held.queue) <= MaxBatch /\ (pc = "tool" <=> held.released # << >>)
  /\ driver.calls \in 0..MaxModelCalls /\ driver.calls <= MaxTurns
  /\ strat.retries \in 0..MaxRetries

\* Once a terminal recovery decision is pending, or the gate or the recovery
\* budget stopped the trial, no retained call of the batch is executed and the
\* model is not asked again.
HaltIsHalt ==
  [][ TerminalPending(core) \/ gate.terminal
        => /\ driver' = driver
           /\ held'.released # << >> => held.released # << >> ]_vars

\* A side effect that succeeded without an idempotency receipt, of a tool that
\* is not idempotent, is not executed again with the same arguments, neither
\* by the model's batches nor by a recovery replay.
EffectNotRepeated ==
  pc = "tool" /\ Released.call \in SideEffect \ Idempotent
    => \A i \in 1..Len(gate.att[Released.call]) :
         LET res == gate.att[Released.call][i].res
         IN  ExecStatus(res) = "SUCCEEDED" => res.receipt

\* An answer that a validating arm returns unmarked has a public success
\* behind it and leaves no public tool failure unresolved.
AnswerIsBacked ==
  core.final = "answer" /\ Validates(trial.arm)
    => core.unresolved = {} /\ core.positive

\* Every trial that was set up is concluded, whatever the provider answers, the tools
\* return and the arm decides about them (the engine loop and the budgets of the driver
\* and the policies).
TrialEnds == (pc # "setup") ~> (pc = "done")

============================================================================
