# A TLA+ verification of Odys

Odys (`src/lhas`, `evals/reliability`) is a runtime for long-running agent tasks
and the benchmark that measures it.  It keeps every decision in SQLite or in
append-only files, so that a task survives the death of its process, and it
accepts nothing as done that a validator has not passed.  This project models
the parts that carry those promises, model-checks them on small instances with
TLC and proves the central ones with TLAPS.

## 1. The system and its parts

| part | state it keeps | operations | hard behaviour | module |
| --- | --- | --- | --- | --- |
| `RecoveringOrchestrator`, `ResumeDecisionService`, classifier and policy (`orchestrator_v2.py`, `resume.py`, `failure.py`, `recovery.py`) | Task, Run, Attempt rows and the rows keyed by an attempt | `execute_task`, `resume_run`, `resume_task`, the `_continue_run` loop | one transaction per repository call; the process may die between any two | `FailurePolicy`, `RunLifecycle` |
| `SideEffectReceiptManager`, `NativeToolDispatcher`, `NativeAgentKernel`, `CompletionAuthority` (`side_effects.py`, `native/`) | receipts, invocations, snapshots, candidates | `dispatch`, `reconcile_unfinished`, `run` | an effect that happened although nobody recorded it; budgets across restarts | `SideEffects`, `NativeKernel` |
| `ExecutionControlToken` (`execution_control.py`) | deadline, reason, children, waiters | `cancel`, `derive`, `await_with_control` | a result after the deadline; whom a timeout is blamed on | `ExecutionControl` |
| planning (`planning/`) | the plan and its steps | `execute_goal`, `repair_after_failure`, `resume_after_approval`, replan | repair and replan over verified work; whole-plan writes | `PlanGraph`, `PlanExecution` |
| Phase 5 core (`phase5/agent_core.py`, `control_arms.py`, `execution_control.py`, `recovery_*.py`, `agent_adapter.py`, `trial_executor.py`) | gate history, held calls, recovery state, budgets | one trial under a control arm | terminal decisions against held calls; repeated effects | `TrialRules`, `AgentTrial` |
| reliability benchmark (`evals/reliability/run_phase4.py`, `p45_executor.py`, `run_controller.py`, `runtime_factory/`) | budget ledger, temporary plan, the files of a batch | a batch of runs | torn appends, resume, verdict against plan | `RunLedger`, `BenchmarkRun`, abstract `RunRecords` |
| recovery control plane (`recovery_control.py`, `repair_progress.py`) | progress counters, epochs, leases, signals | hooks of the turn loop | counters that survive a change of strategy | `RecoveryControl` |
| durable delegation (`agent/delegation.py`, `native/delegation.py`) | delegation and lifecycle rows, snapshot tokens | `delegate`, `record_outcome`, `deliver`, consume | duplicate, late and lost outcomes | `Delegation` |
| runtime targets (`native/runtime.py`) | binding row, health rows, installed provider | `request_switch`, `record_fallback` | two processes switch one execution | `TargetSwitch` |
| Phase 5 runners (`phase5/real_pilot_runner.py`, `canary_runner.py`, `pilot_runner.py`) | the artifact directory | preflight, trial, persist | crashes between files | `ExperimentRunners` |
| workspace sessions (`workspace/`) | binding row, session directory, source tree | `ensure_for_run`, staged edits, commands | the source changes while it is copied | `WorkspaceSessions` |
| MCP manager (`mcp/manager.py`) | connection generations, locks, pipes | `connect`, `call_tool`, `close` | callers that give up; answers in flight | `McpManager` |
| tool contract and observer (`tools/`, `inner_agent/tool_adapter.py`) | registry, grants, failure tables | `invoke` | full tables, resets | `ToolCalls` |
| benchmark launcher (`p46_launcher.py`) | identities, progress, summary of a directory | launches over one directory | crash, relaunch, another profile | `BenchmarkLauncher` |
| verified-state substrate (`phase5/substrate/`) | evidence log, verdicts, commits, state | `append`, `validate`, `commit` | the order of verdicts and commits | `VerifiedState` |
| the `odys` command (`cli.py`, `cli_runtime.py`, `cli_ui.py`, `liveness.py`) | the task's configuration, the reading in progress | `run`, `resume`, `inspect`, the display loop | reads table by table while the run commits; interrupts | `ProductCli` |
| job domain, experiments, scripts, skills, memory | reports | drivers | none of their own | not modelled |

`PROJECT.json` lists every component with its sources, its status and, where
something is left out, the reason, and the hazards with the property that covers
each.

How they meet: the CLI calls `execute_task`, `resume_run` or `resume_task`.  The
orchestrator drives one durable step per turn of `_continue_run`: it calls the
executor (the native kernel, an adapter or a mock), the validator, the classifier
and the policy, and stores the answer of each before it asks for the next.  The
kernel calls the dispatcher, which keeps receipts for effects; it consumes the
outcomes of delegated children, checks its runtime target before each model call
and reports every observation to the recovery controller when it has one.
Orchestrator, kernel, dispatcher and MCP manager wait under the root
`ExecutionControlToken` where the caller gives them one.  A benchmark run wraps
all of this: its executor runs an attempt, an outside validator judges it, the
recovery coordinator may repair or replan through the planning service, and the
runner records the result.  Phase 5 is a second, self-contained agent core whose
trials are run by the Phase 5 runners.

What makes each part correct is stated with its module below.

## 2. The lifecycle of a run: `RunLifecycle`, `FailurePolicy`

**State.**  `task`, `run`, `binding` are the status columns, `root` says that
the session directory is published, `attempts` is the sequence of attempt rows,
each with the rows that are looked up by its id (`verdict`, `report`, `action`,
`ckpt`, `snap`).  `pc` and `turns` are the position of the one live process and
are lost in a `Crash`.

**Actions.**  One action per commit, in the order of the code.  `Decision` is
`ResumeDecisionService.decide`, and every turn of the loop is guarded by
`Turn(decision, next)`.  The executor, the validator and the success of a target
switch are nondeterministic; which structured error an executor may report is
the constant `Errors`.  `ExecutorJudges` is the part of a native executor that
touches the tables of this module: `CompletionAuthority` stores a verdict for
each claim while the executor works.  `Crash` is enabled wherever a process is
live.  `ResumeRun`, `MigrateTask` (resume_task with a target) and `ResumeTask`
are the calls an operator makes, also on a run that has ended.

A consequence worth knowing: without a workspace, an attempt of a native executor
that failed *after* its own validation passed is classified without a look at the
verdict and retried.  `RetryOrder` therefore allows a passed predecessor in that
configuration, and only in that one.

**Data left out.**  Events (no decision reads them), texts, timestamps, the
content of snapshots and checkpoints.  The message of an executor failure
repeats its type; `emsg` keeps that signature because the classifier matches
substrings of it.

**Runs.**

| run | question | result |
| --- | --- | --- |
| `workspace` | an ordinary executor with a run workspace and root control, two crashes anywhere, one `resume_task`, a loop guard of six turns so that the guard itself ends processes | `ValidatorBackedCompletion`, `TaskFollowsRun`, `RunEnds` hold |
| `failures` | all error types of the classifier, a native executor without a workspace, root control, a crash, a migration, a guard of three turns | `RetryOrder` holds |
| `observers` | a native executor with migration, driven and watched by the command (section 5) | `ReportIsTrue`, `LivenessIsHonest` hold |
| `claim_no_work_after_pass` | a statement of the documentation | violated, see section 7 |

**Bounds.**  `MaxAttempts` 2: a first, a retried and a last attempt are all the
cases the policy tells apart.  `MaxCrashes` up to 2: a second crash interrupts the
repair of the first.  `CoreErrors` has one member of every class the classifier
and the policy treat differently; `failures` uses all.  The bound on the number of
attempts (`RetryBudget`) is left to the proofs.  A finished run really stops, so the
configurations do not check for deadlock; `RunEnds` says that an unfinished run
does not.

**Fairness.**  `FairSpec` has weak fairness of `Progress` (a live process goes
on: the executor is bounded by the timeout of the task and every other step is
a local commit) and of `ResumeRun` (somebody runs `odys resume` on a run that is
left RUNNING).  Nothing is assumed of `MigrateTask`, `ResumeTask` or `Crash`.
`ExecutorJudges` is not part of `Progress`: an executor need not claim anything,
and must not be able to satisfy the fairness by judging for ever.

## 3. One attempt of the native kernel: `SideEffects`, `NativeKernel`

**State.**  `turns`, `calls` and `told` are what the execution snapshot counts
and shows to the model.  `inv` is the invocation row of each call id (state,
ordinal, reconciliation), `rcpt` the status of its receipt, `cand` and `verdict`
the newest completion candidate and validation.  `acted` and `dirty` are the
world: how often a call really took effect, and whether the staged workspace
differs from its baseline.  `detached` holds tools that were cancelled and go on
all the same.  `pc`, `todo`, `res` and `news` belong to the process and die with
it; `stopped` is the control token.

**Actions.**  Entering `run` (a pending claim is judged first, then
`reconcile_unfinished`, then the snapshot catches up); the turn (budget, target,
the recovery controller's lease: `LeaseRefused`, provider); the batch of tool
calls; `dispatch` commit by commit (REQUESTED, receipt begun, dispatch started,
STARTED, the effect, the receipt, FINISHED, the observation, the count); the claim,
taken up (`BeginClaim`), made a candidate, validated and acted on; `Halt`, the end
at one of the places where the kernel looks at its token; `Stop` and `Crash` at any
time.

The optional recovery controller and repair tracker enter as choices at the three
places where they may end a run of the kernel: the lease, after a call
(`CountCall`: FAILED, REPLAN_REQUIRED, which is FAILED to the orchestrator, or the
candidate that VALIDATE_CANDIDATE makes of the effects so far) and after a rejected
claim (`ActOnVerdict`: escalation or stop).  A run that hands over such a candidate
returns COMPLETED without an accepted one; `outcome` calls it CANDIDATE.

`await_with_control` has a window at each end.  The claim is a coroutine of its own,
so a stop between `BeginClaim` and `CreateCandidate` still leaves a candidate; and
between the end of a dispatch or of an evaluation and the look that lets its result
out (`LeaveAwait`; places `observed` and `delivered`, `judged` and `ruled`) the token
may end, and does so unseen after it.  `SideEffects` holds the pure rules: classification, the
monotone receipt transitions, `Reconcile` and `ReplayDecision`.

Two facts of the code shape the model.  A workspace edit is synchronous inside
an `async` function, so a timeout or cancellation cannot come between its start
and its end (`Cancellable`).  And the probe that reconciles a dead process's edit
compares the *whole* workspace with its baseline (`Probe` looks at `dirty`), which
is why an edit may leave `dirty` either way.

**Data left out.**  `phase`, `current_failure`, the replan signals and the
validation failures, which only feed the prompt; arguments, fingerprints,
results; `workspace_mutation_version`; errors of the database.  Delivered
outcomes, target switches and what the recovery controller decides have modules of
their own (section 5).  Provider, tools, policy denials, validator and the answers of
the controller are nondeterministic.

**Runs.**

| run | question | result |
| --- | --- | --- |
| `kernel` | two edits and a read, or one of two pairs of calls with effects outside the workspace (an adapter that declares nothing and a delegation; an unverifiable and an idempotent effect); three turns, three entries, crashes and cancellation anywhere | `EffectAtMostOnce`, `SafeToRetryIsSafe`, `CompletedIsAccepted`, `NothingOpenAtModelCall`, `LedgersAgree`, `ExternalReceiptsHonest`, `NothingStartsAfterStop`, `KernelReturns` hold |

`CompletedIsAccepted` is about the pair of validators: whatever way led to it, a
COMPLETED of an accepted claim passes `AcceptedCompletionValidator` outside the kernel
(`OuterPasses`) and the COMPLETED of a CANDIDATE does not.  `NothingStartsAfterStop`
covers provider calls, registered and started tool calls, claims taken up and pending
claims judged.

**Bounds.**  `MaxRuns` 3: the second entry reconciles what the first left, the
third what the second left half reconciled.  Which of the three sets the
provider asks from is chosen at the start (`offered`): two edits, so that one is
handled after one whose effect changes what the probe sees; the ledgers of effects
outside the workspace are kept per call, so pairs of them suffice.
`MaxBatch` 2: a repeated id inside one response and across responses.  The bound
on entries ends every behaviour, so deadlock is not checked; `KernelReturns`
takes its place.

**Fairness.**  Weak fairness of `Progress`: provider and tools are bounded by
their timeouts and everything else is local.  A detached tool need never act.

## 4. Deadlines and cancellation: `ExecutionControl`

**State.**  Token 1 is the root, `line[t]` is `t` and its chain of parents,
`deadline` the absolute deadline (`Never` when there is none), `reason` the
recorded cause or `Unset`.  `aw` has one record per call of
`await_with_control`: its token, the time until which it waits, whether the root
deadline is the nearer limit (`rootWins`), the operation, the waiter task and the
outcome.

**Actions.**  `Tick`, `Cancel`, `Derive`, `Look` (any reading of a token), and the
await: `Begin` or `Refuse`, the waiter that looks, registers and wakes, the end of
the operation, the timeout, and what the code does after each.  What the await will
give is `Decided` before its `finally` awaits the cancelled waiter: the place `cleanup`
lies between the last check and `Leave`, any token may end there, and a cancellation of
the caller there replaces the outcome.  Everything runs on one event loop, so an action is the code between two awaits.  A token learns of
its parent's end only when it is looked at, so looking writes `reason`; that is
part of each action that looks.  `asyncio.wait` may return up to `Jitter` ticks
early, as a clock of finite resolution lets it.

The runtime only cancels with USER_CANCEL and never derives with a ceiling of its
own; the model allows the ceiling because the constructor, and the tests, do.  A
derived token whose own ceiling expires is recorded as ROOT_DEADLINE_EXCEEDED;
`BlameIsFounded` is stated so that this is within it.

**Left out.**  `control=None`, which is a plain `asyncio.wait_for`; the evidence
record; wall-clock times.

**Runs.**  `call_control` (`MCCallControl`, whose initial state picks the component
that moves: this one or the trial of section 5): one await and three generations of tokens, so that a
cancellation two levels up must reach it; `BlameIsFounded`, `NoLateResult` and
`AwaitsEnd`, under the fairness of `ControlFairSpec`.  `NoLateResult` says that no result is decided on once a
token above has ended, and that the cleanup turns no other outcome into a result.  That
a result decided on in time does not *leave* after the boundary is what the docstring
says, and `claim_late_result` shows that it is not so (`ResultLeavesBeforeBoundary`,
section 7).  A second await would add nothing that `Look` and `Cancel` do not do to the tokens,
except a root timeout that is recorded one tick early; the theorems of section 6
hold for any number of awaits.

**Bounds.**  `MaxTime` 2 with `Jitter` 1 has a deadline that is due, about to be
due and woken early; ceilings and deadlines range over all instants and `Never`.

**Fairness.**  The clock goes on and each await's own steps are taken (the event
loop runs what is ready).  Nothing is assumed of the operation or of the caller:
`AwaitsEnd` holds for an operation that never ends.

## 5. The other components

### Planning: `PlanGraph`, `PlanExecution`

`PlanGraph` has the pure rules: dependency validation, eligibility, the scheduler,
the affected subgraph, the trigger policy and the workflow verifier.  A plan is a
function from step ids to rows.  `PlanExecution` has the durable plan `db` and, per
process, its copy `mem`, its place `pc` and what it has left to dispatch.  A write
is `Update`, which stores the whole copy as `PlanRepository.update` does; only an
accepted replan is guarded by the version.  `AcceptReplan` is `MacroReplanService`:
proposed steps adopt the VERIFIED rows of their fingerprint, whose ids are remapped,
the affected rows of this signal and of older ones that name another node become STALE,
and rows whose id is proposed again are overwritten.  Task executions, the planner's proposal,
claims and approvals are choices.  The constants assume of the first plan what
`Plan.validate_dependencies` makes sure of: finitely many steps that depend on steps of
the plan.  `Over` is the merge of a copy into the table, by row.

A planner may give a step an id that the plan already has; nothing in the code checks
it.  `ReusedIds` is the set of statuses whose rows' ids may be proposed again, a reused
id standing for the same task with another fingerprint.  The planners in the repository
give new ids (`{}`).

Run `plan_calls`: three steps, the second behind a runtime precondition, the third
behind both others and a human approval, both modes, two caller contexts, three calls, one
repair per step, one replan that may reuse the ids of PENDING steps, one crash.  `VerifiedGrounded` (what runs or is verified rests on verified
dependencies), `CompletedMeansDone` (completion passes over STALE steps; they are
always superseded ones), `VerifiedIsForever`, `CallEnds`.  Fairness: a live call goes
on (`WF(Step(p))`).  With two processes the whole-plan write loses updates, which the
code does not prevent (TLC then finds VERIFIED steps taken back and work on steps that
are not verified); the run therefore has one process, and the theorems of section 6
assume one.  Run `claim_verified_work` lets the planner reuse the ids of VERIFIED steps
too: then `VerifiedIsForever` fails (section 7).

### One Phase 5 trial: `TrialRules`, `AgentTrial`

`TrialRules` translates normalisation, the authorization gate, the route decider, the
observer and the arms' strategies; `AgentTrial` the engine's round: the adapter holds
the batch and releases one call at a time, the core owns recovery, the driver the
root budget.  The benchmark engine is external and is modelled by what it asks of
the adapter.

Run `call_control`: arms A1, A2, A3 and A5, a probe and a committing tool, batches of
two, three turns, three model calls.  A0, A1 without its retries,
and A4, A3 without the observer's signals, add no behaviour and are left out.  `HaltIsHalt`, `EffectNotRepeated`,
`AnswerIsBacked`, `TrialEnds`.  Fairness: the engine calls until its round limit
(`WF(Next)`).

### A benchmark batch: `RunLedger`, `BenchmarkRun`, `RunRecords`

`BenchmarkRun` follows one run from its fixture to its record (attempt, provider calls,
outside verdict, local repair or replan, revalidation, finalization of the temporary
plan, trace, raw or invalid file, aggregation) and a batch across crashes, torn last
lines and resumed processes, under three launchers: the plain runner, the one that
requires traces and the controller with its checkpoint.

`RunRecords` is the abstract specification: one run executes at a time, an execution
ends in one result that is never changed or executed again, or is lost, and what is
published is the set of valid results of one moment.  `Promise` instantiates it with
`result <- Result` (a run is executing until its record is in a file) and
`report <- disk.agg`; `KeepsPromise` is the refinement, checked by TLC and proved.

Run `bench_batch`: two runs (minimal then odys, legacy then aware), three launchers, two provider
calls, one crash: `BudgetIsShared`, `VerdictAgrees`, `DoneIsComplete`, `KeepsPromise`,
`BatchEnds`.  Deadlock is checked.  Fairness: a started process goes on and somebody
starts the batch again (`WF(Step)`); nothing is assumed of `Crash`.

### Recovery control: `RecoveryControl`

The controller lives as long as the run, the tracker as long as an attempt; both see
the same observations.  Run `observers`: two actions, two states, two attempts of three
turns; the legacy policy, which never escalates, for one attempt.  `EscalationIsEarned`: a
signal that names an epoch is backed by observations of that epoch.

### The command and the run it drives: `ProductCli`

`ProductCli` extends `RunLifecycle`: the orchestrator of that module is the task the
command starts.  `prepare_new` and `prepare_resume` refuse or prepare, `ExecutePrepared`
is the call of the orchestrator, `RunStep` one of its commits with the event that goes
with it, and the kernel is seen through the events of its model and tool calls and of
its claims (`ClaimBegins`, `RunJudges`: the wait for the claim's validator is the time
between them).
`inspect_run` is one step per query, so the orchestrator commits between any two; the
display loop has one reading at a time and one more when the orchestrator has returned.
The events of the run are kept as what `project_liveness` folds them to.

Run `observers`: a native executor, two attempts, one crash or interrupt of a working
orchestrator (a command that is not executing may die at any time), one migration, one
model call with tool calls after it, time in ticks with the smallest threshold.
Readings and events do not influence one another, so `MCObservers` watches a run either
through its tables or through its events; the third thing it explores is the recovery
controller above, which shares no state with either.
`ReportIsTrue`: a reading is coherent although it spans several transactions, because
the run is read first and a run ends after everything it rests on; `RESULT` and exit code
are those of the run; a hint to resume names a run that exists.  `LivenessIsHonest`:
ACTIVE needs progress of the run itself, which resumes and readings are not; the
model call, parser, tool or orchestrator's validator that is waited for is the operation
shown, and none of them is shown at any other time.  The validator of a native claim is
waited for with no event, so that no operation is shown meanwhile (section 8).

### Components around the kernel: run `platform`

Eight components that share no state are explored in one run: the initial state picks
the component that moves (`moving`), so the state space is the sum of theirs.

* `Delegation`: every row write is a transaction; the parent or a child may die between
  any two.  `OutcomeStands`: an outcome is given once (`ConsumedOnce`) and as it was first
  reported.  `resume_pending_deliveries` is an action although nothing in the repository
  calls it.
* `TargetSwitch`: two processes hold one execution, `request_switch` is three
  transactions with the provider built and installed in between.
  `InstalledIsCommitted`: a process that lost the row or failed has rolled back.
* `ExperimentRunners`: real pilot, canary and dry run over one directory; each preflight
  refusal is an action; files are written one by one, a crash may tear one.
  `MarkerIsHonest`.
* `WorkspaceSessions`: inventory, copy, second inventory, publish, bind, reopen, staged
  edits, commands that outlive their timeout, damaged baselines.
  `BaselineIsASnapshot`; a version of a file does not come back once replaced.
* `McpManager`: per connection generation a process, a lock, ids and a pipe; callers time
  out, are cancelled, the owner closes and reconnects, the server is silent, late or dies.
  `NoAnswerDiscarded`.
* `ToolCalls`: the registry, grants and the failure observer with its bounded tables.
  `SignalIsRight`, both directions: the model is told to change strategy exactly when
  the history calls for it.
* `BenchmarkLauncher`: up to three launches with different profiles and selections at one
  directory.  `ProgressIsBacked`, `OneBenchmarkPerDirectory`.
* `VerifiedState`: evidence, validation and commits in any order.  A caller hands a commit
  up to `MaxPresented` events, of the ledger or from elsewhere (`Elsewhere`: a copy with
  another value, an event of an id the ledger does not have), because the commit compares
  ids only.  `VerifiedIsEarned`: every fact is an entry of an event presented under an id
  that an accepting verdict named, every artifact was committed on an accepting verdict
  and is stored, no candidate counts twice, and the history rebuilds the state.

Bounds of `platform`: two of everything that can interfere (children, processes, files,
callers, paths, runs, candidates, events presented), one or two faults, three launches (the third meets
what the crash of the second left).  The components stop when their bounds are used up,
so deadlock is not checked.

## 6. What is proved

Each `*_proofs` module proves its theorems for every value of the constants that
satisfies the `ASSUME` of the component.  Each conjunct was checked with TLC
before it was proved.

**`RunLifecycle_proofs`** (from `RunConstants`): `TypeCorrect`, `BudgetHolds`,
`OrderHolds`, `CompletionIsValidated`, that is `Spec => []P` for `TypeOK`,
`RetryBudget`, `RetryOrder` and `ValidatorBackedCompletion`.  They follow from
one inductive invariant `IInv`.  None is inductive alone: that a new attempt is
within the budget needs that an action is a retry only when `Decide` saw an
attempt number below `MaxAttempts`, and that the action survives the reopening of
an attempt.  `RowsOK` says that of every row, and that a COMPLETED row has no
error and a pass of an ordinary executor without a workspace belongs to a
COMPLETED row.  `Placed` relates `pc` to what a process at that place has already
read (a process about to write the checkpoint knows that the action is there).
One lemma per group of actions: those that leave the attempts alone, bookkeeping,
the executor, judging, recovery, reopening, creation.  `TaskNeverAhead`
(`TaskFollowsRun`) adds only that the workspace is closed at a place where the task is
already COMPLETED: an outcome is committed to the run, then to the task, then to the
workspace.

**`NativeKernel_proofs`** (from `KernelConstants`): `KernelTypeCorrect`,
`EffectsOnce`, `RetryIsSafe`, `ModelSeesNothingOpen`, `CompletionIsAccepted`, and
the action properties `AcceptanceIsFinal`, `NothingStarts`, `CommitsStay`.
`EffectAtMostOnce` needs that a call about to act has not acted and is not
detached (`Placed`), that nobody starts a call with a row, and that what acted or
may still act has left REQUESTED for good (`EffectsOK`).  `Closed` says that only
the call being handled is open; `Judged` ties candidate, verdict and outcome.
`CommitsStay` rests on a second invariant, `ReceiptsOK`: `begin` is the one
receipt write that is not monotone, and it never meets an existing receipt.
`NothingStarts` rests on `Beginnings`: a tool, a claim and the judging of a pending
claim each have one action that begins it, and that action looks at the token.
`CompletionIsAccepted` needs that a COMPLETED for a claim follows the verdict of that
claim, and that no accepted candidate exists where effects are handed over as one.
`LedgersNeverDisagree` and `ExternalReceiptsAreHonest` (`LedgersAgree`,
`ExternalReceiptsHonest`) need a third one, `LedgerOK`: the decision of a
reconciliation agrees with the receipt also between its two commits, and an external
call has acted at every place from which its receipt can be settled.

**`ExecutionControl_proofs`** (from `ControlConstants`): `ControlSafe`
(`DeadlinesNest`, `BlameIsFounded`, `AssertionHolds`), `LateResultsRejected`,
`LayerTimeoutsAreLocal`.  The invariant has the shape of the tree (`Lines`: chains
are reflexive, transitive and point to older tokens), what an await knows of its
token (`AwaitsOK`: what was decided is kept through the cleanup, a signalled waiter means that something above has ended, a
finished one that something above has ended or is due), and `Unborn`, which keeps
a token not yet created from having ended.  `ClosestExists`, that a nonempty set
of tokens has a nearest member, is what makes the `CHOOSE` in `CheckedReason` mean
something.  The theorems speak of the moment an outcome is decided: what may happen
between that and leaving the await is in the model, and they claim nothing against it.

**`AgentTrial_proofs`** (from `TrialConstants`): `EffectsAreNotRepeated`,
`AnswersAreBacked`, `HaltsAreFinal`, for every set of calls, arms and budgets.  The gate
keeps two attempts of a call but the repeat rule looks at the last; the invariant
`TrialInv` says that the earlier one was looked at when the last was released
(`EarlierRepeatable`), and that an answer or a stop of the gate ends the trial
(`StopsEnd`).

**`BenchmarkRun_proofs`** (from `BatchConstants`, `LedgerConstants`): `BatchTypeCorrect`,
`SharedBudget`, `PlanFollowsVerdict`, `FinishedIsComplete`, and the refinement
`BatchKeepsPromise`, `Spec => KeepsPromise`.  `Books` says which runs have a record while
the process is at each place, `Paid` what the ledger has given out there, `Judged` what
the verdicts and the plan may be.  For the refinement, each step is mapped to one of
`Begin`, `Record`, `Lose`, `Publish`, or to a stutter because it changes neither the
records nor which run is executing.

**`Platform_proofs`** has one section per component of run `platform`, each with an
inductive invariant and the constants' assumption of its own module.

| Component | Theorems | What makes it inductive |
|---|---|---|
| `Delegation` | `DelegationTypeCorrect`, `OutcomeStandsAlways` | a token in a snapshot belongs to a CONSUMED row, and only DELIVERED rows are taken |
| `TargetSwitch` | `SwitchTypeCorrect`, `LostSwitchLeavesNothing` | what is installed at each place of a switch, and what it can roll back to |
| `ExperimentRunners` | `MarkersAreHonest` | the files before the next one are whole and of this invocation |
| `WorkspaceSessions` | `SessionTypeCorrect`, `PublishedIsASnapshot` | a copied file is no newer than the project; the tree at the end of the copy is the witness |
| `McpManager` | `ManagerTypeCorrect`, `AnswersReachTheirCallers` | whoever reads holds the lock of its generation, alone |
| `ToolCalls` | `ObserverTypeCorrect`, `SignalsAreRight` | the tracked signatures are the first `MaxKeys` distinct failures of the history |
| `BenchmarkLauncher` | `OneDirectoryOneBenchmark`, `ProgressNeverAhead` | a launch past an identity file runs under the profile the file names; counts are bounded by records |
| `VerifiedState` | `VerifiedStateIsEarned` | the recursion over the commit history has a solution, and every solution ends in the verified state; a commit's verdict stays as it was |

`AnswersReachTheirCallers` and `OutcomeStandsAlways` are action properties, the others
invariants.  `ToolCalls` and `VerifiedState` speak of a history; since induction over
data is out of reach, the invariant carries the fact that such an induction would give
(that every failure has a first occurrence; that the rebuilt state exists), and the
induction is the one over the steps.

**`Observers_proofs`** (from `CliConstants`, `RecoveryConstants`, and those of
`RunLifecycle`): `ReportsAreTrue`, `HealthIsHonest`; `RecoveryTypeCorrect`,
`EscalationsAreEarned`.  A step of the command is a step of the run or leaves it alone, so
`CliIInv` contains the invariant of `RunLifecycle_proofs`; `LookInv` says of a reading in
progress that what it has read first still bounds what it will read later, since a run
that has ended does not change.  `CliConstants` fixes `WorkspaceEnabled`: the command
always binds a workspace.

**`PlanExecution_proofs`** (from `PlanAssumption`, `OneCaller` and `VerifiedIdsStand`): `WorkIsGrounded`,
`CompletionIsWhole`, `VerdictsStand`, that is `VerifiedGrounded`, `CompletedMeansDone` and
`VerifiedIsForever`, for every graph the validation accepts and any number of calls,
repairs, replans and crashes.  `OneCaller` is a hypothesis of the theorems and not of the
module, because nothing in the code enforces it; so is `VerifiedIdsStand`, that no id of
a VERIFIED row is proposed for another step, without which `claim_verified_work` is a
counterexample.  Ids of rows of every other status may be reused.  `PlanInductive` says that the table
keeps the shape of the graph (`TableOK`), that work is grounded (`Grounded`), and that
some set of rows has one for every step, STALE only downstream of a row that failed for
its assumption (`Covered`).  So a table without FAILED rows has everything verified, which is
when a plan is completed.  `Placed` says that the copy of a call is the durable plan up
to the row of its own run: this is what makes whole-plan writes harmless with one caller.
`Downstream` is recursive; `DownstreamIsClosure` proves, by well-founded induction on the
steps not reached, that it is the least set closed under dependants.

**Only model-checked.**  `RunEnds`, `KernelReturns`, `AwaitsEnd`, `CallEnds`, `TrialEnds`
and `BatchEnds`: liveness under fairness is out of the prover's reach.  Every invariant
and every action property of a passing run is a theorem.

## 7. Where the code and what is said of it differ

1. `claim_no_work_after_pass`: `resume_task` on an attempt that ended on a blocked
   provider executes it again although its validation pass is already persisted.  The
   call does not look at the status of the run, so it also reopens the last attempt of
   a run that has ended.
2. `claim_delivery`: `_consume_deliveries` commits outcomes CONSUMED before it saves the
   snapshot that holds them; a crash in between loses an outcome, where the
   documentation promises at-least-once.
3. `claim_late_result`: after its last check `await_with_control` awaits its cancelled
   waiter in the `finally`; a boundary that another `check()` observes meanwhile does not
   stop the result, where the docstring says it is never returned.  The kernel and the
   dispatcher look at the token again before they use what they got.
4. `claim_verified_work`: an accepted replan whose planner proposes the id of a VERIFIED
   step for a step with another fingerprint writes a PENDING row over it, where audit and
   ADR say that verified work is preserved.

The quoted lines and the places in the code are under `findings` in `PROJECT.json`.

## 8. Other behaviours seen while modelling

The models reach each of these; none is a property of a run, either because the code
makes no promise or because what it says of it is weaker.

* A crash between run COMPLETED and task COMPLETED leaves the task RUNNING; nothing
  repairs it.  A crash before the run row exists leaves a task nobody can resume.
* After a provider migration the old report and action of the reopened attempt park the
  run again when it fails for another reason.
* An attempt that root control ended is validated and retried after a crash before the
  run is CANCELLED.
* VALIDATE_CANDIDATE makes the kernel return COMPLETED for a candidate nobody has
  accepted; the outer validator then fails the attempt.
* A candidate may be created after the stop when its claim was taken up before.
* A crash between the reconciliation of an interrupted tool call and the next snapshot
  hides the call from the model; and since the probe compares the whole workspace, an
  earlier edit vouches for an interrupted one that never ran.
* A quota block in the provider health table is overwritten by a later transient failure.
* Replans are limited by the guard of the caller; without one only the planner's refusal
  ends them.  Two processes on one plan overwrite each other.
* A launch without `--resume` executes recorded runs again and fails on the first
  differing record; headline, ablation and smoke runs share a default directory; a torn
  identity file or trace refuses every later launch.
* A controller that boots with every run completed returns without aggregating (it has
  compared its checkpoint by then, and raises when that is of another protocol).
* A fixture observation that cannot be parsed turns an infrastructure failure into a
  failure of the task.
* A commit never looks an event up in the ledger, so a fact may have a value that the
  ledger's event of that id does not have; a verdict names no artifacts.
* A commit of older evidence replaces a newer fact; `rebuild_state` starts from the empty
  state; the reducer has no caller in the repository.
* The MCP timeout bounds each line that is read rather than the request, and `connect`
  does not clean up when it is cancelled.
* The display loop swallows a failed reading ("Rendering/inspection cannot become part of
  task correctness"), but its query for the latest run and the reading after the run has
  ended are outside that `try`: if one fails, the command ends with an error, the first
  together with the orchestrator.
* While `CompletionAuthority` waits for the validator of a claim, no event is written: the
  display shows IDLE, and STALLED when the validator takes longer than the threshold.
* After a crash in the middle of an operation the operation stays shown until the next
  process starts another.  `RUNTIME_TARGET_SWITCH_COMMITTED` counts as progress in
  `liveness.py` but is stored without the id of its run, so no reading of the run sees it.
* A tool result that fails its output schema is a FAILURE even when the edit happened.

## 9. Not modelled, and why

* Argument parsing, rendering and the counters of a reading; job benchmark domain,
  experiment scripts, statistics and reports: they drive or summarise what is modelled;
  what they call is an environment action.
* Transports, parsers, prompt and context projection, model-backed planning, fixtures and
  oracles: I/O and text around a model whose answers are nondeterministic here.
* Skills, memory, knowledge, agent profiles and toolsets: lookups and assembly.
* The command policy and the import of MCP tools: text matching and name mangling.
* The legacy loop `SingleAgentOrchestrator.execute_task`: superseded by
  `RecoveringOrchestrator`; what that inherits is part of `RunLifecycle`.
* Two processes that drive one run at the same time: `E6_PROCESS_RESUME.md` puts it out of
  scope and there is no lock or lease to model.
* Event rows: no decision reads them.  `ProductCli` keeps what a reading shows of them.

## 10. Layout and plan

Each component is one module; a `MC*` module extends it with the definitions a
configuration needs, a `*_proofs` module with its theorems.  Names that end in what a
plausible error would do (`ConsumableAgain`, `KnownFinished`, ...) are broken forms of the
definition after them and are used only to see that a property notices.

Left to prove: type correctness where no theorem states it on its own (`AgentTrial`,
`PlanExecution`, `BenchmarkLauncher`, `ProductCli`; the inductive invariants contain
their own form of it), and an abstract promise for the lifecycle of a run in the manner
of `RunRecords`.
