----------------------------- MODULE ProductCli -----------------------------
(***************************************************************************)
(* The odys command and the run it drives.                                 *)
(*                                                                         *)
(*   product_run, product_resume, product_inspect      lhas/cli.py         *)
(*   prepare_new, prepare_resume, inspect_run          lhas/cli_runtime.py *)
(*   execute_with_progress                             lhas/cli_ui.py      *)
(*   project_liveness                                  lhas/liveness.py    *)
(*                                                                         *)
(* A command prepares a run, starts its orchestrator as a task and, while  *)
(* that works, reads the run's tables in a thread again and again; when    *)
(* the orchestrator returns it reads them once more and prints the result. *)
(* inspect reads them from a process of its own.  A reading is one query   *)
(* per table, and the orchestrator, which is module RunLifecycle, commits  *)
(* between any two of them.                                                *)
(*                                                                         *)
(* The events of the run enter with what project_liveness takes from them: *)
(* how long ago the last progress event was, and the operation in hand.    *)
(* An event is committed with the row it reports.                          *)
(***************************************************************************)
EXTENDS RunLifecycle

CONSTANTS
  Profiles,    \* provider profiles; "offline" needs no credential
  Threshold,   \* the stall threshold, in ticks
  MaxCalls     \* bound: model calls of the run

\* Every orchestrator of cli_runtime.py is given a workspace manager.
ASSUME CliConstants ==
  /\ WorkspaceEnabled /\ None \notin Profiles
  /\ Threshold \in Nat /\ MaxCalls \in Nat

VARIABLES
  config,  \* the provider profile persisted with the task, None before prepare_new
  front,   \* the foreground command and how the last one ended
  look,    \* the reading in progress
  log,     \* the run's events, as project_liveness folds them
  doing,   \* what the executor or the validator is waiting for
  still,   \* ticks since the run last did some work
  calls    \* model calls so far

cliVars == << vars, config, front, look, log, doing, still, calls >>

Nowhere == [pc |-> "idle", intent |-> "none", exit |-> "none", hint |-> FALSE]
NoLook == [pc |-> "off", last |-> FALSE, status |-> None, n |-> 0,
           ended |-> FALSE, verdict |-> None, action |-> None]
Never == Threshold + 2     \* no progress event yet

CliInit ==
  /\ Init /\ config = None /\ front = Nowhere /\ look = NoLook
  /\ log = [quiet |-> Never, op |-> "IDLE", mine |-> FALSE]
  /\ doing = "none" /\ still = 0 /\ calls = 0

----------------------------------------------------------------------------
(* Liveness: a fold over the events of the run.  A type below stands for the *)
(* events appended together: TURN_COMPLETED for MODEL_RESPONSE_PARSED and    *)
(* the completed turn, PROVIDER_FAILED for the rejected response and the     *)
(* snapshot saved after it, PARSE_FAILED for both and the replan signal,     *)
(* RETRY_PREPARED for the checkpoint and RECOVERY_STARTED, SNAPSHOT for the   *)
(* events of a claim and the snapshot that is saved with them.               *)

\* PROGRESS_EVENT_TYPES: what the run does, never what is done about it.  The
\* broken form takes every event for progress.
ProgressEventAny(type) == TRUE
ProgressEvent(type) ==
  type \in { "ATTEMPT_STARTED", "EXECUTOR_STARTED", "MODEL_CALL_STARTED",
             "MODEL_RESPONSE_RECEIVED", "TURN_COMPLETED", "TOOL_STARTED", "TOOL_OBSERVED",
             "PROVIDER_FAILED", "PARSE_FAILED", "VALIDATED", "CHECKPOINT_CREATED",
             "RETRY_PREPARED", "SNAPSHOT" }

\* The operation after an event; most events leave it alone.
OperationAfter(type, op) ==
  IF type = "MODEL_CALL_STARTED" THEN "MODEL_CALL"
  ELSE IF type = "MODEL_RESPONSE_RECEIVED" THEN "PARSER"
  ELSE IF type = "TOOL_STARTED" THEN "TOOL"
  ELSE IF type = "VALIDATION_STARTED" THEN "VALIDATOR"
  ELSE IF type = "RETRY_PREPARED" THEN "RECOVERY"
  ELSE IF type \in { "TURN_COMPLETED", "PROVIDER_FAILED", "PARSE_FAILED", "TOOL_OBSERVED",
                     "VALIDATED", "ATTEMPT_ENDED" } THEN "IDLE"
  ELSE op

AppendEvent(type) ==
  log' = LET op == OperationAfter(type, log.op)
         IN  [ quiet |-> IF ProgressEvent(type) THEN 0 ELSE log.quiet,
               op |-> op, mine |-> log.mine \/ op # log.op ]

\* execution_health, from the run's status and the age of the last progress, as
\* a reading gets it that takes no time; a slow one only sees more age.
Health ==
  IF run # "RUNNING" THEN "IDLE"
  ELSE IF log.quiet = Never THEN "UNKNOWN"
  ELSE IF log.quiet > Threshold THEN "STALLED" ELSE "ACTIVE"

Older(age, last) == IF age >= last THEN age ELSE age + 1

Tick ==
  /\ log' = [log EXCEPT !.quiet = IF @ = Never THEN @ ELSE Older(@, Threshold + 1)]
  /\ still' = Older(still, Threshold + 1)
  /\ UNCHANGED << vars, config, front, look, doing, calls >>

----------------------------------------------------------------------------
(* The run at work.                                                          *)

\* _validate_result is about to ask the validator.
WillJudge ==
  \/ pc = "revalidate" /\ Latest.verdict # "pass"
  \/ pc = "judgeRecovered" /\ Latest.verdict = None
  \/ /\ pc = "loop" /\ turns < LoopGuard
     /\ \/ Decision = "VALIDATE_ATTEMPT"
        \/ Decision = "RECOVER_INTERRUPTED_ATTEMPT" /\ Latest.status = "CRASHED"

Works(type, then) ==
  /\ AppendEvent(type) /\ doing' = then /\ still' = 0
  /\ UNCHANGED << vars, config, front, look >>

StartValidation ==
  /\ WillJudge /\ doing = "none"
  /\ Works("VALIDATION_STARTED", "validator") /\ UNCHANGED calls

\* NativeAgentKernel.run, seen through its events.
CallModel ==
  /\ Native /\ pc \in Working /\ doing = "none"
  /\ calls < MaxCalls /\ calls' = calls + 1
  /\ Works("MODEL_CALL_STARTED", "model")

ModelReturns ==
  /\ doing = "model" /\ UNCHANGED calls
  /\ \/ Works("MODEL_RESPONSE_RECEIVED", "parser")
     \/ Works("PROVIDER_FAILED", "failed")

ParserReturns ==
  /\ doing = "parser" /\ UNCHANGED calls
  /\ \/ Works("TURN_COMPLETED", "none")
     \/ Works("PARSE_FAILED", "failed")

CallTool ==
  /\ Native /\ pc \in Working /\ doing = "none" /\ calls > 0
  /\ Works("TOOL_STARTED", "tool") /\ UNCHANGED calls

ToolReturns ==
  /\ doing = "tool" /\ UNCHANGED calls /\ Works("TOOL_OBSERVED", "none")

\* The kernel has a claim of the model judged, or, as the first thing it does, one
\* that a crash left unjudged.  CompletionAuthority awaits its validator as the
\* orchestrator does, without an event that says so.
ClaimBegins ==
  /\ Native /\ pc \in Working /\ doing = "none"
  /\ calls > 0 /\ UNCHANGED calls
  /\ \/ Works("SNAPSHOT", "claim")
     \/ front.intent # "new" /\ Works("OTHER", "claim")

\* The event that goes with a commit of the orchestrator.  The one of a target
\* switch names no run, so that no reading of the run finds it.
EventOfStep ==
  IF pc = "startAttempt" THEN "ATTEMPT_STARTED"
  ELSE IF pc' \in Working /\ pc' # pc THEN "EXECUTOR_STARTED"
  ELSE IF pc \in Working /\ pc' # pc THEN "ATTEMPT_ENDED"
  ELSE IF pc = "loop" /\ pc' = "judgeRecovered" THEN "ATTEMPT_ENDED"
  ELSE IF doing = "validator" THEN "VALIDATED"
  ELSE IF pc = "checkpoint"
    THEN IF Latest.action \in RetryActions THEN "RETRY_PREPARED" ELSE "CHECKPOINT_CREATED"
  ELSE IF pc = "ensure" /\ pc' = "loop" /\ front.intent # "new" THEN "RUN_RESUME_STARTED"
  ELSE "OTHER"

\* A step moved the run itself: a row of an attempt changed, something it waited
\* for ended or an execution began.
RunMoved ==
  attempts' # attempts \/ doing # "none" \/ (pc' \in Working /\ pc' # pc)

\* The orchestrator returns when there is nothing to do, or raises.
Raised == pc = "switch" \/ (pc = "loop" /\ run' = "RUNNING")

\* The kernel returns between two operations, and fails once the model has; a
\* time-out or an exception may hit it in the middle of any.
MayReturn ==
  LET ended == attempts'[Len(attempts)]
  IN  CASE doing = "failed" -> ended.status # "COMPLETED"
        [] doing \in {"model", "parser", "tool", "claim"} -> ended.etype \in OwnErrors
        [] OTHER -> TRUE

RunStep ==
  /\ front.pc = "running" /\ Progress
  /\ (WillJudge => doing = "validator") /\ MayReturn
  /\ AppendEvent(EventOfStep)
  /\ doing' = "none" /\ still' = IF RunMoved THEN 0 ELSE still
  /\ front' = IF pc' # "idle" THEN front
              ELSE IF Raised THEN [front EXCEPT !.pc = "idle", !.exit = "error"]
              ELSE [front EXCEPT !.pc = "final"]
  /\ look' = IF front'.pc = "idle" THEN NoLook ELSE look
  /\ UNCHANGED << config, calls >>

\* The claim is judged; the snapshot says what came of it.
RunJudges ==
  /\ front.pc = "running" /\ doing = "claim" /\ ExecutorJudges
  /\ AppendEvent("SNAPSHOT") /\ doing' = "none" /\ still' = 0
  /\ UNCHANGED << config, front, look, calls >>

----------------------------------------------------------------------------
(* Commands.                                                                 *)

\* resolve_provider_settings
ProviderResolves(profile, credential) == profile = "offline" \/ credential

Command(intent) ==
  /\ front.pc = "idle"
  /\ front' = [Nowhere EXCEPT !.pc = "starting", !.intent = intent]
  /\ UNCHANGED << vars, look, log, doing, still, calls >>

\* prepare_new persists the project and the task with its configuration.  The
\* model follows one task.
prepare_new ==
  /\ config = None /\ Command("new")
  /\ \E p \in Profiles, credential \in BOOLEAN :
       ProviderResolves(p, credential) /\ config' = p

\* prepare_resume: a migration names all its parts, needs the native kernel and
\* a route with its own credential.
MigrationAccepted(named, route) == named = "all" /\ Native /\ route

prepare_resume ==
  /\ run # None /\ UNCHANGED config
  /\ \E credential \in BOOLEAN, named \in {"none", "some", "all"}, route \in BOOLEAN :
       /\ Native \/ run = "RUNNING" => ProviderResolves(config, credential)
       /\ \/ named = "none" /\ Command("resume")
          \/ MigrationAccepted(named, route) /\ Command("migrate")

\* CliConfigurationError: nothing is touched.
CommandRefused ==
  /\ front.pc = "idle"
  /\ front' = [Nowhere EXCEPT !.exit = "refused"]
  /\ UNCHANGED << vars, config, look, log, doing, still, calls >>

\* PreparedExecution.execute.  A run that is not RUNNING is returned as it is;
\* a migration that does not fit it raises.
ExecutePrepared ==
  /\ front.pc = "starting"
  /\ \/ /\ \/ front.intent = "new" /\ PrepareTask
           \/ front.intent = "resume" /\ ResumeRun
           \/ front.intent = "migrate" /\ MigrateTask
        /\ front' = [front EXCEPT !.pc = "running"]
        /\ log' = [log EXCEPT !.mine = FALSE]
     \/ /\ front.intent = "resume" /\ ~Resumable
        /\ front' = [front EXCEPT !.pc = "final"] /\ UNCHANGED << vars, log >>
     \/ /\ front.intent = "migrate" /\ run \notin {"RUNNING", "BLOCKED_PROVIDER"}
        /\ front' = [front EXCEPT !.pc = "idle", !.exit = "error"]
        /\ UNCHANGED << vars, log >>
  /\ UNCHANGED << config, look, doing, still, calls >>

----------------------------------------------------------------------------
(* Readings.                                                                 *)

\* inspect_run reads the run first.  The command has one reading at a time, in
\* its display loop and when the orchestrator has returned; inspect does the same.
BeginReading ==
  /\ look.pc = "off" /\ run # None /\ front.pc \in {"running", "final"}
  /\ look' = [NoLook EXCEPT !.pc = "attempts", !.status = run, !.last = front.pc = "final"]
  /\ UNCHANGED << vars, config, front, log, doing, still, calls >>

Reads(pc0, next) ==
  /\ look.pc = pc0 /\ look' = next
  /\ UNCHANGED << vars, config, front, log, doing, still, calls >>

\* The attempts, and with them the run's events (see Health).
ReadAttempts ==
  Reads("attempts",
        [look EXCEPT !.pc = IF attempts = << >> THEN "project" ELSE "verdict",
           !.n = Len(attempts),
           !.ended = \A i \in DOMAIN attempts : attempts[i].status \in EndedStatuses])

\* Then, attempt by attempt, the validation row and the recovery rows.  Only
\* those of the last attempt that was listed may still change.
ReadVerdict ==
  Reads("verdict", [look EXCEPT !.pc = "recovery", !.verdict = attempts[look.n].verdict])

ReadRecovery ==
  Reads("recovery", [look EXCEPT !.pc = "project", !.action = attempts[look.n].action])

\* The status that is shown is the one that was read; the broken form reads the
\* run again when everything else is there.
ShownStatusLate == run
ShownStatus == look.status

Project == Reads("project", [look EXCEPT !.pc = "shown", !.status = ShownStatus])

\* The display has shown it.
Shown == ~look.last /\ Reads("shown", NoLook)

\* A reading that fails is swallowed, except the last one.
ReadingFails ==
  /\ look.pc \notin {"off", "shown"}
  /\ look' = NoLook
  /\ front' = IF ~look.last THEN front
              ELSE [front EXCEPT !.pc = "idle", !.exit = "error"]
  /\ UNCHANGED << vars, config, log, doing, still, calls >>

\* _print_product_summary and the exit code of the command.
FinishCommand ==
  /\ look.last /\ look.pc = "shown"
  /\ front' = [front EXCEPT !.pc = "idle",
                 !.exit = IF look.status = "COMPLETED" THEN "PASS" ELSE "FAIL",
                 !.hint = look.status = "RUNNING"]
  /\ look' = NoLook
  /\ UNCHANGED << vars, config, log, doing, still, calls >>

----------------------------------------------------------------------------
(* Endings nobody planned.                                                   *)

\* The orchestrator goes with its command: killed, cancelled because the query for
\* the latest run, which is not guarded, fails in the display loop, or interrupted
\* (the hint names the run, if there is one by now).
CommandDies ==
  /\ front.pc # "idle" /\ doing' = "none"
  /\ IF pc = "idle" THEN UNCHANGED vars ELSE Crash
  /\ look' = NoLook
  /\ \/ front' = [front EXCEPT !.pc = "idle", !.exit = "error"]
     \/ front' = [front EXCEPT !.pc = "idle", !.exit = "interrupted", !.hint = run # None]
  /\ UNCHANGED << config, log, still, calls >>

CommandSteps ==
  \/ prepare_new \/ prepare_resume \/ CommandRefused \/ ExecutePrepared
  \/ FinishCommand \/ CommandDies
RunSteps == RunStep \/ RunJudges \/ StartValidation
KernelSteps ==
  \/ CallModel \/ ModelReturns \/ ParserReturns \/ CallTool \/ ToolReturns \/ ClaimBegins
Readings ==
  \/ BeginReading \/ ReadAttempts \/ ReadVerdict \/ ReadRecovery
  \/ Project \/ Shown \/ ReadingFails

CliNext == CommandSteps \/ RunSteps \/ KernelSteps \/ Readings \/ Tick

CliSpec == CliInit /\ [][CliNext]_cliVars

----------------------------------------------------------------------------
(* Properties.                                                               *)

\* A reading is coherent although the run goes on under it: a run shown as ended
\* has only ended attempts, one shown COMPLETED a last attempt shown PASS, one
\* shown FAILED or ESCALATED a last attempt with the action that ended it.  A
\* command's RESULT and exit code are the run's own, and a hint to resume names
\* a run that is still open or has ended, with the configuration to resume it.
ReportIsTrue ==
  /\ look.pc = "shown" /\ look.status \in FinalStatuses =>
       /\ look.n > 0 /\ look.ended
       /\ look.status = "COMPLETED" => look.verdict = "pass"
       /\ look.status \in {"FAILED", "ESCALATED"} =>
            look.verdict # "pass" /\ look.action \notin RetryActions \cup {None}
  /\ front.exit = "PASS" => run = "COMPLETED"
  /\ front.exit = "FAIL" => run # "COMPLETED"
  /\ front.hint => run # None /\ config # None

\* What is shown of a run's health is never better than it is: ACTIVE means that
\* the run itself moved within the threshold, however often it was resumed or
\* looked at; and while a process drives the run, the operation shown is the model
\* call, the parser, the tool or the orchestrator's validator that it waits for,
\* and none of them once that has ended, also when it was timed out.  The validator
\* of the kernel's own claims is the exception: it is waited for with no operation
\* shown (CompletionAuthority._validate).
LivenessIsHonest ==
  /\ Health = "ACTIVE" => still <= Threshold
  /\ CASE doing = "model" -> log.op = "MODEL_CALL"
       [] doing = "parser" -> log.op = "PARSER"
       [] doing = "tool" -> log.op = "TOOL"
       [] doing = "validator" -> log.op = "VALIDATOR"
       [] OTHER ->   \* nothing, or a claim's validator
            pc # "idle" /\ log.mine => log.op \in {"IDLE", "RECOVERY"}
=============================================================================
