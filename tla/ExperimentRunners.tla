-------------------------- MODULE ExperimentRunners --------------------------
(***************************************************************************)
(* The Phase 5 runners and the files they leave behind.                    *)
(*                                                                         *)
(*   RealPilotRunner   lhas/phase5/real_pilot_runner.py                    *)
(*   run_canary        lhas/phase5/canary_runner.py                        *)
(*   PilotRunner       lhas/phase5/pilot_runner.py (dry run)               *)
(*   ArtifactWriter    lhas/phase5/artifacts.py                            *)
(*   provider lock     lhas/phase5/provider_lock.py                        *)
(*                                                                         *)
(* A runner is a process that executes trials one after the other and      *)
(* writes each trial's files, a COMPLETE marker among them.  It may crash  *)
(* or raise anywhere and be started again over the same directory, which   *)
(* is all that survives.  What execute_trial does inside a trial is        *)
(* module AgentTrial.                                                      *)
(***************************************************************************)
EXTENDS Naturals, Sequences, FiniteSets, SequencesExt

CONSTANTS
  Kinds,        \* the runners in play, out of {"pilot", "canary", "dry"}
  NTasks,       \* tasks of the frozen manifest (a canary has one)
  Arms,         \* the control arms, as a sequence
  Seed,         \* the manifest's seed
  Endpoints,    \* provider endpoints the environment may name
  MaxInvocations \* how often the runner is started (bounds the model)

ASSUME RunnerConstants ==
  /\ Kinds \subseteq {"pilot", "canary", "dry"}
  /\ {NTasks, Seed, MaxInvocations} \subseteq Nat /\ Arms \in Seq(STRING) /\ Arms # << >>

\* The arms of the i-th task, rotated so that no arm always goes first.
ArmOrder(i) ==
  LET rotation == (Seed + i - 1) % Len(Arms)
  IN  SubSeq(Arms, rotation + 1, Len(Arms)) \o SubSeq(Arms, 1, rotation)

Schedule == FlattenSeq([i \in 1..NTasks |-> [j \in DOMAIN Arms |-> << i, ArmOrder(i)[j] >>]])
TrialsOf(kind) ==
  IF kind = "canary" THEN [j \in DOMAIN Arms |-> << 1, Arms[j] >>]
  ELSE IF kind = "dry" THEN FlattenSeq([i \in 1..NTasks |-> [j \in DOMAIN Arms |-> << i, Arms[j] >>]])
  ELSE Schedule

\* The files of a trial in the order they are written.  "records" stands for
\* the trace, decisions, evidence, ledgers, judgement and metrics.  The broken
\* form marks a trial complete before its result is on disk.
TrialFilesMarkerEarly(kind) ==
  CASE kind = "pilot"  -> << "records", "COMPLETE", "trial_manifest", "native_result", "classification" >>
    [] kind = "canary" -> << "provider_execution_summary", "records", "trial_manifest", "COMPLETE" >>
    [] kind = "dry"    -> << "records", "COMPLETE", "native_result", "classification" >>
TrialFiles(kind) ==
  CASE kind = "pilot"  -> << "records", "trial_manifest", "native_result", "classification", "COMPLETE" >>
    [] kind = "canary" -> << "provider_execution_summary", "records", "trial_manifest", "COMPLETE" >>
    [] kind = "dry"    -> << "records", "COMPLETE", "native_result", "classification" >>

\* What a COMPLETE marker vouches for: the dry run's is that of the raw artifact.
Vouched(kind) == IF kind = "dry" THEN {"records"} ELSE Range(TrialFiles(kind)) \ {"COMPLETE"}

\* ArtifactWriter writes a temporary file and renames it; the runners' own
\* _write_json_once opens the final name, so a crash may leave part of a file.
Atomic(kind, file) == kind = "dry" \/ file \in {"native_result", "classification", "experiment_manifest"}

VARIABLES
  rkind,      \* which runner
  files,      \* every file: [trial, attempt, file, by, whole, what]
  run,        \* the running invocation
  executed,   \* provider executions: [trial, by, endpoint]
  endpoint    \* the endpoint the environment names now

runnerVars == << rkind, files, run, executed, endpoint >>

Top == << 0, "top" >>
Has(trial, attempt, file) == \E f \in files : << f.trial, f.attempt, f.file >> = << trial, attempt, file >>
DirExists(trial, attempt) == \E f \in files : << f.trial, f.attempt >> = << trial, attempt >>
FileAs(trial, attempt, file, what, whole) ==
  [trial |-> trial, attempt |-> attempt, file |-> file, by |-> run.n, whole |-> whole, what |-> what]
TopFile(file) == CHOOSE f \in files : f.trial = Top /\ f.file = file

Down(n) == [n |-> n, pc |-> "down", at |-> 1, attempt |-> 0, next |-> 1, errors |-> 0, pinned |-> "none"]

RunnerInit ==
  /\ rkind \in Kinds
  /\ files = {} /\ executed = {}
  /\ run = Down(0)
  /\ endpoint = CHOOSE e \in Endpoints : TRUE

----------------------------------------------------------------------------
(* Start and preflight.                                                     *)

Start ==
  /\ run.pc = "down" /\ run.n < MaxInvocations
  /\ run' = [Down(run.n + 1) EXCEPT !.pc = "preflight"]
  /\ UNCHANGED << rkind, files, executed, endpoint >>

Stop == run' = Down(run.n)

\* Each of these checks may refuse, before anything is written or called: the
\* manifest's hash and role, its arms and budget, its execution units or its task
\* against the dataset, its generation settings against the provider lock, the
\* checkouts and the SDK the run would use, and the engine it would construct.
Refused(kinds) ==
  /\ run.pc = "preflight" /\ rkind \in kinds
  /\ Stop /\ UNCHANGED << rkind, files, executed, endpoint >>

ManifestRefused   == Refused({"pilot"})
UnitsRefused      == Refused({"pilot"})
RoleRefused       == Refused({"canary"})
BudgetRefused     == Refused({"canary"})
ConfigRefused     == Refused({"canary"})
TaskRefused       == Refused({"canary"})
EngineRefused     == Refused({"canary"})
ProvenanceRefused == Refused({"canary"})

\* The schedule is fixed in a file before the first trial and kept by a rerun.
PilotPreflight ==
  /\ run.pc = "preflight" /\ rkind = "pilot"
  /\ files' = IF Has(Top, 0, "arm_schedule") THEN files
              ELSE files \cup {FileAs(Top, 0, "arm_schedule", Seed, TRUE)}
  /\ run' = [run EXCEPT !.pc = "trial"]
  /\ UNCHANGED << rkind, executed, endpoint >>

DryPreflight ==
  /\ run.pc = "preflight" /\ rkind = "dry"
  /\ run' = [run EXCEPT !.pc = "trial"]
  /\ UNCHANGED << rkind, files, executed, endpoint >>

\* A live canary refuses a directory that holds anything but a preflight.
Occupied == \E f \in files : f.file # "live_preflight"

\* preflight_only: the evidence of a qualification goes to a directory of its own.
CanaryQualification ==
  /\ run.pc = "preflight" /\ rkind = "canary"
  /\ Stop /\ UNCHANGED << rkind, files, executed, endpoint >>

resolve_endpoint_identity == endpoint

\* live_preflight.json is created once; a later run must agree with it exactly.
CanaryPreflight ==
  /\ run.pc = "preflight" /\ rkind = "canary" /\ ~Occupied
  /\ \/ /\ ~Has(Top, 0, "live_preflight")
        /\ files' = files \cup {FileAs(Top, 0, "live_preflight", resolve_endpoint_identity, TRUE)}
     \/ /\ Has(Top, 0, "live_preflight")
        /\ LET old == TopFile("live_preflight") IN old.whole /\ old.what = resolve_endpoint_identity
        /\ UNCHANGED files
  /\ run' = [run EXCEPT !.pc = "recheck", !.pinned = resolve_endpoint_identity]
  /\ UNCHANGED << rkind, executed, endpoint >>

\* live_preflight_only returns here.
CanaryPreflightOnly ==
  /\ run.pc = "recheck"
  /\ Stop /\ UNCHANGED << rkind, files, executed, endpoint >>

\* The endpoint is resolved again and must be the one of the preflight.
CanaryRecheck ==
  /\ run.pc = "recheck" /\ resolve_endpoint_identity = run.pinned
  /\ run' = [run EXCEPT !.pc = "trial"]
  /\ UNCHANGED << rkind, files, executed, endpoint >>

EndpointMoves(e) ==
  /\ rkind = "canary" /\ e # endpoint /\ endpoint' = e
  /\ UNCHANGED << rkind, files, run, executed >>

----------------------------------------------------------------------------
(* The trials.                                                              *)

trial == TrialsOf(rkind)[run.at]
Trial == run.pc = "trial" /\ run.at <= Len(TrialsOf(rkind))

\* The endpoint of a trial's driver: a canary's is pinned by its preflight.
DriverEndpoint == run.pinned

\* A fresh driver is held against the provider lock; a mismatch ends the run.
DriverRefused ==
  /\ Trial /\ rkind # "dry"
  /\ Stop /\ UNCHANGED << rkind, files, executed, endpoint >>

\* execute_trial calls the provider (a dry run simulates); every start of a pilot
\* executes every trial again, also the ones that are complete on disk.
ExecuteTrial ==
  /\ Trial
  /\ executed' = IF rkind = "dry" THEN executed
                 ELSE executed \cup {[trial |-> trial, by |-> run.n, endpoint |-> DriverEndpoint]}
  /\ run' = [run EXCEPT !.pc = "persist"]
  /\ UNCHANGED << rkind, files, endpoint >>

NextTrial(errors) ==
  [run EXCEPT !.pc = "trial", !.at = run.at + 1, !.next = 1, !.attempt = 0, !.errors = run.errors + errors]

\* A pilot goes on with the next trial when one raises; the other runners end.
Raised == IF rkind = "pilot" THEN NextTrial(1) ELSE Down(run.n)

TrialRaises ==
  /\ run.pc \in {"persist", "writing"}
  /\ run' = Raised
  /\ UNCHANGED << rkind, files, executed, endpoint >>

\* The directory a pilot writes into: the trial's own unless that one is there
\* already and incomplete, then one of its own.  A complete trial is left alone.
Skipped == rkind = "pilot" /\ Has(trial, 0, "COMPLETE")

AttemptDir == IF rkind = "pilot" /\ DirExists(trial, 0) THEN run.n ELSE 0

BeginPersist ==
  /\ run.pc = "persist"
  /\ run' = IF Skipped THEN NextTrial(0) ELSE [run EXCEPT !.pc = "writing", !.attempt = AttemptDir]
  /\ UNCHANGED << rkind, files, executed, endpoint >>

Writing(file) == run.pc = "writing" /\ file = TrialFiles(rkind)[run.next]

\* Every file is create-only: an existing one raises and is left as it is.
Create(f) == ~Has(f.trial, f.attempt, f.file) /\ files' = files \cup {f}

Advance ==
  run' = IF run.next = Len(TrialFiles(rkind)) THEN NextTrial(0) ELSE [run EXCEPT !.next = run.next + 1]

WriteFile(file) ==
  /\ Writing(file)
  /\ Create(FileAs(trial, run.attempt, file, "trial", TRUE))
  /\ Advance
  /\ UNCHANGED << rkind, executed, endpoint >>

FileIsThere(file) ==
  /\ Writing(file) /\ Has(trial, run.attempt, file)
  /\ run' = Raised
  /\ UNCHANGED << rkind, files, executed, endpoint >>

----------------------------------------------------------------------------
(* The report.                                                              *)

ReportFile == IF rkind = "canary" THEN "canary_report" ELSE "experiment_manifest"

\* A pilot keeps the summary of the first run that got here, a dry run replaces
\* it, a canary's directory cannot hold one yet.
Report ==
  /\ run.pc = "trial" /\ run.at > Len(TrialsOf(rkind))
  /\ LET summary == FileAs(Top, 0, ReportFile, run.errors, TRUE)
         others == {f \in files : f.file # ReportFile}
     IN  files' = IF rkind = "dry" THEN others \cup {summary}
                  ELSE IF Has(Top, 0, ReportFile) THEN files ELSE files \cup {summary}
  /\ Stop /\ UNCHANGED << rkind, executed, endpoint >>

\* The process dies; a file being written by its final name may be torn.
Crash ==
  /\ run.pc # "down"
  /\ Stop
  /\ \/ UNCHANGED files
     \/ \E file \in Range(TrialFiles(rkind)) :
          /\ Writing(file) /\ ~Atomic(rkind, file) /\ ~Has(trial, run.attempt, file)
          /\ files' = files \cup {FileAs(trial, run.attempt, file, "trial", FALSE)}
     \/ /\ run.pc = "preflight" /\ rkind = "canary" /\ ~DirExists(Top, 0) /\ ~Occupied
        /\ files' = files \cup {FileAs(Top, 0, "live_preflight", endpoint, FALSE)}
  /\ UNCHANGED << rkind, executed, endpoint >>

RunnerWork ==
  \/ ManifestRefused \/ UnitsRefused
  \/ RoleRefused \/ BudgetRefused \/ ConfigRefused \/ TaskRefused \/ EngineRefused \/ ProvenanceRefused
  \/ CanaryQualification
  \/ PilotPreflight \/ DryPreflight \/ CanaryPreflight \/ CanaryPreflightOnly
  \/ CanaryRecheck \/ DriverRefused \/ ExecuteTrial \/ TrialRaises \/ BeginPersist
  \/ (\E file \in Range(TrialFiles(rkind)) : WriteFile(file) \/ FileIsThere(file))
  \/ Report

RunnerNext ==
  \/ Start \/ Crash \/ RunnerWork
  \/ \E e \in Endpoints : EndpointMoves(e)

RunnerSpec == RunnerInit /\ [][RunnerNext]_runnerVars /\ WF_runnerVars(RunnerWork)

----------------------------------------------------------------------------
(* Properties.                                                              *)

\* A COMPLETE marker vouches for every file of its directory: all there, all
\* whole, all written by the same invocation, whatever crashed or was started
\* again (RealPilotRunner and canary _persist order the marker last).
MarkerIsHonest ==
  \A m \in files : m.file = "COMPLETE" =>
    \A name \in Vouched(rkind) : \E f \in files :
      /\ << f.trial, f.attempt, f.file, f.by >> = << m.trial, m.attempt, name, m.by >>
      /\ f.whole

RunnerTypeOK ==
  /\ rkind \in Kinds /\ endpoint \in Endpoints
  /\ run.pc \in {"down", "preflight", "recheck", "trial", "persist", "writing"}
  /\ run.n \in 0..MaxInvocations /\ run.errors \in 0..Len(TrialsOf(rkind))
  /\ \A f \in files : f.by \in 1..MaxInvocations
=============================================================================
