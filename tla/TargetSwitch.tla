---------------------------- MODULE TargetSwitch ----------------------------
(***************************************************************************)
(* The runtime target of one execution: which provider its model calls go  *)
(* to, and how that changes.                                               *)
(*                                                                         *)
(*   RuntimeTargetController, ProviderHealthRepository                     *)
(*                                       lhas/native/runtime.py            *)
(*   NativeAgentKernel.switch_runtime_target, _ensure_runtime_target,      *)
(*   _assert_runtime_truth, _provider_failure   lhas/native/kernel.py      *)
(*                                                                         *)
(* Two processes may hold the same execution (a running kernel and a       *)
(* resume_task that migrates it): each has its own installed provider, all *)
(* share the durable binding row and the health table.  request_switch is  *)
(* three transactions with the provider built and installed in between.    *)
(***************************************************************************)
EXTENDS Naturals, FiniteSets

CONSTANTS
  Targets,       \* runtime targets (provider, model, credential route)
  Configured,    \* the target the execution was bound to
  Procs,         \* processes
  MaxSwitches    \* switches and fallbacks (bounds the model)

ASSUME TargetConstants == Configured \in Targets /\ MaxSwitches \in Nat

VARIABLES
  binding,     \* the durable row: state, effective, pending, switch id
  provider,    \* the target of the provider installed in each process
  known,       \* the effective target in each process's snapshot
  switch,      \* each process's request_switch
  health,      \* provider health rows
  ids,         \* switch and fallback ids given out
  won          \* history: what each process last started with or committed

tsVars == << binding, provider, known, switch, health, ids, won >>

None == "none"
Idle == [pc |-> "idle", id |-> 0, from |-> None, to |-> None, before |-> None]
Blocking == {"QUOTA_BLOCKED", "AUTH_BLOCKED"}
HealthStates == {"HEALTHY", "TRANSIENTLY_UNAVAILABLE", "UNKNOWN"} \cup Blocking

TsInit ==
  /\ binding = [state |-> "COMMITTED", effective |-> Configured, pending |-> None, id |-> 0]
  /\ provider = [p \in Procs |-> Configured]
  /\ known = [p \in Procs |-> None]
  /\ switch = [p \in Procs |-> Idle]
  /\ health = [t \in Targets |-> "HEALTHY"]
  /\ ids = 0
  /\ won = [p \in Procs |-> Configured]

----------------------------------------------------------------------------
(* request_switch.                                                           *)

\* The caller names the effective target it expects; a stale expectation raises.
RequestSwitch(p, expected, t) ==
  /\ switch[p].pc = "idle" /\ ids < MaxSwitches /\ t # expected
  /\ binding.effective = expected
  /\ ids' = ids + 1
  /\ switch' = [switch EXCEPT ![p] =
       [pc |-> "requested", id |-> ids + 1, from |-> expected, to |-> t, before |-> provider[p]]]
  /\ UNCHANGED << binding, provider, known, health, won >>

\* The expectation is tested again in the transaction that marks the row.
MarkPending(p) ==
  /\ switch[p].pc = "requested"
  /\ IF binding.effective = switch[p].from
       THEN /\ binding' = [binding EXCEPT !.state = "PENDING", !.pending = switch[p].to,
                                          !.id = switch[p].id]
            /\ switch' = [switch EXCEPT ![p].pc = "pending"]
       ELSE /\ switch' = [switch EXCEPT ![p] = Idle]
            /\ UNCHANGED binding
  /\ UNCHANGED << provider, known, health, ids, won >>

\* The candidate is built, confirmed and installed, or one of these fails and
\* the previous provider is put back.
Install(p) ==
  /\ switch[p].pc = "pending"
  /\ provider' = [provider EXCEPT ![p] = switch[p].to]
  /\ switch' = [switch EXCEPT ![p].pc = "installed"]
  /\ UNCHANGED << binding, known, health, ids, won >>

InstallFails(p) ==
  /\ switch[p].pc = "pending"
  /\ provider' = [provider EXCEPT ![p] = switch[p].before]
  /\ switch' = [switch EXCEPT ![p].pc = "failing"]
  /\ UNCHANGED << binding, known, health, ids, won >>

\* The commit needs the row to carry this switch's mark; else the installed
\* provider is rolled back.  The broken form leaves it installed.
RolledBackNot(p) == provider
RolledBack(p) == [provider EXCEPT ![p] = switch[p].before]

Commit(p) ==
  /\ switch[p].pc = "installed"
  /\ IF binding.id = switch[p].id
       THEN /\ binding' = [binding EXCEPT !.state = "COMMITTED", !.effective = switch[p].to,
                                          !.pending = None]
            /\ switch' = [switch EXCEPT ![p].pc = "committed"]
            /\ won' = [won EXCEPT ![p] = switch[p].to]
            /\ UNCHANGED provider
       ELSE /\ provider' = RolledBack(p)
            /\ switch' = [switch EXCEPT ![p].pc = "failing"]
            /\ UNCHANGED << binding, won >>
  /\ UNCHANGED << known, health, ids >>

\* _fail writes its own id over whatever the row holds, another process's
\* pending switch included, and never the effective target.
FailedBinding(p) ==
  [state |-> "FAILED", effective |-> binding.effective, pending |-> None, id |-> switch[p].id]

FailSwitch(p) ==
  /\ switch[p].pc = "failing"
  /\ binding' = FailedBinding(p)
  /\ switch' = [switch EXCEPT ![p] = Idle]
  /\ UNCHANGED << provider, known, health, ids, won >>

\* The kernel's active snapshot follows a committed switch.
SnapshotFollows(p) ==
  /\ switch[p].pc = "committed"
  /\ known' = IF known[p] = None THEN known ELSE [known EXCEPT ![p] = switch[p].to]
  /\ switch' = [switch EXCEPT ![p] = Idle]
  /\ UNCHANGED << binding, provider, health, ids, won >>

record_fallback(t) ==
  /\ ids < MaxSwitches /\ t # Configured
  /\ ids' = ids + 1
  /\ binding' = [binding EXCEPT !.state = "FALLBACK", !.effective = t, !.id = ids + 1]
  /\ UNCHANGED << provider, known, switch, health, won >>

----------------------------------------------------------------------------
(* The kernel.                                                               *)

\* _ensure_runtime_target at the start of a run.
BindRun(p) ==
  /\ switch[p].pc = "idle"
  /\ known' = [known EXCEPT ![p] = binding.effective]
  /\ UNCHANGED << binding, provider, switch, health, ids, won >>

\* The start of a model turn: a blocked target ends the run, then the truth
\* check refreshes the snapshot and compares the installed provider with it.
TruthHolds(p) == provider[p] = binding.effective
MayCall(p) ==
  /\ known[p] # None /\ switch[p].pc = "idle"
  /\ health[known[p]] \notin Blocking
  /\ TruthHolds(p)

\* A call that goes wrong leaves the health of the target it was made to.
CallFails(p, h) ==
  /\ MayCall(p) /\ h \in HealthStates \ {"HEALTHY"}
  /\ known' = [known EXCEPT ![p] = None]
  /\ health' = [health EXCEPT ![binding.effective] = h]
  /\ UNCHANGED << binding, provider, switch, ids, won >>

\* RUNTIME_TARGET_DIVERGENCE, or a blocked provider: the run ends.
TurnRefused(p) ==
  /\ known[p] # None /\ switch[p].pc = "idle" /\ ~MayCall(p)
  /\ known' = [known EXCEPT ![p] = None]
  /\ UNCHANGED << binding, provider, switch, health, ids, won >>

\* A new process builds its provider from the configuration.
CrashProcess(p) ==
  /\ switch[p].pc # "idle"
  /\ switch' = [switch EXCEPT ![p] = Idle]
  /\ known' = [known EXCEPT ![p] = None]
  /\ provider' = [provider EXCEPT ![p] = Configured]
  /\ won' = [won EXCEPT ![p] = Configured]
  /\ UNCHANGED << binding, health, ids >>

TsNext ==
  \/ \E p \in Procs :
       \/ \E e, t \in Targets : RequestSwitch(p, e, t)
       \/ MarkPending(p) \/ Install(p) \/ InstallFails(p) \/ Commit(p) \/ FailSwitch(p)
       \/ SnapshotFollows(p) \/ BindRun(p) \/ TurnRefused(p) \/ CrashProcess(p)
       \/ \E h \in HealthStates : CallFails(p, h)
  \/ \E t \in Targets : record_fallback(t)

TsSpec == TsInit /\ [][TsNext]_tsVars

----------------------------------------------------------------------------
(* Properties.                                                               *)

\* A settled row holds no pending target, a pending one does.
TsTypeOK ==
  /\ binding.effective \in Targets
  /\ binding.state \in {"COMMITTED", "FAILED"} => binding.pending = None
  /\ binding.state = "PENDING" => binding.pending \in Targets
  /\ \A p \in Procs : provider[p] \in Targets /\ known[p] \in Targets \cup {None}
  /\ \A t \in Targets : health[t] \in HealthStates

\* Outside a switch a process has the provider installed that it started with or
\* last committed: a switch that loses the row to another process, or fails,
\* leaves nothing behind.
InstalledIsCommitted ==
  \A p \in Procs : switch[p].pc = "idle" => provider[p] = won[p]

=============================================================================
