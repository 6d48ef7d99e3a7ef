----------------------------- MODULE Delegation -----------------------------
(***************************************************************************)
(* Durable delegation: a parent attempt spawns children, each child's      *)
(* outcome is recorded, delivered and consumed.                            *)
(*                                                                         *)
(*   DelegationService                     lhas/agent/delegation.py        *)
(*   DurableDeliveryService                lhas/native/delegation.py       *)
(*   NativeAgentKernel._consume_deliveries lhas/native/kernel.py           *)
(*                                                                         *)
(* Every row is its own transaction, so a crash may fall between any two   *)
(* of them.  The parent's snapshot is the only thing a resumed attempt     *)
(* knows of the children it has heard from.                                *)
(***************************************************************************)
EXTENDS Naturals, FiniteSets

CONSTANTS
  Children,       \* delegations that may be asked for
  MaxChildren,    \* AgentProfile.max_children of the parent
  MaxCrashes      \* process crashes (bounds the model)

ASSUME DelegationConstants ==
  IsFiniteSet(Children) /\ MaxChildren \in Nat /\ MaxCrashes \in Nat

ExecutionStates ==
  {"CREATED", "RUNNING", "COMPLETED", "FAILED", "TIMEOUT", "CRASHED", "VALIDATION_REJECTED"}
Outcomes == ExecutionStates \ {"CREATED", "RUNNING"}
DeliveryStates == << "NOT_READY", "DELIVERY_PENDING", "DELIVERED", "CONSUMED" >>
Rank(state) == CHOOSE i \in DOMAIN DeliveryStates : DeliveryStates[i] = state

VARIABLES
  delegation,   \* the delegation rows: status, or "none"
  row,          \* the lifecycle rows: attempt, execution, delivery, outcome
  call,         \* where the delegate() call of a child is
  parent,       \* the parent: its process, attempt and in-memory snapshot
  saved,        \* the saved snapshots: tokens consumed, by attempt
  childReplans, \* CHILD_FAILURE replan signals
  crashes

delVars == << delegation, row, call, parent, saved, childReplans, crashes >>

NoRow == [attempt |-> 0, execution |-> "none", delivery |-> "NOT_READY", outcome |-> "none"]
Attempts == 1..2

DelInit ==
  /\ delegation = [d \in Children |-> "none"]
  /\ row = [d \in Children |-> NoRow]
  /\ call = [d \in Children |-> "none"]
  /\ parent = [up |-> TRUE, attempt |-> 1, tokens |-> {}, taken |-> {}, pc |-> "loop"]
  /\ saved = [a \in Attempts |-> {}]
  /\ childReplans = {}
  /\ crashes = 0

----------------------------------------------------------------------------
(* delegate().                                                               *)

\* Every delegation the parent run ever created counts, finished ones too.
ChildAllowed == Cardinality({d \in Children : delegation[d] # "none"}) < MaxChildren

delegate(d) ==
  /\ parent.up /\ call[d] = "none" /\ delegation[d] = "none" /\ ChildAllowed
  /\ delegation' = [delegation EXCEPT ![d] = "CREATED"]
  /\ call' = [call EXCEPT ![d] = "created"]
  /\ UNCHANGED << row, parent, saved, childReplans, crashes >>

CreateLifecycle(d) ==
  /\ call[d] = "created"
  /\ row' = [row EXCEPT ![d] = [NoRow EXCEPT !.attempt = parent.attempt, !.execution = "CREATED"]]
  /\ call' = [call EXCEPT ![d] = "prepared"]
  /\ UNCHANGED << delegation, parent, saved, childReplans, crashes >>

StartChild(d) ==
  /\ call[d] = "prepared"
  /\ delegation' = [delegation EXCEPT ![d] = "RUNNING"]
  /\ call' = [call EXCEPT ![d] = "starting"]
  /\ UNCHANGED << row, parent, saved, childReplans, crashes >>

record_started(d) ==
  /\ call[d] = "starting"
  /\ row' = [row EXCEPT ![d].execution = "RUNNING"]
  /\ call' = [call EXCEPT ![d] = "running"]
  /\ UNCHANGED << delegation, parent, saved, childReplans, crashes >>

\* The child's run ends.  COMPLETED needs a completed run whose validation passed.
ChildEnds(d, o) ==
  /\ call[d] = "running" /\ o \in Outcomes
  /\ delegation' = [delegation EXCEPT ![d] = IF o = "COMPLETED" THEN "COMPLETED" ELSE "FAILED"]
  /\ call' = [call EXCEPT ![d] = o]
  /\ UNCHANGED << row, parent, saved, childReplans, crashes >>

\* The parent's deadline or cancellation: delegate() raises, the rows stay.
Interrupted(d) ==
  /\ call[d] \in {"running"} \cup Outcomes
  /\ call' = [call EXCEPT ![d] = "raised"]
  /\ UNCHANGED << delegation, row, parent, saved, childReplans, crashes >>

\* An outcome is taken once; the same one again is ignored, another one raises.
\* The broken form takes whatever comes last.
RecordedLast(d, o) ==
  [row EXCEPT ![d].execution = o, ![d].delivery = "DELIVERY_PENDING", ![d].outcome = o]
Recorded(d, o) ==
  IF row[d].delivery # "NOT_READY" THEN row ELSE RecordedLast(d, o)

record_outcome(d) ==
  /\ call[d] \in Outcomes
  /\ row' = Recorded(d, call[d])
  /\ call' = [call EXCEPT ![d] = IF row'[d].outcome = call[d] THEN "deliver" ELSE "raised"]
  /\ UNCHANGED << delegation, parent, saved, childReplans, crashes >>

\* A supervisor that declares a running child crashed, or repeats a report.
ReportOutcome(d, o) ==
  /\ row[d].execution \notin {"none", "CREATED"}
  /\ row' = Recorded(d, o)
  /\ UNCHANGED << delegation, call, parent, saved, childReplans, crashes >>

Delivered(d) == [row EXCEPT ![d].delivery = "DELIVERED"]

deliver(d) ==
  /\ call[d] = "deliver"
  /\ row' = IF row[d].delivery = "DELIVERY_PENDING" THEN Delivered(d) ELSE row
  /\ call' = [call EXCEPT ![d] = "done"]
  /\ UNCHANGED << delegation, parent, saved, childReplans, crashes >>

resume_pending_deliveries(d) ==
  /\ row[d].delivery = "DELIVERY_PENDING" /\ row' = Delivered(d)
  /\ UNCHANGED << delegation, call, parent, saved, childReplans, crashes >>

----------------------------------------------------------------------------
(* The parent's side: consume_for_parent_attempt marks the rows one by one,   *)
(* then the kernel puts them in its snapshot and saves it.                    *)

\* The broken form tests neither the row nor the snapshot for an earlier one.
ConsumableAgain(d) ==
  row[d].attempt = parent.attempt /\ row[d].delivery \in {"DELIVERED", "CONSUMED"}
Consumable(d) ==
  row[d].attempt = parent.attempt /\ row[d].delivery = "DELIVERED" /\ d \notin parent.tokens

ConsumeRow(d) ==
  /\ parent.up /\ parent.pc \in {"loop", "consuming"} /\ d \notin parent.taken /\ Consumable(d)
  /\ row' = [row EXCEPT ![d].delivery = "CONSUMED"]
  /\ parent' = [parent EXCEPT !.pc = "consuming", !.taken = @ \cup {d}]
  /\ UNCHANGED << delegation, call, saved, childReplans, crashes >>

\* A child that did not complete asks for a replan, before the snapshot is saved.
FailedChildren(tokens) == {d \in tokens : row[d].outcome # "COMPLETED"}

AddToSnapshot ==
  /\ parent.up /\ parent.pc = "consuming"
  /\ childReplans' = childReplans \cup FailedChildren(parent.taken)
  /\ parent' = [parent EXCEPT !.pc = "saving", !.tokens = @ \cup parent.taken, !.taken = {}]
  /\ UNCHANGED << delegation, row, call, saved, crashes >>

SaveSnapshot ==
  /\ parent.up /\ parent.pc = "saving"
  /\ saved' = [saved EXCEPT ![parent.attempt] = parent.tokens]
  /\ parent' = [parent EXCEPT !.pc = "loop"]
  /\ UNCHANGED << delegation, row, call, childReplans, crashes >>

\* The parent's attempt fails and the run goes on with the next one.
NextAttempt ==
  /\ parent.up /\ parent.pc = "loop" /\ parent.attempt + 1 \in Attempts
  /\ \A d \in Children : call[d] \in {"none", "raised", "done"}
  /\ parent' = [parent EXCEPT !.attempt = @ + 1, !.tokens = {}]
  /\ UNCHANGED << delegation, row, call, saved, childReplans, crashes >>

CrashParent ==
  /\ parent.up /\ crashes < MaxCrashes
  /\ crashes' = crashes + 1
  /\ parent' = [parent EXCEPT !.up = FALSE, !.tokens = {}, !.taken = {}, !.pc = "loop"]
  /\ call' = [d \in Children |-> IF call[d] = "none" THEN "none" ELSE "raised"]
  /\ UNCHANGED << delegation, row, saved, childReplans >>

ResumeParent ==
  /\ ~parent.up
  /\ parent' = [parent EXCEPT !.up = TRUE, !.tokens = saved[parent.attempt]]
  /\ UNCHANGED << delegation, row, call, saved, childReplans, crashes >>

DelNext ==
  \/ \E d \in Children :
       \/ delegate(d) \/ CreateLifecycle(d) \/ StartChild(d) \/ record_started(d)
       \/ Interrupted(d) \/ record_outcome(d) \/ deliver(d) \/ resume_pending_deliveries(d)
       \/ ConsumeRow(d)
       \/ \E o \in Outcomes : ChildEnds(d, o) \/ ReportOutcome(d, o)
  \/ AddToSnapshot \/ SaveSnapshot \/ NextAttempt \/ CrashParent \/ ResumeParent

DelSpec == DelInit /\ [][DelNext]_delVars

----------------------------------------------------------------------------
(* Properties.                                                               *)

\* The rows stay within the states of the code, and a run never has more
\* children than its profile allows.
DelTypeOK ==
  /\ \A d \in Children :
       /\ delegation[d] \in {"none", "CREATED", "RUNNING", "COMPLETED", "FAILED"}
       /\ row[d].execution \in ExecutionStates \cup {"none"}
       /\ row[d].outcome \in Outcomes \cup {"none"}
       /\ row[d].delivery # "NOT_READY" <=> row[d].outcome # "none"
  /\ Cardinality({d \in Children : delegation[d] # "none"}) <= MaxChildren
  /\ parent.tokens \subseteq Children

\* No outcome enters the parent's context twice, crashes and resumption
\* included: what is being taken is in no saved snapshot.
ConsumedOnce ==
  \A d \in parent.taken : d \notin parent.tokens /\ \A a \in Attempts : d \notin saved[a]

\* A parent is given an outcome once, and as it was first reported: no later or
\* conflicting report replaces it, its delivery never goes back, and no crash or
\* resumption makes it enter a context again (record_outcome, deliver, consume).
OutcomeStands ==
  [][ /\ \A d \in Children :
           row[d].delivery # "NOT_READY" =>
             /\ row'[d].outcome = row[d].outcome
             /\ Rank(row'[d].delivery) >= Rank(row[d].delivery)
      /\ ConsumedOnce' ]_delVars

\* "At-least-once durable attempt with idempotent logical consume": an outcome
\* marked consumed is in the snapshot of the attempt, or about to be.
ConsumedIsKept ==
  \A d \in Children :
    row[d].delivery = "CONSUMED" =>
      d \in saved[row[d].attempt] \cup parent.tokens \cup parent.taken
=============================================================================
