--------------------------- MODULE Platform_proofs ---------------------------
(***************************************************************************)
(* Proofs about the components around the kernel, one section each:        *)
(* delegation, target switches, experiment runners, workspace sessions,    *)
(* the MCP manager, the tool observer, the benchmark launcher and the      *)
(* verified state.  They share no state (MCPlatform explores them side by  *)
(* side), so each has an inductive invariant and theorems of its own, for  *)
(* every value of its constants.                                           *)
(***************************************************************************)
EXTENDS Delegation, TargetSwitch, ExperimentRunners, WorkspaceSessions, McpManager,
        ToolCalls, BenchmarkLauncher, VerifiedState, TLAPS, FiniteSetTheorems,
        WellFoundedInduction

(***************************************************************************)
(* Delegation.  Every token a snapshot holds belongs to a row marked       *)
(* CONSUMED, and a row is only taken when it is DELIVERED: so nothing that *)
(* is being taken can be in a snapshot already.                            *)
(***************************************************************************)

Deliveries == {"NOT_READY", "DELIVERY_PENDING", "DELIVERED", "CONSUMED"}
Rows ==
  [ attempt : 0..2, execution : ExecutionStates \cup {"none"}, delivery : Deliveries,
    outcome : Outcomes \cup {"none"} ]
CallPlaces ==
  {"none", "created", "prepared", "starting", "running", "raised", "deliver", "done"} \cup Outcomes
Parents ==
  [ up : BOOLEAN, attempt : Attempts, tokens : SUBSET Children, taken : SUBSET Children,
    pc : {"loop", "consuming", "saving"} ]
Spawned == {d \in Children : delegation[d] # "none"}

DelTyped ==
  /\ delegation \in [Children -> {"none", "CREATED", "RUNNING", "COMPLETED", "FAILED"}]
  /\ row \in [Children -> Rows]
  /\ call \in [Children -> CallPlaces]
  /\ parent \in Parents
  /\ saved \in [Attempts -> SUBSET Children]
  /\ childReplans \subseteq Children
  /\ crashes \in Nat

RowsFollowCalls ==
  \A d \in Children :
    /\ delegation[d] = "none" => call[d] = "none"
    /\ call[d] \in {"none", "created"} => row[d] = NoRow
    /\ row[d].delivery # "NOT_READY" <=> row[d].outcome # "none"

Tokens ==
  /\ parent.pc # "consuming" \/ ~parent.up => parent.taken = {}
  /\ ~parent.up => parent.pc = "loop"
  /\ \A d \in Children :
       \/ d \in parent.taken \/ d \in parent.tokens \/ (\E a \in Attempts : d \in saved[a])
       => row[d].delivery = "CONSUMED"

DelInv ==
  /\ DelTyped /\ RowsFollowCalls /\ Tokens /\ ConsumedOnce
  /\ Cardinality(Spawned) <= MaxChildren

\* The step of a row that OutcomeStands allows.
RowStands(d) ==
  row[d].delivery # "NOT_READY" =>
    /\ row'[d].outcome = row[d].outcome
    /\ Rank(row'[d].delivery) >= Rank(row[d].delivery)

\* The order of the delivery states.
LEMMA Ranks ==
  /\ Rank("NOT_READY") = 1 /\ Rank("DELIVERY_PENDING") = 2
  /\ Rank("DELIVERED") = 3 /\ Rank("CONSUMED") = 4
<1>1. DOMAIN DeliveryStates = 1..4
  BY DEF DeliveryStates
<1>2. /\ DeliveryStates[1] = "NOT_READY" /\ DeliveryStates[2] = "DELIVERY_PENDING"
      /\ DeliveryStates[3] = "DELIVERED" /\ DeliveryStates[4] = "CONSUMED"
  BY DEF DeliveryStates
<1>3. 1..4 = {1, 2, 3, 4}
  OBVIOUS
<1> HIDE DEF DeliveryStates
<1> QED
  BY <1>1, <1>2, <1>3 DEF Rank

\* Nothing is delegated at the start.
LEMMA DelStart == DelInit => DelInv
<1> SUFFICES ASSUME DelInit PROVE DelInv
  OBVIOUS
<1>1. NoRow \in Rows
  BY DEF NoRow, Rows, ExecutionStates, Outcomes, Deliveries
<1>2. Spawned = {} /\ Cardinality({}) = 0
  BY FS_EmptySet DEF DelInit, Spawned
<1>3. DelTyped
  BY <1>1 DEF DelInit, DelTyped, Parents, CallPlaces, Attempts
<1> QED
  BY <1>1, <1>2, <1>3, DelegationConstants
     DEF DelInit, DelInv, RowsFollowCalls, Tokens, ConsumedOnce, NoRow, Attempts

\* A row that is not consumed may change in any way, a consumed one stays: then
\* the snapshots still hold consumed rows only.
LEMMA TokensKept ==
  ASSUME Tokens, ConsumedOnce, UNCHANGED << parent, saved >>,
         \A d \in Children : row[d].delivery = "CONSUMED" => row'[d].delivery = "CONSUMED"
  PROVE  Tokens' /\ ConsumedOnce'
  BY DEF Tokens, ConsumedOnce

\* A new delegation is counted; every other change of a delegation row is not.
LEMMA SpawnedCounts ==
  ASSUME DelTyped, NEW d \in Children, NEW s \in {"CREATED", "RUNNING", "COMPLETED", "FAILED"},
         delegation' = [delegation EXCEPT ![d] = s],
         delegation[d] # "none" \/ Cardinality(Spawned) < MaxChildren,
         Cardinality(Spawned) <= MaxChildren
  PROVE  Cardinality(Spawned') <= MaxChildren
<1>1. Spawned' = Spawned \cup {d}
  BY DEF Spawned, DelTyped
<1>2. IsFiniteSet(Spawned)
  BY FS_Subset, DelegationConstants DEF Spawned
<1>3. Cardinality(Spawned) \in Nat
  BY <1>2, FS_CardinalityType
<1>4. Cardinality(Spawned \cup {d}) =
        IF d \in Spawned THEN Cardinality(Spawned) ELSE Cardinality(Spawned) + 1
  BY <1>2, FS_AddElement
<1>5. delegation[d] # "none" => d \in Spawned
  BY DEF Spawned
<1> QED
  BY <1>1, <1>3, <1>4, <1>5, DelegationConstants

\* The steps of a delegate() call and of the child keep the invariant and let
\* every reported outcome stand.
LEMMA ChildCallStep ==
  ASSUME DelInv, NEW d \in Children,
         \/ delegate(d) \/ CreateLifecycle(d) \/ StartChild(d) \/ record_started(d)
         \/ Interrupted(d) \/ (\E o \in Outcomes : ChildEnds(d, o))
  PROVE  DelInv' /\ \A c \in Children : RowStands(c)
<1> USE DEF DelInv
<1>n. \A c \in Children : row[c].delivery \in Deliveries
  BY DEF DelTyped, Rows
<1>r. ASSUME row' = row PROVE \A c \in Children : RowStands(c)
  BY <1>n, <1>r, Ranks DEF RowStands, Deliveries
<1>1. CASE delegate(d)
  <2>1. delegation' = [delegation EXCEPT ![d] = "CREATED"]
    BY <1>1 DEF delegate
  <2>2. Cardinality(Spawned') <= MaxChildren
    BY <1>1, <2>1, SpawnedCounts DEF delegate, ChildAllowed, Spawned
  <2>3. DelTyped'
    BY <1>1 DEF delegate, DelTyped, CallPlaces
  <2>4. RowsFollowCalls'
    BY <1>1 DEF delegate, RowsFollowCalls, DelTyped
  <2> QED
    BY <1>1, <1>r, <2>2, <2>3, <2>4, TokensKept DEF delegate
<1>2. CASE CreateLifecycle(d)
  <2>1. row[d] = NoRow
    BY <1>2 DEF CreateLifecycle, RowsFollowCalls
  <2>2. parent.attempt \in 0..2
    BY DEF DelTyped, Parents, Attempts
  <2>3. [NoRow EXCEPT !.attempt = parent.attempt, !.execution = "CREATED"] \in Rows
    BY <2>2 DEF NoRow, Rows, ExecutionStates, Outcomes, Deliveries
  <2>4. row'[d].delivery = "NOT_READY" /\ row'[d].outcome = "none"
        /\ \A c \in Children \ {d} : row'[c] = row[c]
    BY <1>2 DEF CreateLifecycle, NoRow, DelTyped
  <2>5. DelTyped'
    BY <1>2, <2>3 DEF CreateLifecycle, DelTyped, CallPlaces
  <2>6. RowsFollowCalls'
    BY <1>2, <2>1, <2>4 DEF CreateLifecycle, RowsFollowCalls, DelTyped
  <2>7. \A c \in Children : row[c].delivery = "CONSUMED" => row'[c].delivery = "CONSUMED"
    BY <2>1, <2>4 DEF NoRow
  <2>8. \A c \in Children : RowStands(c)
    BY <1>n, <2>1, <2>4, Ranks DEF RowStands, NoRow, Deliveries
  <2> QED
    BY <1>2, <2>5, <2>6, <2>7, <2>8, TokensKept DEF CreateLifecycle, Spawned
<1>3. CASE StartChild(d)
  <2>1. delegation[d] # "none"
    BY <1>3 DEF StartChild, RowsFollowCalls
  <2>2. Cardinality(Spawned') <= MaxChildren
    BY <1>3, <2>1, SpawnedCounts DEF StartChild
  <2>3. DelTyped'
    BY <1>3 DEF StartChild, DelTyped, CallPlaces
  <2>4. RowsFollowCalls'
    BY <1>3 DEF StartChild, RowsFollowCalls, DelTyped
  <2> QED
    BY <1>3, <1>r, <2>2, <2>3, <2>4, TokensKept DEF StartChild
<1>4. CASE record_started(d)
  <2>1. row' = [row EXCEPT ![d].execution = "RUNNING"] /\ row[d] \in Rows
    BY <1>4 DEF record_started, DelTyped
  <2>2. [row[d] EXCEPT !.execution = "RUNNING"] \in Rows
    BY <2>1 DEF Rows, ExecutionStates
  <2>3. DelTyped'
    BY <1>4, <2>1, <2>2 DEF record_started, DelTyped, CallPlaces
  <2>4. \A c \in Children :
          row'[c].delivery = row[c].delivery /\ row'[c].outcome = row[c].outcome
    BY <2>1 DEF DelTyped, Rows
  <2>5. RowsFollowCalls'
    BY <1>4, <2>1, <2>4 DEF record_started, RowsFollowCalls, DelTyped
  <2>6. \A c \in Children : RowStands(c)
    BY <1>n, <2>4, Ranks DEF RowStands, Deliveries
  <2> QED
    BY <1>4, <2>3, <2>4, <2>5, <2>6, TokensKept DEF record_started, Spawned
<1>5. CASE Interrupted(d)
  <2>1. DelTyped'
    BY <1>5 DEF Interrupted, DelTyped, CallPlaces
  <2>2. RowsFollowCalls'
    BY <1>5 DEF Interrupted, RowsFollowCalls, DelTyped, Outcomes, ExecutionStates
  <2> QED
    BY <1>5, <1>r, <2>1, <2>2, TokensKept DEF Interrupted, Spawned
<1>6. ASSUME NEW o \in Outcomes, ChildEnds(d, o)
      PROVE  DelInv' /\ \A c \in Children : RowStands(c)
  <2>1. delegation[d] # "none" /\ o \notin {"none", "created"}
    BY <1>6 DEF ChildEnds, RowsFollowCalls, Outcomes, ExecutionStates
  <2>2. PICK s \in {"COMPLETED", "FAILED"} : delegation' = [delegation EXCEPT ![d] = s]
    BY <1>6 DEF ChildEnds
  <2>3. Cardinality(Spawned') <= MaxChildren
    BY <2>1, <2>2, SpawnedCounts
  <2>4. DelTyped'
    BY <1>6, <2>2 DEF ChildEnds, DelTyped, CallPlaces
  <2>5. RowsFollowCalls'
    BY <1>6, <2>1, <2>2 DEF ChildEnds, RowsFollowCalls, DelTyped
  <2> QED
    BY <1>6, <1>r, <2>3, <2>4, <2>5, TokensKept DEF ChildEnds
<1> QED
  BY <1>1, <1>2, <1>3, <1>4, <1>5, <1>6

\* A report changes a row only when it has no outcome yet.
LEMMA RecordedFacts ==
  ASSUME DelInv, NEW d \in Children, NEW o \in Outcomes, row' = Recorded(d, o)
  PROVE  /\ row' \in [Children -> Rows]
         /\ \A c \in Children \ {d} : row'[c] = row[c]
         /\ row[d].delivery # "NOT_READY" => row' = row
         /\ row[d].delivery = "NOT_READY" =>
              row'[d].delivery = "DELIVERY_PENDING" /\ row'[d].outcome = o
         /\ row'[d] # NoRow
<1>1. row \in [Children -> Rows] /\ row[d] \in Rows
  BY DEF DelInv, DelTyped
<1>2. CASE row[d].delivery # "NOT_READY"
  BY <1>1, <1>2 DEF Recorded, NoRow
<1>3. CASE row[d].delivery = "NOT_READY"
  <2>1. row' = [row EXCEPT ![d].execution = o, ![d].delivery = "DELIVERY_PENDING",
                            ![d].outcome = o]
    BY <1>3 DEF Recorded, RecordedLast
  <2> DEFINE r1 == [row EXCEPT ![d].execution = o]
               r2 == [r1 EXCEPT ![d].delivery = "DELIVERY_PENDING"]
               r3 == [r2 EXCEPT ![d].outcome = o]
  <2>2. row' = r3
    BY <2>1
  <2>3. r1[d] = [row[d] EXCEPT !.execution = o] /\ DOMAIN r1 = Children
    BY <1>1
  <2>4. r2[d] = [row[d] EXCEPT !.execution = o, !.delivery = "DELIVERY_PENDING"] /\ DOMAIN r2 = Children
    BY <1>1, <2>3
  <2>5. row'[d] = [row[d] EXCEPT !.execution = o, !.delivery = "DELIVERY_PENDING", !.outcome = o]
    BY <1>1, <2>2, <2>4
  <2>6. \A c \in Children \ {d} : row'[c] = row[c]
    BY <1>1, <2>2
  <2>7. row' = [c \in Children |-> row'[c]]
    BY <1>1, <2>2
  <2>8. [row[d] EXCEPT !.execution = o, !.delivery = "DELIVERY_PENDING", !.outcome = o] \in Rows
    BY <1>1 DEF Rows, Outcomes, Deliveries
  <2>9. row' \in [Children -> Rows]
    BY <1>1, <2>5, <2>6, <2>7, <2>8
  <2>10. row'[d].delivery = "DELIVERY_PENDING" /\ row'[d].outcome = o
    BY <1>1, <2>5 DEF Rows
  <2> QED
    BY <1>3, <2>9, <2>6, <2>10 DEF NoRow
<1> QED
  BY <1>2, <1>3

\* What the child's outcome does to its row, whoever reports or delivers it.
LEMMA RowStep ==
  ASSUME DelInv, NEW d \in Children, UNCHANGED << delegation, parent, saved, childReplans, crashes >>,
         row' \in [Children -> Rows], \A c \in Children \ {d} : row'[c] = row[c],
         call' \in [Children -> CallPlaces], \A c \in Children \ {d} : call'[c] = call[c],
         call[d] = "none" => call'[d] = "none",
         row'[d] = row[d] \/ call'[d] \notin {"none", "created"},
         call'[d] \in {"none", "created"} => call'[d] = call[d],
         row'[d].delivery # "NOT_READY" <=> row'[d].outcome # "none",
         RowStands(d)
  PROVE  DelInv' /\ \A c \in Children : RowStands(c)
<1>1. \A c \in Children : row[c].delivery \in Deliveries /\ row'[c].delivery \in Deliveries
  BY DEF DelInv, DelTyped, Rows
<1>2. \A c \in Children : RowStands(c)
  BY <1>1, Ranks DEF RowStands, Deliveries
<1>3. \A c \in Children : row[c].delivery = "CONSUMED" => row'[c].delivery = "CONSUMED"
  BY <1>1, <1>2, Ranks DEF RowStands, Deliveries
<1>4. DelTyped'
  BY DEF DelInv, DelTyped
<1>5. RowsFollowCalls'
  BY DEF DelInv, RowsFollowCalls
<1>6. Tokens' /\ ConsumedOnce'
  BY <1>3, TokensKept DEF DelInv
<1> QED
  BY <1>2, <1>4, <1>5, <1>6 DEF DelInv, Spawned

\* A row with an outcome is that of a child whose call got past its creation.
LEMMA StartedCall ==
  ASSUME DelInv, NEW d \in Children, row[d].delivery # "NOT_READY" \/ row[d].execution # "none"
  PROVE  call[d] \notin {"none", "created"}
  BY DEF DelInv, RowsFollowCalls, NoRow

\* Reports and deliveries, also late and repeated ones, let an outcome stand.
LEMMA OutcomeStep ==
  ASSUME DelInv, NEW d \in Children,
         \/ record_outcome(d) \/ deliver(d) \/ resume_pending_deliveries(d)
         \/ (\E o \in Outcomes : ReportOutcome(d, o))
  PROVE  DelInv' /\ \A c \in Children : RowStands(c)
<1>t. /\ row \in [Children -> Rows] /\ row[d] \in Rows /\ call \in [Children -> CallPlaces]
      /\ row[d].delivery \in Deliveries
      /\ row[d].delivery # "NOT_READY" <=> row[d].outcome # "none"
  BY DEF DelInv, DelTyped, RowsFollowCalls, Rows
<1>o. \A o \in Outcomes : o \notin {"none", "created"}
  BY DEF Outcomes, ExecutionStates
<1>s. ASSUME row[d].delivery # "NOT_READY" => row'[d].outcome = row[d].outcome,
             \/ row'[d].delivery = row[d].delivery
             \/ row[d].delivery = "NOT_READY" /\ row'[d].delivery \in Deliveries
             \/ row[d].delivery = "DELIVERY_PENDING" /\ row'[d].delivery = "DELIVERED"
      PROVE RowStands(d)
  BY <1>t, <1>s, Ranks DEF RowStands, Deliveries
<1>1. CASE record_outcome(d)
  <2>1. call[d] \in Outcomes /\ row' = Recorded(d, call[d])
    BY <1>1 DEF record_outcome
  <2>2. PICK p \in {"deliver", "raised"} : call' = [call EXCEPT ![d] = p]
    BY <1>1 DEF record_outcome
  <2>3. /\ row' \in [Children -> Rows]
        /\ \A c \in Children \ {d} : row'[c] = row[c]
        /\ row[d].delivery # "NOT_READY" => row' = row
        /\ row[d].delivery = "NOT_READY" =>
              row'[d].delivery = "DELIVERY_PENDING" /\ row'[d].outcome = call[d]
    BY <2>1, RecordedFacts
  <2>4. RowStands(d)
    BY <1>t, <1>s, <2>3 DEF Deliveries
  <2>5. /\ call' \in [Children -> CallPlaces] /\ call'[d] = p
        /\ \A c \in Children \ {d} : call'[c] = call[c]
    BY <1>t, <2>2 DEF CallPlaces
  <2>6. row'[d].delivery # "NOT_READY" <=> row'[d].outcome # "none"
    BY <1>t, <1>o, <2>1, <2>3
  <2> QED
    BY <1>1, <1>o, <2>1, <2>3, <2>4, <2>5, <2>6, RowStep DEF record_outcome
<1>2. CASE deliver(d)
  <2>1. /\ call' \in [Children -> CallPlaces] /\ call'[d] = "done" /\ call[d] = "deliver"
        /\ \A c \in Children \ {d} : call'[c] = call[c]
    BY <1>2, <1>t DEF deliver, CallPlaces
  <2>2. [row[d] EXCEPT !.delivery = "DELIVERED"] \in Rows
    BY <1>t DEF Rows, Deliveries
  <2>3. /\ row' \in [Children -> Rows] /\ \A c \in Children \ {d} : row'[c] = row[c]
        /\ row'[d].outcome = row[d].outcome
        /\ \/ row'[d].delivery = row[d].delivery
           \/ row[d].delivery = "DELIVERY_PENDING" /\ row'[d].delivery = "DELIVERED"
    <3>1. CASE row[d].delivery = "DELIVERY_PENDING"
      <4>1. row' = [row EXCEPT ![d].delivery = "DELIVERED"]
        BY <1>2, <3>1 DEF deliver, Delivered
      <4> QED
        BY <1>t, <2>2, <3>1, <4>1 DEF Rows
    <3>2. CASE row[d].delivery # "DELIVERY_PENDING"
      BY <1>2, <1>t, <3>2 DEF deliver
    <3> QED
      BY <3>1, <3>2
  <2>4. RowStands(d)
    BY <1>t, <1>s, <2>3 DEF Deliveries
  <2>5. row'[d].delivery # "NOT_READY" <=> row'[d].outcome # "none"
    BY <1>t, <2>3
  <2> QED
    BY <1>2, <2>1, <2>3, <2>4, <2>5, RowStep DEF deliver
<1>3. CASE resume_pending_deliveries(d)
  <2>1. row' = [row EXCEPT ![d].delivery = "DELIVERED"] /\ row[d].delivery = "DELIVERY_PENDING"
    BY <1>3 DEF resume_pending_deliveries, Delivered
  <2>2. [row[d] EXCEPT !.delivery = "DELIVERED"] \in Rows
    BY <1>t DEF Rows, Deliveries
  <2>3. /\ row' \in [Children -> Rows] /\ \A c \in Children \ {d} : row'[c] = row[c]
        /\ row'[d].outcome = row[d].outcome /\ row'[d].delivery = "DELIVERED"
    BY <1>t, <2>1, <2>2 DEF Rows
  <2>4. RowStands(d)
    BY <1>s, <2>1, <2>3
  <2>5. call[d] \notin {"none", "created"}
    BY <2>1, StartedCall
  <2> QED
    BY <1>3, <1>t, <2>1, <2>3, <2>4, <2>5, RowStep DEF resume_pending_deliveries
<1>4. ASSUME NEW o \in Outcomes, ReportOutcome(d, o)
      PROVE  DelInv' /\ \A c \in Children : RowStands(c)
  <2>1. row' = Recorded(d, o) /\ call[d] \notin {"none", "created"}
    BY <1>4, StartedCall DEF ReportOutcome
  <2>2. /\ row' \in [Children -> Rows]
        /\ \A c \in Children \ {d} : row'[c] = row[c]
        /\ row[d].delivery # "NOT_READY" => row' = row
        /\ row[d].delivery = "NOT_READY" =>
              row'[d].delivery = "DELIVERY_PENDING" /\ row'[d].outcome = o
    BY <2>1, RecordedFacts
  <2>3. RowStands(d)
    BY <1>t, <1>s, <2>2 DEF Deliveries
  <2>4. row'[d].delivery # "NOT_READY" <=> row'[d].outcome # "none"
    BY <1>t, <1>o, <2>2
  <2> QED
    BY <1>4, <1>t, <2>1, <2>2, <2>3, <2>4, RowStep DEF ReportOutcome
<1> QED
  BY <1>1, <1>2, <1>3, <1>4

\* The parent's steps: a row is taken while it is in no snapshot, is in one
\* after, and a crash forgets what was taken.
LEMMA ParentStep ==
  ASSUME DelInv,
         \/ (\E d \in Children : ConsumeRow(d)) \/ AddToSnapshot \/ SaveSnapshot
         \/ NextAttempt \/ CrashParent \/ ResumeParent
  PROVE  DelInv' /\ \A c \in Children : RowStands(c)
<1>n. \A c \in Children : row[c].delivery \in Deliveries
  BY DEF DelInv, DelTyped, Rows
<1>r. ASSUME row' = row PROVE \A c \in Children : RowStands(c)
  BY <1>n, <1>r, Ranks DEF RowStands, Deliveries
<1>1. ASSUME NEW d \in Children, ConsumeRow(d)
      PROVE  DelInv' /\ \A c \in Children : RowStands(c)
  <2>1. /\ parent.up /\ row[d].delivery = "DELIVERED" /\ row[d] \in Rows
        /\ row' = [row EXCEPT ![d].delivery = "CONSUMED"]
        /\ parent' = [parent EXCEPT !.pc = "consuming", !.taken = @ \cup {d}]
    BY <1>1 DEF ConsumeRow, Consumable, DelInv, DelTyped
  <2>2. [row[d] EXCEPT !.delivery = "CONSUMED"] \in Rows
    BY <2>1 DEF Rows, Deliveries
  <2>3. /\ row' \in [Children -> Rows] /\ \A c \in Children \ {d} : row'[c] = row[c]
        /\ row'[d].delivery = "CONSUMED" /\ row'[d].outcome = row[d].outcome
    BY <2>1, <2>2 DEF DelInv, DelTyped, Rows
  <2>4. /\ parent' \in Parents /\ parent'.taken = parent.taken \cup {d} /\ parent'.up
        /\ parent'.tokens = parent.tokens /\ parent'.pc = "consuming"
    BY <2>1 DEF DelInv, DelTyped, Parents
  <2>5. d \notin parent.tokens /\ \A a \in Attempts : d \notin saved[a]
    BY <2>1 DEF DelInv, Tokens
  <2>6. DelTyped'
    BY <1>1, <2>3, <2>4 DEF ConsumeRow, DelInv, DelTyped
  <2>7. RowsFollowCalls'
    <3>1. call[d] \notin {"none", "created"} /\ row[d].outcome # "none"
      BY <2>1, StartedCall DEF DelInv, RowsFollowCalls
    <3>2. UNCHANGED << delegation, call >>
      BY <1>1 DEF ConsumeRow
    <3> QED
      BY <2>1, <2>3, <3>1, <3>2 DEF DelInv, RowsFollowCalls
  <2>8. Tokens'
    BY <1>1, <2>3, <2>4 DEF ConsumeRow, DelInv, Tokens
  <2>9. ConsumedOnce'
    BY <1>1, <2>4, <2>5 DEF ConsumeRow, DelInv, ConsumedOnce
  <2>10. \A c \in Children : RowStands(c)
    BY <1>n, <2>1, <2>3, Ranks DEF RowStands, Deliveries
  <2> QED
    BY <1>1, <2>6, <2>7, <2>8, <2>9, <2>10 DEF ConsumeRow, DelInv, Spawned
<1>2. CASE AddToSnapshot
  <2>1. /\ parent' \in Parents /\ parent'.taken = {} /\ parent'.up
        /\ parent'.tokens = parent.tokens \cup parent.taken /\ parent'.pc = "saving"
    BY <1>2 DEF AddToSnapshot, DelInv, DelTyped, Parents
  <2>2. DelTyped'
    BY <1>2, <2>1 DEF AddToSnapshot, DelInv, DelTyped, FailedChildren, Parents
  <2>3. RowsFollowCalls'
    BY <1>2 DEF AddToSnapshot, DelInv, RowsFollowCalls
  <2>4. Tokens' /\ ConsumedOnce'
    BY <1>2, <2>1 DEF AddToSnapshot, DelInv, Tokens, ConsumedOnce
  <2> QED
    BY <1>2, <1>r, <2>2, <2>3, <2>4 DEF AddToSnapshot, DelInv, Spawned
<1>3. CASE SaveSnapshot
  <2>1. /\ parent' \in Parents /\ parent'.taken = parent.taken /\ parent'.up
        /\ parent'.tokens = parent.tokens /\ parent'.pc = "loop" /\ parent.taken = {}
        /\ parent.attempt \in Attempts /\ parent.tokens \in SUBSET Children
    BY <1>3 DEF SaveSnapshot, DelInv, DelTyped, Parents, Tokens
  <2>2. DelTyped'
    BY <1>3, <2>1 DEF SaveSnapshot, DelInv, DelTyped
  <2>3. RowsFollowCalls'
    BY <1>3 DEF SaveSnapshot, DelInv, RowsFollowCalls
  <2>4. Tokens' /\ ConsumedOnce'
    BY <1>3, <2>1 DEF SaveSnapshot, DelInv, DelTyped, Tokens, ConsumedOnce
  <2> QED
    BY <1>3, <1>r, <2>2, <2>3, <2>4 DEF SaveSnapshot, DelInv, Spawned
<1>4. CASE NextAttempt
  <2>1. /\ parent' \in Parents /\ parent'.taken = parent.taken /\ parent'.up
        /\ parent'.tokens = {} /\ parent'.pc = "loop" /\ parent.taken = {}
    BY <1>4 DEF NextAttempt, DelInv, DelTyped, Parents, Tokens
  <2>2. DelTyped'
    BY <1>4, <2>1 DEF NextAttempt, DelInv, DelTyped
  <2>3. RowsFollowCalls'
    BY <1>4 DEF NextAttempt, DelInv, RowsFollowCalls
  <2>4. Tokens' /\ ConsumedOnce'
    BY <1>4, <2>1 DEF NextAttempt, DelInv, Tokens, ConsumedOnce
  <2> QED
    BY <1>4, <1>r, <2>2, <2>3, <2>4 DEF NextAttempt, DelInv, Spawned
<1>5. CASE CrashParent
  <2>1. /\ parent' \in Parents /\ parent'.taken = {} /\ ~parent'.up
        /\ parent'.tokens = {} /\ parent'.pc = "loop"
    BY <1>5 DEF CrashParent, DelInv, DelTyped, Parents
  <2>2. DelTyped'
    BY <1>5, <2>1 DEF CrashParent, DelInv, DelTyped, CallPlaces
  <2>3. RowsFollowCalls'
    BY <1>5 DEF CrashParent, DelInv, RowsFollowCalls
  <2>4. Tokens' /\ ConsumedOnce'
    BY <1>5, <2>1 DEF CrashParent, DelInv, Tokens, ConsumedOnce
  <2> QED
    BY <1>5, <1>r, <2>2, <2>3, <2>4 DEF CrashParent, DelInv, Spawned
<1>6. CASE ResumeParent
  <2>1. /\ parent' \in Parents /\ parent'.taken = {} /\ parent'.up /\ parent.attempt \in Attempts
        /\ parent'.tokens = saved[parent.attempt] /\ parent'.pc = "loop"
    BY <1>6 DEF ResumeParent, DelInv, DelTyped, Parents, Tokens
  <2>2. DelTyped'
    BY <1>6, <2>1 DEF ResumeParent, DelInv, DelTyped
  <2>3. RowsFollowCalls'
    BY <1>6 DEF ResumeParent, DelInv, RowsFollowCalls
  <2>4. Tokens' /\ ConsumedOnce'
    BY <1>6, <2>1 DEF ResumeParent, DelInv, Tokens, ConsumedOnce
  <2> QED
    BY <1>6, <1>r, <2>2, <2>3, <2>4 DEF ResumeParent, DelInv, Spawned
<1> QED
  BY <1>1, <1>2, <1>3, <1>4, <1>5, <1>6

\* Every step of a delegation preserves the invariant and lets outcomes stand.
LEMMA DelStep ==
  ASSUME DelInv, DelNext \/ UNCHANGED delVars
  PROVE  DelInv' /\ \A c \in Children : RowStands(c)
<1>1. CASE UNCHANGED delVars
  <2>1. \A c \in Children : row[c].delivery \in Deliveries
    BY DEF DelInv, DelTyped, Rows
  <2>2. \A c \in Children : RowStands(c)
    BY <1>1, <2>1, Ranks DEF delVars, RowStands, Deliveries
  <2> QED
    BY <1>1, <2>2 DEF delVars, DelInv, DelTyped, RowsFollowCalls, Tokens, ConsumedOnce, Spawned
<1>2. CASE DelNext
  BY <1>2, ChildCallStep, OutcomeStep, ParentStep DEF DelNext
<1> QED
  BY <1>1, <1>2

\* The rows, calls and snapshots of any number of children keep the invariant.
THEOREM DelegationInductive == DelSpec => []DelInv
<1>1. DelInv /\ [DelNext]_delVars => DelInv'
  BY DelStep
<1> QED
  BY <1>1, DelStart, PTL DEF DelSpec

\* Rows stay within their states, an outcome is there exactly when a delivery is,
\* and a run never spawns more children than max_children.
THEOREM DelegationTypeCorrect == DelSpec => []DelTypeOK
<1>1. DelInv => DelTypeOK
  BY DEF DelInv, DelTyped, DelTypeOK, RowsFollowCalls, Rows, Parents, Spawned
<1> QED
  BY <1>1, DelegationInductive, PTL

\* A parent is given each outcome once and as it was first reported: record_outcome
\* never replaces one, deliveries never go back, and no crash or resumption makes a
\* consumed one enter a context again.
THEOREM OutcomeStandsAlways == DelSpec => OutcomeStands
<1>1. DelInv /\ [DelNext]_delVars =>
        [ /\ \A d \in Children :
               row[d].delivery # "NOT_READY" =>
                 /\ row'[d].outcome = row[d].outcome
                 /\ Rank(row'[d].delivery) >= Rank(row[d].delivery)
          /\ ConsumedOnce' ]_delVars
  BY DelStep DEF RowStands, DelInv
<1> QED
  BY <1>1, DelegationInductive, PTL DEF DelSpec, OutcomeStands

-----------------------------------------------------------------------------
(***************************************************************************)
(* TargetSwitch.  The invariant says what is installed at each place of a  *)
(* switch: until the candidate is installed, and again after it is rolled  *)
(* back or committed, the process runs what it last won; in between it can *)
(* go back, since `before' is still what it won.                           *)
(***************************************************************************)

SwitchPlaces == {"idle", "requested", "pending", "installed", "failing", "committed"}
Bindings ==
  [ state : {"COMMITTED", "PENDING", "FAILED", "FALLBACK"}, effective : Targets,
    pending : Targets \cup {None}, id : Nat ]
Switches ==
  [ pc : SwitchPlaces, id : Nat, from : Targets \cup {None}, to : Targets \cup {None},
    before : Targets \cup {None} ]

TsTyped ==
  /\ binding \in Bindings
  /\ binding.state \in {"COMMITTED", "FAILED"} => binding.pending = None
  /\ binding.state = "PENDING" => binding.pending \in Targets
  /\ provider \in [Procs -> Targets] /\ won \in [Procs -> Targets]
  /\ known \in [Procs -> Targets \cup {None}]
  /\ switch \in [Procs -> Switches]
  /\ health \in [Targets -> HealthStates]
  /\ ids \in Nat

Installed ==
  \A p \in Procs :
    /\ switch[p].pc # "installed" => provider[p] = won[p]
    /\ switch[p].pc \in {"requested", "pending", "installed"} =>
         switch[p].to \in Targets /\ switch[p].before = won[p]
    /\ switch[p].pc = "installed" => provider[p] = switch[p].to

TsInv == TsTyped /\ Installed

\* Every initial state satisfies the invariant: each process starts with the
\* provider of the configured target and no switch.
LEMMA TsStart == TsInit => TsInv
  BY TargetConstants DEF TsInit, TsInv, TsTyped, Installed, Bindings, Switches, SwitchPlaces,
     Idle, HealthStates, Blocking

\* A switch record stays one when its place moves on.
LEMMA SwitchMoves ==
  ASSUME NEW s \in Switches, NEW pc \in SwitchPlaces
  PROVE  [s EXCEPT !.pc = pc] \in Switches
  BY DEF Switches

\* Idle is a switch record.
LEMMA IdleIsSwitch == Idle \in Switches
  BY DEF Idle, Switches, SwitchPlaces

\* Every step of a process and every fallback preserves the invariant.
LEMMA TsStep == TsInv /\ [TsNext]_tsVars => TsInv'
<1> SUFFICES ASSUME TsInv, [TsNext]_tsVars PROVE TsInv'
  OBVIOUS
<1> USE DEF TsInv, TsTyped, Installed
<1>1. ASSUME NEW p \in Procs, NEW e \in Targets, NEW t \in Targets, RequestSwitch(p, e, t)
      PROVE TsInv'
  <2>1. [pc |-> "requested", id |-> ids + 1, from |-> e, to |-> t, before |-> provider[p]]
          \in Switches
    BY DEF Switches, SwitchPlaces
  <2>2. switch' \in [Procs -> Switches] /\ ids' \in Nat
    BY <1>1, <2>1 DEF RequestSwitch
  <2> QED
    BY <1>1, <2>2 DEF RequestSwitch
<1>2. ASSUME NEW p \in Procs, MarkPending(p) PROVE TsInv'
  <2>1. CASE binding.effective = switch[p].from
    <3>1. switch' = [switch EXCEPT ![p].pc = "pending"] /\ switch[p].to \in Targets
      BY <1>2, <2>1 DEF MarkPending
    <3>2. switch' \in [Procs -> Switches]
      BY <3>1, SwitchMoves DEF SwitchPlaces
    <3>3. binding' \in Bindings /\ binding'.state = "PENDING" /\ binding'.pending \in Targets
      BY <1>2, <2>1, <3>1 DEF MarkPending, Bindings, Switches
    <3> QED
      BY <1>2, <3>1, <3>2, <3>3 DEF MarkPending
  <2>2. CASE binding.effective # switch[p].from
    BY <1>2, <2>2, IdleIsSwitch DEF MarkPending, Idle
  <2> QED
    BY <2>1, <2>2
<1>3. ASSUME NEW p \in Procs, Install(p) PROVE TsInv'
  <2>1. switch' \in [Procs -> Switches]
    BY <1>3, SwitchMoves DEF Install, SwitchPlaces
  <2> QED
    BY <1>3, <2>1 DEF Install
<1>4. ASSUME NEW p \in Procs, InstallFails(p) PROVE TsInv'
  <2>1. switch' \in [Procs -> Switches]
    BY <1>4, SwitchMoves DEF InstallFails, SwitchPlaces
  <2> QED
    BY <1>4, <2>1 DEF InstallFails
<1>5. ASSUME NEW p \in Procs, Commit(p) PROVE TsInv'
  <2>1. switch[p].to \in Targets /\ switch[p].before = won[p]
    BY <1>5 DEF Commit
  <2>2. CASE binding.id = switch[p].id
    <3>1. /\ switch[p].pc = "installed"
          /\ switch' = [switch EXCEPT ![p].pc = "committed"]
          /\ won' = [won EXCEPT ![p] = switch[p].to]
          /\ UNCHANGED << provider, known, health, ids >>
      BY <1>5, <2>2 DEF Commit
    <3>2. switch' \in [Procs -> Switches]
      BY <3>1, SwitchMoves DEF SwitchPlaces
    <3>3. binding' \in Bindings /\ binding'.state = "COMMITTED" /\ binding'.pending = None
      BY <1>5, <2>1, <2>2 DEF Commit, Bindings
    <3>4. TsTyped'
      BY <2>1, <3>1, <3>2, <3>3
    <3>5. Installed'
      BY <2>1, <3>1
    <3> QED
      BY <3>4, <3>5
  <2>3. CASE binding.id # switch[p].id
    <3>1. /\ switch[p].pc = "installed"
          /\ switch' = [switch EXCEPT ![p].pc = "failing"]
          /\ provider' = [provider EXCEPT ![p] = switch[p].before]
          /\ UNCHANGED << binding, won, known, health, ids >>
      BY <1>5, <2>3 DEF Commit, RolledBack
    <3>2. switch' \in [Procs -> Switches]
      BY <3>1, SwitchMoves DEF SwitchPlaces
    <3> QED
      BY <2>1, <3>1, <3>2
  <2> QED
    BY <2>2, <2>3
<1>6. ASSUME NEW p \in Procs, FailSwitch(p) PROVE TsInv'
  <2>1. switch[p].id \in Nat /\ binding.effective \in Targets
    BY DEF Switches, Bindings
  <2>2. binding' \in Bindings /\ binding'.state = "FAILED" /\ binding'.pending = None
    BY <1>6, <2>1 DEF FailSwitch, FailedBinding, Bindings
  <2> QED
    BY <1>6, <2>2, IdleIsSwitch DEF FailSwitch, Idle
<1>7. ASSUME NEW p \in Procs, SnapshotFollows(p) PROVE TsInv'
  <2>1. switch[p].to \in Targets \cup {None}
    BY DEF Switches
  <2>2. known' \in [Procs -> Targets \cup {None}]
    BY <1>7, <2>1 DEF SnapshotFollows
  <2> QED
    BY <1>7, <2>2, IdleIsSwitch DEF SnapshotFollows, Idle
<1>8. ASSUME NEW t \in Targets, record_fallback(t) PROVE TsInv'
  <2>1. ids + 1 \in Nat /\ ids' = ids + 1
    BY <1>8 DEF record_fallback
  <2>2. \A n \in Nat : [binding EXCEPT !.state = "FALLBACK", !.effective = t, !.id = n] \in Bindings
    BY DEF Bindings
  <2>3. binding' \in Bindings /\ binding'.state = "FALLBACK"
    BY <1>8, <2>1, <2>2 DEF record_fallback, Bindings
  <2> QED
    BY <1>8, <2>1, <2>3 DEF record_fallback
<1>9. ASSUME NEW p \in Procs, BindRun(p) \/ TurnRefused(p) PROVE TsInv'
  <2>1. known' \in [Procs -> Targets \cup {None}]
    BY <1>9 DEF BindRun, TurnRefused, Bindings
  <2> QED
    BY <1>9, <2>1 DEF BindRun, TurnRefused
<1>10. ASSUME NEW p \in Procs, NEW h \in HealthStates, CallFails(p, h) PROVE TsInv'
  BY <1>10 DEF CallFails
<1>11. ASSUME NEW p \in Procs, CrashProcess(p) PROVE TsInv'
  BY <1>11, TargetConstants, IdleIsSwitch DEF CrashProcess, Idle
<1>12. ASSUME UNCHANGED tsVars PROVE TsInv'
  BY <1>12 DEF tsVars
<1> QED
  BY <1>1, <1>2, <1>3, <1>4, <1>5, <1>6, <1>7, <1>8, <1>9, <1>10, <1>11, <1>12 DEF TsNext

\* The switches of any number of processes over one binding row keep the invariant.
THEOREM SwitchInductive == TsSpec => []TsInv
  BY TsStart, TsStep, PTL DEF TsSpec

\* A settled row has no pending target and every process knows and runs targets
\* of the table, whatever the processes do to the row they share.
THEOREM SwitchTypeCorrect == TsSpec => []TsTypeOK
<1>1. TsInv => TsTypeOK
  BY DEF TsInv, TsTyped, TsTypeOK, Bindings
<1> QED
  BY <1>1, SwitchInductive, PTL

\* request_switch leaves nothing behind when it fails or loses the row: outside a
\* switch a process runs the provider it started with or last committed.
THEOREM LostSwitchLeavesNothing == TsSpec => []InstalledIsCommitted
<1>1. TsInv => InstalledIsCommitted
  BY DEF TsInv, Installed, InstalledIsCommitted
<1> QED
  BY <1>1, SwitchInductive, PTL

-----------------------------------------------------------------------------
(***************************************************************************)
(* ExperimentRunners.  While a trial is written, the files before the next *)
(* one are there, whole, and by this very invocation: each was created by  *)
(* it, since an existing file raises.                                      *)
(***************************************************************************)

RunnerPlaces == {"down", "preflight", "recheck", "trial", "persist", "writing"}

\* The k-th file of the trial at hand is on disk, whole and by this invocation.
OnDisk(k) ==
  \E f \in files :
    /\ << f.trial, f.attempt, f.file, f.by >> = << trial, run.attempt, TrialFiles(rkind)[k], run.n >>
    /\ f.whole

WrittenInOrder ==
  /\ rkind \in {"pilot", "canary", "dry"}
  /\ run = [n |-> run.n, pc |-> run.pc, at |-> run.at, attempt |-> run.attempt,
            next |-> run.next, errors |-> run.errors, pinned |-> run.pinned]
  /\ run.pc \in RunnerPlaces /\ run.next \in 1..Len(TrialFiles(rkind))
  /\ run.pc # "writing" => run.next = 1
  /\ \A k \in 1..(run.next - 1) : OnDisk(k)

RunnerInv == WrittenInOrder /\ MarkerIsHonest

\* The lengths of the file lists.
LEMMA FileLists ==
  ASSUME NEW kind \in {"pilot", "canary", "dry"}
  PROVE  /\ Len(TrialFiles(kind)) \in Nat \ {0}
         /\ DOMAIN TrialFiles(kind) = 1..Len(TrialFiles(kind))
<1>1. CASE kind = "pilot"
  BY <1>1 DEF TrialFiles
<1>2. CASE kind = "canary"
  BY <1>2 DEF TrialFiles
<1>3. CASE kind = "dry"
  BY <1>3 DEF TrialFiles
<1> QED
  BY <1>1, <1>2, <1>3

\* The order of the files: what a marker vouches for comes before it.
LEMMA MarkerComesLast ==
  ASSUME NEW kind \in {"pilot", "canary", "dry"}
  PROVE  \A k \in 1..Len(TrialFiles(kind)) : TrialFiles(kind)[k] = "COMPLETE" =>
           \A name \in Vouched(kind) : \E j \in 1..(k - 1) : TrialFiles(kind)[j] = name
<1>1. CASE kind = "pilot"
  BY <1>1 DEF TrialFiles, Vouched, Range
<1>2. CASE kind = "canary"
  BY <1>2 DEF TrialFiles, Vouched, Range
<1>3. CASE kind = "dry"
  BY <1>3 DEF TrialFiles, Vouched, Range
<1> QED
  BY <1>1, <1>2, <1>3

\* No file at the start.
LEMMA RunnerStart == RunnerInit => RunnerInv
  BY RunnerConstants, FileLists
     DEF RunnerInit, RunnerInv, WrittenInOrder, MarkerIsHonest, Down, RunnerPlaces

\* Files that are not a trial's marker leave the markers honest.
LEMMA MarkersStayHonest ==
  ASSUME MarkerIsHonest, rkind' = rkind, NEW new, new.file # "COMPLETE",
         files' = files \cup {new} \/ files' = files
  PROVE  MarkerIsHonest'
<1> SUFFICES ASSUME NEW m \in files', m.file = "COMPLETE", NEW name \in Vouched(rkind')
             PROVE  \E f \in files' :
                      /\ << f.trial, f.attempt, f.file, f.by >> = << m.trial, m.attempt, name, m.by >>
                      /\ f.whole
  BY DEF MarkerIsHonest
<1>1. m \in files /\ name \in Vouched(rkind)
  OBVIOUS
<1>2. PICK f \in files :
        /\ << f.trial, f.attempt, f.file, f.by >> = << m.trial, m.attempt, name, m.by >>
        /\ f.whole
  BY <1>1 DEF MarkerIsHonest
<1> QED
  BY <1>2

\* A runner at the start of something, with none of a trial's files written.
NothingWritten(r) ==
  /\ r = [n |-> r.n, pc |-> r.pc, at |-> r.at, attempt |-> r.attempt, next |-> 1,
          errors |-> r.errors, pinned |-> r.pinned]
  /\ r.pc \in RunnerPlaces

\* A step that goes there.
LEMMA LeaveStep ==
  ASSUME RunnerInv, rkind' = rkind, MarkerIsHonest', NothingWritten(run')
  PROVE  RunnerInv'
<1>1. run'.next = 1
  BY DEF NothingWritten
<1>2. 1..(run'.next - 1) = {}
  BY <1>1
<1>3. rkind' \in {"pilot", "canary", "dry"} /\ 1 \in 1..Len(TrialFiles(rkind'))
  BY FileLists DEF RunnerInv, WrittenInOrder
<1> QED
  BY <1>1, <1>2, <1>3 DEF RunnerInv, WrittenInOrder, NothingWritten

\* The places a runner goes to with nothing written: down, the next trial, and any
\* place from one that is not in the middle of a trial's files.
LEMMA PlacesToGo ==
  ASSUME RunnerInv
  PROVE  /\ \A n : NothingWritten(Down(n))
         /\ \A n : NothingWritten([Down(n) EXCEPT !.pc = "preflight"])
         /\ \A e : NothingWritten(NextTrial(e))
         /\ \A pc \in RunnerPlaces : run.pc # "writing" =>
              /\ NothingWritten([run EXCEPT !.pc = pc])
              /\ \A v : NothingWritten([run EXCEPT !.pc = pc, !.pinned = v])
<1>1. ASSUME NEW n PROVE NothingWritten(Down(n)) /\ NothingWritten([Down(n) EXCEPT !.pc = "preflight"])
  BY DEF Down, RunnerPlaces, NothingWritten
<1>2. ASSUME NEW e PROVE NothingWritten(NextTrial(e))
  <2> SUFFICES ASSUME NEW r, r = NextTrial(e) PROVE NothingWritten(r)
    OBVIOUS
  <2>1. r = [n |-> run.n, pc |-> "trial", at |-> run.at + 1, attempt |-> 0, next |-> 1,
             errors |-> run.errors + e, pinned |-> run.pinned]
    BY DEF NextTrial, RunnerInv, WrittenInOrder
  <2> QED
    BY <2>1 DEF RunnerPlaces, NothingWritten
<1>3. ASSUME NEW pc \in RunnerPlaces, NEW v, run.pc # "writing"
      PROVE  NothingWritten([run EXCEPT !.pc = pc]) /\ NothingWritten([run EXCEPT !.pc = pc, !.pinned = v])
  <2>1. run.next = 1
    BY <1>3 DEF RunnerInv, WrittenInOrder
  <2>2. ASSUME NEW r, r = [run EXCEPT !.pc = pc] PROVE NothingWritten(r)
    <3>1. r = [n |-> run.n, pc |-> pc, at |-> run.at, attempt |-> run.attempt, next |-> 1,
               errors |-> run.errors, pinned |-> run.pinned]
      BY <2>1, <2>2 DEF RunnerInv, WrittenInOrder
    <3> QED
      BY <3>1 DEF NothingWritten
  <2>3. ASSUME NEW r, r = [run EXCEPT !.pc = pc, !.pinned = v] PROVE NothingWritten(r)
    <3>1. r = [n |-> run.n, pc |-> pc, at |-> run.at, attempt |-> run.attempt, next |-> 1,
               errors |-> run.errors, pinned |-> v]
      BY <2>1, <2>3 DEF RunnerInv, WrittenInOrder
    <3> QED
      BY <3>1 DEF NothingWritten
  <2> QED
    BY <2>2, <2>3
<1> QED
  BY <1>1, <1>2, <1>3

\* Start, preflight and everything that ends the invocation or a trial without
\* writing.
LEMMA QuietRunner ==
  ASSUME RunnerInv,
         \/ Start \/ (\E kinds \in SUBSET {"pilot", "canary", "dry"} : Refused(kinds))
         \/ DryPreflight \/ CanaryQualification \/ CanaryPreflightOnly \/ CanaryRecheck
         \/ DriverRefused \/ ExecuteTrial \/ TrialRaises
         \/ (\E file : FileIsThere(file)) \/ (BeginPersist /\ Skipped)
  PROVE  RunnerInv'
<1>1. rkind' = rkind /\ files' = files
  BY DEF Start, Refused, DryPreflight, CanaryQualification, CanaryPreflightOnly, CanaryRecheck,
         DriverRefused, ExecuteTrial, TrialRaises, FileIsThere, BeginPersist
<1>2. MarkerIsHonest'
  BY <1>1 DEF RunnerInv, MarkerIsHonest
<1>3. {"trial", "persist"} \subseteq RunnerPlaces
  BY DEF RunnerPlaces
<1>4. NothingWritten(run')
  <2>1. CASE Start
    BY <2>1, PlacesToGo DEF Start
  <2>2. CASE (\E kinds \in SUBSET {"pilot", "canary", "dry"} : Refused(kinds))
             \/ CanaryQualification \/ CanaryPreflightOnly \/ DriverRefused
    BY <2>2, PlacesToGo DEF Refused, CanaryQualification, CanaryPreflightOnly, DriverRefused, Stop
  <2>3. CASE DryPreflight \/ CanaryRecheck
    BY <2>3, <1>3, PlacesToGo DEF DryPreflight, CanaryRecheck
  <2>4. CASE ExecuteTrial
    BY <2>4, <1>3, PlacesToGo DEF ExecuteTrial, Trial
  <2>5. CASE TrialRaises \/ (\E file : FileIsThere(file))
    BY <2>5, PlacesToGo DEF TrialRaises, FileIsThere, Raised
  <2>6. CASE BeginPersist /\ Skipped
    BY <2>6, PlacesToGo DEF BeginPersist
  <2> QED
    BY <2>1, <2>2, <2>3, <2>4, <2>5, <2>6
<1> QED
  BY <1>1, <1>2, <1>4, LeaveStep

\* The files a preflight or a report writes are no markers.
LEMMA TopStep ==
  ASSUME RunnerInv, PilotPreflight \/ CanaryPreflight \/ Report
  PROVE  RunnerInv'
<1>0. /\ rkind' = rkind /\ {"trial", "recheck"} \subseteq RunnerPlaces /\ MarkerIsHonest
      /\ rkind \in {"pilot", "canary", "dry"}
  BY DEF PilotPreflight, CanaryPreflight, Report, RunnerPlaces, RunnerInv, WrittenInOrder
<1>1. \A file, what, whole : FileAs(Top, 0, file, what, whole).file = file
  BY DEF FileAs
<1>2. CASE PilotPreflight
  <2>1. files' = files \/ files' = files \cup {FileAs(Top, 0, "arm_schedule", Seed, TRUE)}
    BY <1>2 DEF PilotPreflight
  <2>2. MarkerIsHonest'
    <3>1. FileAs(Top, 0, "arm_schedule", Seed, TRUE).file # "COMPLETE"
      BY DEF FileAs
    <3> QED
      BY <1>0, <2>1, <3>1, MarkersStayHonest
  <2>3. NothingWritten(run')
    BY <1>0, <1>2, PlacesToGo DEF PilotPreflight
  <2> QED
    BY <1>0, <2>2, <2>3, LeaveStep
<1>3. CASE CanaryPreflight
  <2>1. \/ files' = files
        \/ files' = files \cup {FileAs(Top, 0, "live_preflight", resolve_endpoint_identity, TRUE)}
    BY <1>3 DEF CanaryPreflight
  <2>2. MarkerIsHonest'
    <3>1. FileAs(Top, 0, "live_preflight", resolve_endpoint_identity, TRUE).file # "COMPLETE"
      BY DEF FileAs
    <3> QED
      BY <1>0, <2>1, <3>1, MarkersStayHonest
  <2>3. NothingWritten(run')
    BY <1>0, <1>3, PlacesToGo DEF CanaryPreflight
  <2> QED
    BY <1>0, <2>2, <2>3, LeaveStep
<1>4. CASE Report
  <2> DEFINE summary == FileAs(Top, 0, ReportFile, run.errors, TRUE)
  <2>1. NothingWritten(run')
    BY <1>4, PlacesToGo DEF Report, Stop
  <2>2. summary.file = ReportFile /\ ReportFile # "COMPLETE"
    BY <1>1 DEF ReportFile
  <2>3. CASE rkind = "dry"
    <3>1. files' = {f \in files : f.file # ReportFile} \cup {summary} /\ ReportFile # "records"
      <4>1. ReportFile # "records"
        BY DEF ReportFile
      <4>2. files' = {f \in files : f.file # ReportFile} \cup {summary}
        BY <1>4, <2>3 DEF Report
      <4> QED
        BY <4>1, <4>2
    <3>2. ASSUME NEW m \in files', m.file = "COMPLETE", NEW name \in Vouched(rkind')
          PROVE  \E f \in files' :
                   /\ << f.trial, f.attempt, f.file, f.by >> = << m.trial, m.attempt, name, m.by >>
                   /\ f.whole
      <4>1. name = "records" /\ m \in files /\ name \in Vouched(rkind)
        BY <1>0, <2>2, <2>3, <3>1, <3>2 DEF Vouched
      <4>2. PICK f \in files :
              /\ << f.trial, f.attempt, f.file, f.by >> = << m.trial, m.attempt, name, m.by >>
              /\ f.whole
        BY <1>0, <3>2, <4>1 DEF MarkerIsHonest
      <4>3. f \in files'
        BY <3>1, <4>1, <4>2
      <4> QED
        BY <4>2, <4>3
    <3>3. MarkerIsHonest'
      BY <3>2 DEF MarkerIsHonest
    <3> QED
      BY <1>0, <2>1, <3>3, LeaveStep
  <2>4. CASE rkind # "dry"
    <3>1. files' = files \/ files' = files \cup {summary}
      BY <1>4, <2>4 DEF Report
    <3>2. MarkerIsHonest'
      <4> HIDE DEF summary
      <4> QED
        BY <1>0, <2>2, <3>1, MarkersStayHonest
    <3> QED
      BY <1>0, <2>1, <3>2, LeaveStep
  <2> QED
    BY <2>3, <2>4
<1> QED
  BY <1>2, <1>3, <1>4

\* The next file of the trial, torn or whole: a marker finds the others there.
LEMMA NextFileHonest ==
  ASSUME RunnerInv, NEW file, Writing(file), NEW whole \in BOOLEAN, rkind' = rkind,
         files' = files \cup {FileAs(trial, run.attempt, file, "trial", whole)}
  PROVE  MarkerIsHonest'
<1> DEFINE new == FileAs(trial, run.attempt, file, "trial", whole)
<1>1. /\ new.trial = trial /\ new.attempt = run.attempt /\ new.file = file /\ new.by = run.n
      /\ file = TrialFiles(rkind)[run.next] /\ run.next \in 1..Len(TrialFiles(rkind))
      /\ rkind \in {"pilot", "canary", "dry"}
  BY DEF FileAs, Writing, RunnerInv, WrittenInOrder
<1> HIDE DEF new
<1>2. SUFFICES ASSUME NEW m \in files', m.file = "COMPLETE", NEW name \in Vouched(rkind')
               PROVE  \E f \in files :
                        /\ << f.trial, f.attempt, f.file, f.by >> = << m.trial, m.attempt, name, m.by >>
                        /\ f.whole
  BY DEF MarkerIsHonest, new
<1>3. CASE m \in files
  BY <1>2, <1>3 DEF RunnerInv, MarkerIsHonest
<1>4. CASE m = new
  <2>1. TrialFiles(rkind)[run.next] = "COMPLETE" /\ name \in Vouched(rkind)
    BY <1>1, <1>2, <1>4
  <2>2. PICK j \in 1..(run.next - 1) : TrialFiles(rkind)[j] = name
    BY <1>1, <2>1, MarkerComesLast
  <2>3. OnDisk(j)
    BY DEF RunnerInv, WrittenInOrder
  <2> QED
    BY <1>1, <1>4, <2>2, <2>3 DEF OnDisk
<1> QED
  BY <1>2, <1>3, <1>4 DEF new

\* A file is created whole and the writer goes on, or is done with the trial.
LEMMA WriteFileStep ==
  ASSUME RunnerInv, NEW file, WriteFile(file)
  PROVE  RunnerInv'
<1> DEFINE new == FileAs(trial, run.attempt, file, "trial", TRUE)
<1>1. /\ Writing(file) /\ files' = files \cup {new} /\ rkind' = rkind /\ Advance
      /\ run.pc = "writing" /\ file = TrialFiles(rkind)[run.next]
  BY DEF WriteFile, Create, Writing
<1>2. MarkerIsHonest'
  BY <1>1, NextFileHonest
<1>3. CASE run.next = Len(TrialFiles(rkind))
  BY <1>1, <1>2, <1>3, PlacesToGo, LeaveStep DEF Advance
<1>4. CASE run.next # Len(TrialFiles(rkind))
  <2>1. run' = [n |-> run.n, pc |-> run.pc, at |-> run.at, attempt |-> run.attempt,
                next |-> run.next + 1, errors |-> run.errors, pinned |-> run.pinned]
    BY <1>1, <1>4 DEF Advance, RunnerInv, WrittenInOrder
  <2>2. /\ run'.n = run.n /\ run'.pc = "writing" /\ run'.at = run.at /\ run'.attempt = run.attempt
        /\ run'.next = run.next + 1
    BY <1>1, <2>1
  <2>3. /\ run.next \in 1..Len(TrialFiles(rkind)) /\ Len(TrialFiles(rkind)) \in Nat
        /\ rkind \in {"pilot", "canary", "dry"}
    BY FileLists DEF RunnerInv, WrittenInOrder
  <2>4. run'.next \in 1..Len(TrialFiles(rkind)) /\ run'.next - 1 = run.next
    BY <1>4, <2>2, <2>3
  <2>5. ASSUME NEW k \in 1..run.next PROVE OnDisk(k)'
    <3>1. trial' = trial
      BY <1>1, <2>2 DEF trial
    <3>2. CASE k = run.next
      <4>1. /\ new \in files' /\ new.trial = trial /\ new.attempt = run.attempt
            /\ new.file = TrialFiles(rkind)[k] /\ new.by = run.n /\ new.whole
        BY <1>1, <3>2 DEF FileAs
      <4> HIDE DEF new
      <4> QED
        BY <1>1, <2>2, <3>1, <4>1 DEF OnDisk
    <3>3. CASE k \in 1..(run.next - 1)
      <4>1. OnDisk(k)
        BY <3>3 DEF RunnerInv, WrittenInOrder
      <4> HIDE DEF new
      <4> QED
        BY <1>1, <2>2, <3>1, <4>1 DEF OnDisk
    <3> QED
      BY <2>3, <3>2, <3>3
  <2>6. WrittenInOrder'
    <3>1. \A k \in 1..(run'.next - 1) : OnDisk(k)'
      BY <2>4, <2>5
    <3>2. run' = [n |-> run'.n, pc |-> run'.pc, at |-> run'.at, attempt |-> run'.attempt,
                  next |-> run'.next, errors |-> run'.errors, pinned |-> run'.pinned]
      BY <2>1
    <3> QED
      BY <1>1, <2>2, <2>3, <2>4, <3>1, <3>2 DEF WrittenInOrder, RunnerPlaces
  <2> QED
    BY <1>2, <2>6 DEF RunnerInv
<1> QED
  BY <1>3, <1>4

\* A trial's directory is chosen: nothing of it is written yet.
LEMMA RunnerBeginStep ==
  ASSUME RunnerInv, BeginPersist, ~Skipped
  PROVE  RunnerInv'
<1>1. /\ run' = [n |-> run.n, pc |-> "writing", at |-> run.at, attempt |-> AttemptDir,
                 next |-> run.next, errors |-> run.errors, pinned |-> run.pinned]
      /\ run.next = 1 /\ rkind' = rkind /\ files' = files
  BY DEF BeginPersist, RunnerInv, WrittenInOrder
<1>2. NothingWritten(run')
  BY <1>1 DEF NothingWritten, RunnerPlaces
<1>3. MarkerIsHonest'
  BY <1>1 DEF RunnerInv, MarkerIsHonest
<1> QED
  BY <1>1, <1>2, <1>3, LeaveStep

\* A crash leaves the files or a part of the one being written.
LEMMA RunnerCrash ==
  ASSUME RunnerInv, Crash
  PROVE  RunnerInv'
<1>1. rkind' = rkind /\ NothingWritten(run') /\ MarkerIsHonest
  BY PlacesToGo DEF Crash, Stop, RunnerInv
<1>2. CASE files' = files
  BY <1>1, <1>2, LeaveStep DEF MarkerIsHonest
<1>3. ASSUME NEW file, Writing(file),
             files' = files \cup {FileAs(trial, run.attempt, file, "trial", FALSE)}
      PROVE  RunnerInv'
  BY <1>1, <1>3, NextFileHonest, LeaveStep
<1>4. CASE files' = files \cup {FileAs(Top, 0, "live_preflight", endpoint, FALSE)}
  <2>1. FileAs(Top, 0, "live_preflight", endpoint, FALSE).file # "COMPLETE"
    BY DEF FileAs
  <2> QED
    BY <1>1, <1>4, <2>1, MarkersStayHonest, LeaveStep
<1> QED
  BY <1>2, <1>3, <1>4 DEF Crash

\* Every step of a runner, of a crash and of the environment keeps the invariant.
LEMMA RunnerStep == RunnerInv /\ [RunnerNext]_runnerVars => RunnerInv'
<1> SUFFICES ASSUME RunnerInv, [RunnerNext]_runnerVars PROVE RunnerInv'
  OBVIOUS
<1>1. ASSUME UNCHANGED << rkind, files, run >> PROVE RunnerInv'
  BY <1>1 DEF RunnerInv, WrittenInOrder, OnDisk, trial, MarkerIsHonest
<1>2. CASE RunnerWork
  <2>1. /\ {"pilot"} \in SUBSET {"pilot", "canary", "dry"}
        /\ {"canary"} \in SUBSET {"pilot", "canary", "dry"}
    OBVIOUS
  <2> QED
    BY <1>2, <2>1, QuietRunner, TopStep, WriteFileStep, RunnerBeginStep
       DEF RunnerWork, ManifestRefused, UnitsRefused, RoleRefused, BudgetRefused, ConfigRefused,
           TaskRefused, EngineRefused, ProvenanceRefused
<1>3. ASSUME NEW e \in Endpoints, EndpointMoves(e) PROVE RunnerInv'
  BY <1>1, <1>3 DEF EndpointMoves
<1> QED
  BY <1>1, <1>2, <1>3, QuietRunner, RunnerCrash DEF RunnerNext, runnerVars

\* The invariant holds for every manifest, every order of the arms and any number
\* of crashes and restarts over one directory.
THEOREM RunnerInductive == RunnerSpec => []RunnerInv
  BY RunnerStart, RunnerStep, PTL DEF RunnerSpec

\* A COMPLETE marker vouches for every file of its directory: all there, all whole,
\* all by the invocation that wrote the marker (RealPilotRunner, canary _persist and
\* the dry run write the marker after what it stands for).
THEOREM MarkersAreHonest == RunnerSpec => []MarkerIsHonest
<1>1. RunnerInv => MarkerIsHonest
  BY DEF RunnerInv
<1> QED
  BY <1>1, RunnerInductive, PTL

-----------------------------------------------------------------------------
(***************************************************************************)
(* WorkspaceSessions.  While the copy is made, what was copied is no newer *)
(* than the project; once it is complete the project's tree of that moment *)
(* is a witness between the copy and everything that is hashed later.  A   *)
(* version never comes back, so a copy that equals the hashes equals the   *)
(* witness.                                                                *)
(***************************************************************************)

WsPlaces == {"away", "copy", "hash", "publish", "reopen", "bind", "open", "cli"}
Sessions ==
  [ published : {TRUE}, work : Trees, baseline : Trees, sourceHash : Trees, baselineHash : Trees ]

WsTyped ==
  /\ source \in Trees /\ past \subseteq Trees /\ versions \in 0..MaxVersions /\ faults \in Nat
  /\ bound \in {"none", "CREATING", "OPEN", "COMPLETED"} /\ cmd \in {"none", "alive"}
  /\ session = NoSession \/ session \in Sessions
  /\ ws = [pc |-> ws.pc, todo |-> ws.todo, copy |-> ws.copy, digest |-> ws.digest,
           base |-> ws.base, seen |-> ws.seen]
  /\ ws.pc \in WsPlaces /\ ws.todo \subseteq Files
  /\ ws.pc \in {"bind", "open", "cli"} => session \in Sessions /\ ws.base \in Trees
  /\ cmd = "alive" => session \in Sessions

Witnessed(m) ==
  /\ \A f \in Files : ws.copy[f] <= m[f] /\ m[f] <= source[f]
  /\ \A f \in Files \ ws.todo : m[f] <= ws.digest[f]

CopyIsOld ==
  /\ source \in past /\ \A f \in Files : source[f] <= versions
  /\ ws.pc = "copy" =>
       \A f \in Files \ ws.todo : ws.copy[f] \in 0..MaxVersions /\ ws.copy[f] <= source[f]
  /\ ws.pc \in {"hash", "publish"} => ws.copy \in Trees /\ \E m \in past : Witnessed(m)
  /\ ws.pc = "hash" => \A f \in Files \ ws.todo : ws.digest[f] \in 0..MaxVersions
  /\ ws.pc = "publish" => ws.todo = {} /\ ws.digest \in Trees

WsInv == WsTyped /\ CopyIsOld /\ BaselineIsASnapshot

\* A published session is a whole one.
LEMMA SessionIs ==
  ASSUME WsTyped, session.published
  PROVE  session \in Sessions
  BY DEF WsTyped, NoSession

\* A project at its first version and no session.
LEMMA WsStart == WsInit => WsInv
<1> SUFFICES ASSUME WsInit PROVE WsInv
  OBVIOUS
<1>1. source \in Trees /\ past = {source} /\ versions = 0 /\ 0 \in 0..MaxVersions
      /\ \A f \in Files : source[f] = 0
  BY SessionConstants DEF WsInit, Trees
<1>2. ws = Away /\ session = NoSession /\ bound = "none" /\ cmd = "none" /\ faults = 0
  BY DEF WsInit
<1>3. WsTyped
  BY <1>1, <1>2 DEF WsTyped, Away, WsPlaces
<1>4. CopyIsOld
  BY <1>1, <1>2 DEF CopyIsOld, Away
<1> QED
  BY <1>2, <1>3, <1>4 DEF WsInv, BaselineIsASnapshot, NoSession

\* The process lets go of whatever it held.
LEMMA AwayStep ==
  ASSUME WsInv, ws' = Away \/ ws' = [Away EXCEPT !.pc = "copy"] \/ ws' = [Away EXCEPT !.pc = "reopen"],
         UNCHANGED << source, past, session, cmd, versions >>, faults' \in Nat,
         bound' \in {"none", "CREATING", "OPEN", "COMPLETED"}
  PROVE  WsInv'
<1>1. WsTyped'
  BY DEF WsInv, WsTyped, Away, WsPlaces
<1>2. CopyIsOld'
  BY DEF WsInv, CopyIsOld, Away
<1> QED
  BY <1>1, <1>2 DEF WsInv, BaselineIsASnapshot

\* A change of the project is newer than everything before it.
LEMMA SourceStep ==
  ASSUME WsInv, NEW f \in Files, SourceChanges(f)
  PROVE  WsInv'
<1>1. /\ source' = [source EXCEPT ![f] = versions + 1] /\ past' = past \cup {source'}
      /\ versions' = versions + 1 /\ versions < MaxVersions
      /\ UNCHANGED << bound, session, ws, cmd, faults >>
  BY DEF SourceChanges, Fresh, CanWrite
<1>2. source \in Trees /\ versions \in 0..MaxVersions /\ MaxVersions \in Nat
  BY SessionConstants DEF WsInv, WsTyped
<1>3. versions' \in 0..MaxVersions
  BY <1>1, <1>2
<1>4. source' \in Trees
  BY <1>1, <1>2, <1>3 DEF Trees
<1>5. \A g \in Files : source[g] \in Nat /\ source'[g] \in Nat /\ source[g] <= source'[g]
                       /\ source'[g] <= versions'
  <2>1. \A g \in Files : source[g] \in 0..MaxVersions /\ source[g] <= versions
    BY <1>2 DEF Trees, WsInv, CopyIsOld
  <2> QED
    BY <1>1, <1>2, <2>1 DEF Trees
<1>6. WsTyped'
  BY <1>1, <1>3, <1>4 DEF WsInv, WsTyped
<1>7. CopyIsOld'
  <2>1. ASSUME NEW m \in past, Witnessed(m), ws.copy \in Trees PROVE Witnessed(m)'
    <3>1. \A g \in Files : m[g] \in Nat /\ m[g] <= source[g]
      BY <2>1 DEF Witnessed, WsInv, WsTyped, Trees
    <3>2. \A g \in Files : m[g] <= source'[g]
      BY <1>5, <3>1
    <3> QED
      BY <1>1, <2>1, <3>2 DEF Witnessed
  <2>2. ws.pc = "copy" => \A g \in Files \ ws.todo : ws.copy[g] <= source'[g]
    BY <1>5 DEF WsInv, CopyIsOld
  <2> QED
    BY <1>1, <1>5, <2>1, <2>2 DEF WsInv, CopyIsOld
<1>8. BaselineIsASnapshot'
  BY <1>1 DEF WsInv, BaselineIsASnapshot
<1> QED
  BY <1>6, <1>7, <1>8 DEF WsInv

\* A step that leaves the project and its history alone.
LEMMA QuietSession ==
  ASSUME WsInv, UNCHANGED << source, past, bound, cmd, versions, faults >>,
         WsTyped', CopyIsOld', session' = session
  PROVE  WsInv'
  BY DEF WsInv, BaselineIsASnapshot

\* What is copied is the project's file of now; the last copy fixes the witness.
LEMMA CopyStep ==
  ASSUME WsInv, NEW f \in Files, CopyFile(f)
  PROVE  WsInv'
<1> DEFINE copied == [g \in (Files \ ws.todo) \cup {f} |-> IF g = f THEN source[f] ELSE ws.copy[g]]
           left == ws.todo \ {f}
<1>1. /\ ws.pc = "copy" /\ f \in ws.todo /\ ws.todo \subseteq Files
      /\ ws' = IF left # {} THEN [ws EXCEPT !.copy = copied, !.todo = left]
               ELSE [ws EXCEPT !.copy = copied, !.todo = Files, !.pc = "hash"]
      /\ UNCHANGED << source, past, bound, session, cmd, versions, faults >>
  BY DEF CopyFile, WsInv, WsTyped
<1>2. Files \ left = (Files \ ws.todo) \cup {f}
  BY <1>1
<1>3. /\ \A g \in Files : source[g] \in 0..MaxVersions
      /\ \A g \in Files \ ws.todo : ws.copy[g] \in 0..MaxVersions /\ ws.copy[g] <= source[g]
      /\ source \in Trees /\ source \in past
  BY <1>1 DEF WsInv, WsTyped, CopyIsOld, Trees
<1>4. \A g \in Files \ left : copied[g] \in 0..MaxVersions /\ copied[g] <= source[g]
  BY <1>2, <1>3
<1>5. CASE left # {}
  <2>1. ws' = [ws EXCEPT !.copy = copied, !.todo = left]
    BY <1>1, <1>5
  <2>2. ws' = [pc |-> "copy", todo |-> left, copy |-> copied, digest |-> ws.digest,
               base |-> ws.base, seen |-> ws.seen]
    <3> HIDE DEF copied, left
    <3> QED
      BY <1>1, <2>1 DEF WsInv, WsTyped
  <2>3. ws'.pc = "copy" /\ ws'.todo = left /\ ws'.copy = copied
    BY <2>2
  <2>4. WsTyped'
    <3> HIDE DEF copied
    <3> QED
      BY <1>1, <2>2 DEF WsInv, WsTyped, WsPlaces
  <2>5. CopyIsOld'
    <3> HIDE DEF copied, left
    <3> QED
      BY <1>1, <1>4, <2>3 DEF WsInv, CopyIsOld
  <2> QED
    BY <1>1, <2>4, <2>5, QuietSession
<1>6. CASE left = {}
  <2>1. ws' = [ws EXCEPT !.copy = copied, !.todo = Files, !.pc = "hash"]
    BY <1>1, <1>6
  <2>2. ws' = [pc |-> "hash", todo |-> Files, copy |-> copied, digest |-> ws.digest,
               base |-> ws.base, seen |-> ws.seen]
    <3> HIDE DEF copied, left
    <3> QED
      BY <1>1, <2>1 DEF WsInv, WsTyped
  <2>3. ws'.pc = "hash" /\ ws'.todo = Files /\ ws'.copy = copied
    BY <2>2
  <2>4. WsTyped'
    <3> HIDE DEF copied
    <3> QED
      BY <1>1, <2>2 DEF WsInv, WsTyped, WsPlaces
  <2>5. Files \ left = Files
    BY <1>6
  <2>6. copied \in Trees
    <3>1. copied = [g \in Files |-> copied[g]]
      BY <1>2, <2>5
    <3> HIDE DEF copied
    <3> QED
      BY <1>4, <2>5, <3>1 DEF Trees
  <2>7. \A g \in Files : copied[g] <= source[g] /\ source[g] <= source[g]
    <3> HIDE DEF copied
    <3> QED
      BY <1>3, <1>4, <2>5
  <2>8. CopyIsOld'
    <3>1. Witnessed(source)'
      <4> HIDE DEF copied
      <4> QED
        BY <1>1, <2>3, <2>7 DEF Witnessed
    <3> HIDE DEF copied
    <3> QED
      BY <1>1, <1>3, <2>3, <2>6, <3>1 DEF WsInv, CopyIsOld
  <2> QED
    BY <1>1, <2>4, <2>8, QuietSession
<1> QED
  BY <1>5, <1>6

\* What is hashed is the project's file of now, so not older than the witness.
LEMMA HashStep ==
  ASSUME WsInv, NEW f \in Files, HashFile(f)
  PROVE  WsInv'
<1> DEFINE read == [g \in (Files \ ws.todo) \cup {f} |-> IF g = f THEN source[f] ELSE ws.digest[g]]
           left == ws.todo \ {f}
           place == IF left = {} THEN "publish" ELSE "hash"
<1>1. /\ ws.pc = "hash" /\ f \in ws.todo /\ ws.todo \subseteq Files
      /\ ws' = [ws EXCEPT !.digest = read, !.todo = left, !.pc = place]
      /\ UNCHANGED << source, past, bound, session, cmd, versions, faults >>
  BY DEF HashFile, WsInv, WsTyped
<1>2. Files \ left = (Files \ ws.todo) \cup {f}
  BY <1>1
<1>3. PICK m \in past : Witnessed(m)
  BY <1>1 DEF WsInv, CopyIsOld
<1>4. /\ source[f] \in 0..MaxVersions /\ m[f] <= source[f] /\ ws.copy \in Trees
      /\ \A g \in Files \ ws.todo : ws.digest[g] \in 0..MaxVersions /\ m[g] <= ws.digest[g]
  BY <1>1, <1>3 DEF WsInv, WsTyped, CopyIsOld, Trees, Witnessed
<1>5. \A g \in Files \ left : read[g] \in 0..MaxVersions /\ m[g] <= read[g]
  BY <1>2, <1>4
<1>6. ws' = [pc |-> place, todo |-> left, copy |-> ws.copy, digest |-> read,
             base |-> ws.base, seen |-> ws.seen]
  <2> HIDE DEF read, left, place
  <2> QED
    BY <1>1 DEF WsInv, WsTyped
<1>7. ws'.pc = place /\ ws'.todo = left /\ ws'.copy = ws.copy /\ ws'.digest = read
  <2> HIDE DEF read, left, place
  <2> QED
    BY <1>6
<1>8. place \in {"hash", "publish"} /\ (place = "publish" => left = {})
  BY DEF WsPlaces
<1>9. left = {} => read \in Trees
  <2>1. ASSUME left = {} PROVE read = [g \in Files |-> read[g]] /\ Files \ left = Files
    BY <1>2, <2>1
  <2> HIDE DEF read
  <2> QED
    BY <1>5, <2>1 DEF Trees
<1>10. WsTyped'
  <2> HIDE DEF read, place
  <2> QED
    BY <1>1, <1>6, <1>8 DEF WsInv, WsTyped, WsPlaces
<1>11. Witnessed(m)'
  <2> HIDE DEF read, left, place
  <2> QED
    BY <1>1, <1>3, <1>5, <1>7 DEF Witnessed
<1>12. CopyIsOld'
  <2> HIDE DEF read, left, place
  <2> QED
    BY <1>1, <1>4, <1>5, <1>7, <1>8, <1>9, <1>11 DEF WsInv, CopyIsOld
<1> QED
  BY <1>1, <1>10, <1>12, QuietSession

\* A copy that equals the hashes equals the witness between them.
LEMMA PublishStep ==
  ASSUME WsInv, Publish
  PROVE  WsInv'
<1>1. ws.pc = "publish" /\ UNCHANGED << source, past, bound, cmd, versions, faults >>
  BY DEF Publish
<1>2. CASE CopyStands /\ ~session.published
  <2>1. /\ session' = [published |-> TRUE, work |-> ws.copy, baseline |-> ws.copy,
                       sourceHash |-> ws.digest, baselineHash |-> ws.copy]
        /\ ws' = [Away EXCEPT !.pc = "reopen"] /\ ws.digest = ws.copy
    BY <1>2 DEF Publish, CopyStands
  <2>2. PICK m \in past : Witnessed(m)
    BY <1>1 DEF WsInv, CopyIsOld
  <2>3. ws.copy \in Trees /\ m \in Trees /\ ws.todo = {}
    BY <1>1 DEF WsInv, WsTyped, CopyIsOld
  <2>4. \A f \in Files : ws.copy[f] <= m[f] /\ m[f] <= ws.copy[f]
    BY <2>1, <2>2, <2>3 DEF Witnessed
  <2>5. \A f \in Files : ws.copy[f] = m[f]
    BY <2>3, <2>4 DEF Trees
  <2>6. ws.copy = m
    BY <2>3, <2>5 DEF Trees
  <2>7. session' \in Sessions /\ session'.baselineHash \in past'
    BY <1>1, <2>1, <2>3, <2>6 DEF Sessions
  <2>8. WsTyped'
    BY <1>1, <2>1, <2>7 DEF WsInv, WsTyped, Away, WsPlaces
  <2>9. CopyIsOld'
    BY <1>1, <2>1 DEF WsInv, CopyIsOld, Away
  <2> QED
    BY <2>7, <2>8, <2>9 DEF WsInv, BaselineIsASnapshot
<1>3. CASE ~(CopyStands /\ ~session.published)
  BY <1>1, <1>3, AwayStep DEF Publish, Raise, WsInv, WsTyped
<1> QED
  BY <1>2, <1>3

\* The session directory changes in its work tree or its damaged baseline, never in
\* the hash it was published with.
LEMMA WriteStep ==
  ASSUME WsInv, UNCHANGED << source, past, bound, cmd >>, session \in Sessions,
         session' \in Sessions, session'.baselineHash = session.baselineHash,
         versions' \in 0..MaxVersions, versions <= versions', faults' \in Nat,
         ws' = ws \/ \E f, v : ws' = [ws EXCEPT !.seen[f] = v], ws.pc \notin {"hash", "publish"} \/ ws' = ws
  PROVE  WsInv'
<1>1. /\ ws' = [pc |-> ws.pc, todo |-> ws.todo, copy |-> ws.copy, digest |-> ws.digest,
                base |-> ws.base, seen |-> ws'.seen]
  BY DEF WsInv, WsTyped
<1>2. ws'.pc = ws.pc /\ ws'.todo = ws.todo /\ ws'.copy = ws.copy /\ ws'.digest = ws.digest
      /\ ws'.base = ws.base
  BY <1>1
<1>3. WsTyped'
  BY <1>1, <1>2 DEF WsInv, WsTyped
<1>4. CopyIsOld'
  <2>1. \A f \in Files : source[f] <= versions'
    BY DEF WsInv, WsTyped, CopyIsOld, Trees
  <2>2. \A m : Witnessed(m) => Witnessed(m)'
    BY <1>2 DEF Witnessed
  <2> QED
    BY <1>2, <2>1, <2>2 DEF WsInv, CopyIsOld
<1> QED
  BY <1>3, <1>4 DEF WsInv, BaselineIsASnapshot, Sessions

\* A file written in the work tree is one of its versions.
LEMMA WrittenIs ==
  ASSUME session \in Sessions, NEW f \in Files, NEW v \in 0..MaxVersions
  PROVE  /\ [session EXCEPT !.work[f] = v] \in Sessions
         /\ [session EXCEPT !.work[f] = v].baselineHash = session.baselineHash
         /\ [session EXCEPT !.baseline[f] = v] \in Sessions
         /\ [session EXCEPT !.baseline[f] = v].baselineHash = session.baselineHash
<1>1. /\ [session.work EXCEPT ![f] = v] \in Trees /\ [session.baseline EXCEPT ![f] = v] \in Trees
  BY DEF Sessions, Trees
<1>2. /\ [session EXCEPT !.work[f] = v] = [session EXCEPT !.work = [session.work EXCEPT ![f] = v]]
      /\ [session EXCEPT !.baseline[f] = v] = [session EXCEPT !.baseline = [session.baseline EXCEPT ![f] = v]]
  BY DEF Sessions
<1> QED
  BY <1>1, <1>2 DEF Sessions

\* The tools of the agent, the command line and whatever damages the baseline.
LEMMA SessionToolStep ==
  ASSUME WsInv, NEW f \in Files,
         \/ read_file(f) \/ edit_file(f) \/ edit_lines(f) \/ restore_file(f)
         \/ CommandWrites(f) \/ BaselineDamaged(f)
  PROVE  WsInv'
<1>1. /\ versions \in 0..MaxVersions /\ MaxVersions \in Nat /\ faults \in Nat
      /\ (versions < MaxVersions => versions + 1 \in 0..MaxVersions)
  BY SessionConstants DEF WsInv, WsTyped
<1>2. /\ Open => session \in Sessions /\ ws.base \in Trees
      /\ cmd = "alive" => session \in Sessions
      /\ session.published => session \in Sessions
  BY DEF Open, WsInv, WsTyped, NoSession
<1>3. CASE read_file(f)
  <2>1. ws' = [ws EXCEPT !.seen[f] = session.work[f]]
    BY <1>3 DEF read_file
  <2> QED
    <3>1. \E g, v : ws' = [ws EXCEPT !.seen[g] = v]
      BY <2>1
    <3>2. ws.pc = "open" /\ UNCHANGED << source, past, bound, session, cmd, versions, faults >>
      BY <1>3 DEF read_file, Open
    <3> QED
      <4>1. session \in Sessions /\ versions <= versions
        BY <1>1, <1>2, <3>2 DEF Open
      <4>2. ws.pc \notin {"hash", "publish"}
        BY <3>2
      <4>3. versions' \in 0..MaxVersions /\ versions <= versions' /\ faults' \in Nat
            /\ session' \in Sessions /\ session'.baselineHash = session.baselineHash
        BY <1>1, <3>2, <4>1
      <4> QED
        BY <3>1, <3>2, <4>1, <4>2, <4>3, WriteStep
<1>4. CASE edit_file(f) \/ edit_lines(f)
  <2>1. edit_file(f)
    BY <1>4 DEF edit_lines
  <2>2. /\ ws' = [ws EXCEPT !.seen[f] = versions + 1] /\ Open /\ versions < MaxVersions
        /\ session' = [session EXCEPT !.work[f] = versions + 1] /\ versions' = versions + 1
        /\ UNCHANGED << source, past, bound, cmd, faults >>
    BY <2>1 DEF edit_file, Written, Fresh, CanWrite
  <2>3. session' \in Sessions /\ session'.baselineHash = session.baselineHash
    BY <1>1, <1>2, <2>2, WrittenIs
  <2> QED
    <3>1. \E g, v : ws' = [ws EXCEPT !.seen[g] = v]
      BY <2>2
    <3>2. session \in Sessions /\ ws.pc = "open"
      BY <1>2, <2>2 DEF Open
    <3>3. versions' \in 0..MaxVersions /\ versions <= versions' /\ faults' \in Nat
      BY <1>1, <2>2
    <3> QED
      BY <2>2, <2>3, <3>1, <3>2, <3>3, WriteStep
<1>5. CASE restore_file(f)
  <2>1. /\ Open /\ session' = [session EXCEPT !.work[f] = ws.base[f]] /\ ws' = ws
        /\ UNCHANGED << source, past, bound, cmd, versions, faults >>
    BY <1>5 DEF restore_file, Written
  <2>2. ws.base[f] \in 0..MaxVersions
    BY <1>2, <2>1 DEF Trees
  <2>3. session' \in Sessions /\ session'.baselineHash = session.baselineHash
    BY <1>2, <2>1, <2>2, WrittenIs
  <2> QED
    BY <1>1, <1>2, <2>1, <2>3, WriteStep
<1>6. CASE CommandWrites(f)
  <2>1. /\ cmd = "alive" /\ versions < MaxVersions /\ ws' = ws
        /\ session' = [session EXCEPT !.work[f] = versions + 1] /\ versions' = versions + 1
        /\ UNCHANGED << source, past, bound, cmd, faults >>
    BY <1>6 DEF CommandWrites, Written, Fresh, CanWrite
  <2>2. session' \in Sessions /\ session'.baselineHash = session.baselineHash
    BY <1>1, <1>2, <2>1, WrittenIs
  <2> QED
    BY <1>1, <1>2, <2>1, <2>2, WriteStep
<1>7. CASE BaselineDamaged(f)
  <2>1. /\ session.published /\ versions < MaxVersions /\ ws' = ws
        /\ session' = [session EXCEPT !.baseline[f] = versions + 1] /\ versions' = versions + 1
        /\ faults' = faults + 1 /\ UNCHANGED << source, past, bound, cmd >>
    BY <1>7 DEF BaselineDamaged, Fresh, CanWrite
  <2>2. session' \in Sessions /\ session'.baselineHash = session.baselineHash
    BY <1>1, <1>2, <2>1, WrittenIs
  <2> QED
    BY <1>1, <1>2, <2>1, <2>2, WriteStep
<1> QED
  BY <1>3, <1>4, <1>5, <1>6, <1>7

\* Opening a published session and running commands in it.
LEMMA OpenStep ==
  ASSUME WsInv, Reopen \/ MarkOpen \/ StartCommand \/ CommandEnds \/ OrphanEnds
  PROVE  WsInv'
<1>1. UNCHANGED << source, past, session, versions, faults >>
  BY DEF Reopen, MarkOpen, StartCommand, CommandEnds, OrphanEnds
<1>2. CASE Reopen /\ ~ReopenAllowed
  BY <1>1, <1>2, AwayStep DEF Reopen, WsInv, WsTyped
<1>3. ASSUME /\ ws' = [pc |-> ws'.pc, todo |-> ws'.todo, copy |-> ws'.copy, digest |-> ws'.digest,
                       base |-> ws'.base, seen |-> ws'.seen]
             /\ ws'.pc \in {"bind", "open", "cli"} /\ ws'.todo \subseteq Files
             /\ ws'.base \in Trees /\ session \in Sessions,
             bound' \in {"none", "CREATING", "OPEN", "COMPLETED"}, cmd' \in {"none", "alive"}
      PROVE  WsInv'
  <2>1. WsTyped'
    BY <1>1, <1>3 DEF WsInv, WsTyped, WsPlaces
  <2>2. CopyIsOld'
    BY <1>1, <1>3 DEF WsInv, CopyIsOld
  <2> QED
    BY <1>1, <2>1, <2>2 DEF WsInv, BaselineIsASnapshot
<1>4. CASE Reopen /\ ReopenAllowed
  <2>0. session.published
    BY <1>4 DEF ReopenAllowed
  <2>1. session \in Sessions /\ session.baseline \in Trees
    BY <2>0, SessionIs DEF WsInv, Sessions
  <2>2. ws' = [Away EXCEPT !.pc = "bind", !.base = session.baseline, !.seen = session.baseline]
        /\ UNCHANGED << bound, cmd >>
    BY <1>4 DEF Reopen, OpenedBaseline
  <2>3. ws' = [pc |-> "bind", todo |-> Files, copy |-> << >>, digest |-> << >>,
               base |-> session.baseline, seen |-> session.baseline]
    BY <2>2 DEF Away
  <2> QED
    <3>1. /\ ws'.pc = "bind" /\ ws'.todo = Files /\ ws'.copy = << >> /\ ws'.digest = << >>
          /\ ws'.base = session.baseline /\ ws'.seen = session.baseline
      BY <2>3
    <3>2. bound' \in {"none", "CREATING", "OPEN", "COMPLETED"} /\ cmd' \in {"none", "alive"}
      BY <2>2 DEF WsInv, WsTyped
    <3> QED
      BY <1>3, <2>1, <2>3, <3>1, <3>2
<1>5. ASSUME NEW pc \in {"open", "cli"}, ws' = [ws EXCEPT !.pc = pc],
             ws.pc \in {"bind", "open", "cli"},
             bound' \in {"none", "CREATING", "OPEN", "COMPLETED"}, cmd' \in {"none", "alive"}
      PROVE  WsInv'
  <2>1. ws' = [pc |-> pc, todo |-> ws.todo, copy |-> ws.copy, digest |-> ws.digest,
               base |-> ws.base, seen |-> ws.seen]
    BY <1>5 DEF WsInv, WsTyped
  <2> QED
    BY <1>3, <1>5, <2>1 DEF WsInv, WsTyped
<1>6. CASE MarkOpen
  BY <1>5, <1>6 DEF MarkOpen, BindOpen, WsInv, WsTyped
<1>7. CASE StartCommand
  BY <1>5, <1>7 DEF StartCommand, Open, WsInv, WsTyped
<1>8. CASE CommandEnds
  BY <1>5, <1>8 DEF CommandEnds, AfterTimeout, WsInv, WsTyped
<1>9. CASE OrphanEnds
  <2>1. ws' = ws /\ bound' = bound /\ cmd' = "none"
    BY <1>9 DEF OrphanEnds
  <2> QED
    BY <1>1, <2>1 DEF WsInv, WsTyped, CopyIsOld, Witnessed, BaselineIsASnapshot
<1> QED
  BY <1>2, <1>4, <1>6, <1>7, <1>8, <1>9

\* Every step of the manager, the project and the tools keeps the invariant.
LEMMA WsStep == WsInv /\ [WsNext]_wsVars => WsInv'
<1> SUFFICES ASSUME WsInv, [WsNext]_wsVars PROVE WsInv'
  OBVIOUS
<1>1. CASE ensure_for_run
  BY <1>1, AwayStep DEF ensure_for_run, WsInv, WsTyped
<1>2. CASE CreateFails
  BY <1>2, AwayStep DEF CreateFails, Raise, WsInv, WsTyped
<1>3. CASE mark_completed
  BY <1>3, AwayStep DEF mark_completed, Raise, WsInv, WsTyped
<1>4. CASE WsCrash
  BY <1>4, AwayStep DEF WsCrash, WsInv, WsTyped
<1>5. CASE UNCHANGED wsVars
  BY <1>5 DEF wsVars, WsInv, WsTyped, CopyIsOld, Witnessed, BaselineIsASnapshot
<1> QED
  BY <1>1, <1>2, <1>3, <1>4, <1>5, SourceStep, CopyStep, HashStep, PublishStep, OpenStep, SessionToolStep
     DEF WsNext

\* The invariant holds for any project, any number of versions and of crashes.
THEOREM SessionInductive == WsSpec => []WsInv
  BY WsStart, WsStep, PTL DEF WsSpec

\* The trees, the binding row and the session directory keep their shapes.
THEOREM SessionTypeCorrect == WsSpec => []WsTypeOK
<1>1. WsInv => WsTypeOK
  <2> SUFFICES ASSUME WsInv PROVE WsTypeOK
    OBVIOUS
  <2>1. session.published => session.work \in Trees /\ session.baseline \in Trees
    BY SessionIs DEF WsInv, Sessions
  <2> QED
    BY <2>1 DEF WsInv, WsTyped, WsTypeOK, WsPlaces
<1> QED
  BY <1>1, SessionInductive, PTL

\* A published baseline is a tree the project had at one moment, although
\* ensure_for_run copies and hashes it file by file while others edit it.
THEOREM PublishedIsASnapshot == WsSpec => []BaselineIsASnapshot
<1>1. WsInv => BaselineIsASnapshot
  BY DEF WsInv
<1> QED
  BY <1>1, SessionInductive, PTL

-----------------------------------------------------------------------------
(***************************************************************************)
(* McpManager.  A request that reads holds the lock of its connection and  *)
(* is alone with it, so a message the read loop throws away is one that    *)
(* nobody else can be waiting for.                                         *)
(***************************************************************************)

Messages == [id : Nat, kind : {"ok", "error", "long", "note", "junk"}]
Results ==
  {"none", "ok", "error", "note", "refused", "unreadable", "closed", "timeout", "cancelled"}
Connections ==
  [ proc : {"none", "up", "dying", "dead"}, lock : SUBSET Tasks, nextId : Nat,
    asked : SUBSET Nat, pipe : Seq(Messages) ]
Requesting ==
  [ pc : {"idle", "waiting", "reading"}, gen : 0..MaxGen, id : Nat, result : Results, got : Nat ]

McpTyped ==
  /\ conn \in 0..MaxGen /\ tools \in BOOLEAN
  /\ gens \in [Gens -> Connections]
  /\ task \in [Tasks -> Requesting]
  /\ owner \in {"off", "initialize", "notify", "discover", "on", "failed", "closing"}

OneReader ==
  \A t \in Tasks :
    /\ task[t].pc # "idle" => task[t].gen \in Gens
    /\ task[t].pc = "reading" => gens[task[t].gen].lock = {t}

OwnerConnected == owner = "notify" => task[Owner].gen \in Gens

McpInv == McpTyped /\ OneReader /\ OwnerConnected

\* What the read loop of one request throws away is not another one's answer.
NoneDiscarded ==
  \A g \in Gens :
    LET m == Head(gens[g].pipe) IN
    gens[g].pipe # << >> /\ gens'[g].pipe = Tail(gens[g].pipe) =>
      \A t \in Tasks :
        task[t].pc = "reading" /\ task[t].gen = g /\ task[t].id = m.id
          => task'[t] # task[t]

\* A pipe that keeps its length or grows had nothing thrown away.
LEMMA TailIsShorter ==
  ASSUME NEW S, NEW s \in Seq(S), s # << >>
  PROVE  /\ Len(Tail(s)) = Len(s) - 1 /\ Len(s) \in Nat
         /\ Head(s) \in S /\ Tail(s) \in Seq(S)
  OBVIOUS

\* So does one with a message added.
LEMMA AppendIsLonger ==
  ASSUME NEW S, NEW s \in Seq(S), NEW x \in S
  PROVE  Append(s, x) \in Seq(S) /\ Len(Append(s, x)) = Len(s) + 1
  OBVIOUS

\* Nothing is connected at the start.
LEMMA McpStart == McpInit => McpInv
<1> SUFFICES ASSUME McpInit PROVE McpInv
  OBVIOUS
<1>1. Unused \in Connections
  BY DEF Unused, Connections
<1>2. Rest \in Requesting
  BY McpAssumption DEF Rest, Requesting, Results
<1> QED
  <2>1. McpTyped
    <3>1. gens \in [Gens -> Connections] /\ task \in [Tasks -> Requesting]
      BY <1>1, <1>2 DEF McpInit
    <3>2. conn \in 0..MaxGen
      BY McpAssumption DEF McpInit
    <3> QED
      BY <3>1, <3>2 DEF McpInit, McpTyped
  <2>2. OneReader /\ OwnerConnected
    BY DEF McpInit, OneReader, OwnerConnected, Rest
  <2> QED
    BY <2>1, <2>2 DEF McpInv

\* Steps that take nothing out of a pipe discard nothing.
LEMMA PipesGrow ==
  ASSUME McpTyped,
         \A g \in Gens : gens'[g].pipe = gens[g].pipe \/ \E x \in Messages : gens'[g].pipe = Append(gens[g].pipe, x)
  PROVE  NoneDiscarded
<1>1. \A g \in Gens : gens[g].pipe \in Seq(Messages)
  BY DEF McpTyped, Connections
<1>2. \A g \in Gens : gens[g].pipe # << >> => gens'[g].pipe # Tail(gens[g].pipe)
  <2> SUFFICES ASSUME NEW g \in Gens, gens[g].pipe # << >>
               PROVE  gens'[g].pipe # Tail(gens[g].pipe)
    OBVIOUS
  <2>1. Len(Tail(gens[g].pipe)) = Len(gens[g].pipe) - 1 /\ Len(gens[g].pipe) \in Nat
    BY <1>1, TailIsShorter
  <2>2. Len(gens'[g].pipe) \in {Len(gens[g].pipe), Len(gens[g].pipe) + 1}
    BY <1>1, AppendIsLonger
  <2>3. Len(gens'[g].pipe) # Len(Tail(gens[g].pipe))
    BY <2>1, <2>2
  <2> QED
    BY <2>3, Zenon
<1> QED
  BY <1>2 DEF NoneDiscarded

\* Begin and Ended are requests.
LEMMA RequestTypes ==
  ASSUME McpTyped, NEW t \in Tasks
  PROVE  /\ task[t] \in Requesting
         /\ \A g \in 0..MaxGen : Begin(t, g) \in Requesting
         /\ \A r \in Results, n \in Nat :
              Ended(t, r, n) \in Requesting /\ Ended(t, r, n).pc = "idle"
  BY DEF McpTyped, Begin, Ended, Requesting, Results

\* A request that ends: everyone else reads on as before.
LEMMA ManagerEndStep ==
  ASSUME McpInv, NEW t \in Tasks, NEW result \in Results, NEW got \in Nat,
         task[t].pc # "idle",
         EndRequest(t, result, got), conn' = conn,
         gens' \in [Gens -> Connections],
         \A g \in Gens : \/ gens'[g].lock = gens[g].lock
                         \/ g = task[t].gen /\ gens'[g].lock = gens[g].lock \ {t}
  PROVE  McpInv' /\ task'[t] # task[t] /\ \A u \in Tasks \ {t} : task'[u] = task[u]
<1>1. /\ task' = [task EXCEPT ![t] = Ended(t, result, got)]
      /\ owner' = OwnerAfter(t, result)
      /\ tools' = (tools \/ (t = Owner /\ result = "ok" /\ owner = "discover"))
  BY DEF EndRequest
<1>2. Ended(t, result, got) \in Requesting /\ Ended(t, result, got).pc = "idle"
      /\ task \in [Tasks -> Requesting] /\ task[t] \in Requesting
  BY RequestTypes DEF McpInv, McpTyped
<1>g. Ended(t, result, got).gen = task[t].gen
  BY <1>2 DEF Ended, Requesting
<1>3. /\ task' \in [Tasks -> Requesting] /\ task'[t].pc = "idle" /\ task'[t].gen = task[t].gen
      /\ \A u \in Tasks \ {t} : task'[u] = task[u]
  BY <1>1, <1>2, <1>g
<1>4. owner' \in {"off", "initialize", "notify", "discover", "on", "failed", "closing"}
      /\ (owner' = "notify" => owner = "notify" \/ t = Owner)
  BY <1>1 DEF OwnerAfter, McpInv, McpTyped
<1>5. tools' \in BOOLEAN
  BY <1>1 DEF McpInv, McpTyped
<1>6. McpTyped'
  BY <1>3, <1>4, <1>5 DEF McpInv, McpTyped
<1>7. OneReader'
  <2> SUFFICES ASSUME NEW u \in Tasks
               PROVE  /\ task'[u].pc # "idle" => task'[u].gen \in Gens
                      /\ task'[u].pc = "reading" => gens'[task'[u].gen].lock = {u}
    BY DEF OneReader
  <2>1. CASE u = t
    BY <1>3, <2>1
  <2>2. CASE u # t
    <3>1. task'[u] = task[u]
      BY <1>3, <2>2
    <3>2. ASSUME task[u].pc = "reading" PROVE gens'[task[u].gen].lock = {u}
      <4>1. gens[task[u].gen].lock = {u} /\ task[u].gen \in Gens
        BY <3>2 DEF McpInv, OneReader
      <4>2. {u} \ {t} = {u}
        BY <2>2
      <4> QED
        BY <4>1, <4>2
    <3> QED
      BY <3>1, <3>2 DEF McpInv, OneReader
  <2> QED
    BY <2>1, <2>2
<1>8. OwnerConnected'
  BY <1>3, <1>4 DEF McpInv, OneReader, OwnerConnected, Tasks
<1> QED
  BY <1>3, <1>6, <1>7, <1>8 DEF McpInv

\* A step that ends a request and takes nothing out of a pipe.
LEMMA EndQuietly ==
  ASSUME McpInv, NEW t \in Tasks, NEW result \in Results,
         task[t].pc # "idle", EndRequest(t, result, 0), conn' = conn,
         gens' \in [Gens -> Connections],
         \A g \in Gens :
           /\ gens'[g].pipe = gens[g].pipe
           /\ \/ gens'[g].lock = gens[g].lock
              \/ g = task[t].gen /\ gens'[g].lock = gens[g].lock \ {t}
  PROVE  McpInv' /\ NoneDiscarded
<1>1. McpInv'
  BY ManagerEndStep
<1> QED
  BY <1>1, PipesGrow DEF McpInv

\* A step that leaves the requests alone, or starts one on a known connection.
LEMMA ServeStep ==
  ASSUME McpInv, task' = task, conn' \in 0..MaxGen, tools' \in BOOLEAN,
         owner' \in {"off", "initialize", "notify", "discover", "on", "failed", "closing"},
         owner' = "notify" => owner = "notify",
         gens' \in [Gens -> Connections], \A g \in Gens : gens'[g].lock = gens[g].lock
  PROVE  McpInv'
  BY DEF McpInv, McpTyped, OneReader, OwnerConnected

\* A request starts: it holds no lock yet.
LEMMA ManagerBeginStep ==
  ASSUME McpInv, NEW t \in Tasks, NEW g \in Gens, task' = [task EXCEPT ![t] = Begin(t, g)],
         conn' \in 0..MaxGen, tools' \in BOOLEAN,
         owner' \in {"off", "initialize", "notify", "discover", "on", "failed", "closing"},
         owner' = "notify" => owner = "notify",
         gens' \in [Gens -> Connections], \A h \in Gens : gens'[h].lock = gens[h].lock
  PROVE  McpInv'
<1>1. Begin(t, g) \in Requesting /\ Begin(t, g).pc = "waiting" /\ Begin(t, g).gen = g
  BY McpAssumption DEF Begin, Requesting, Results, Gens
<1>2. task' \in [Tasks -> Requesting] /\ task'[t] = Begin(t, g)
      /\ \A u \in Tasks \ {t} : task'[u] = task[u]
  BY <1>1 DEF McpInv, McpTyped
<1>3. McpTyped'
  BY <1>2 DEF McpInv, McpTyped
<1>4. OneReader'
  BY <1>1, <1>2 DEF McpInv, OneReader
<1>5. OwnerConnected'
  BY <1>1, <1>2 DEF McpInv, OwnerConnected, Tasks
<1> QED
  BY <1>3, <1>4, <1>5 DEF McpInv

\* connect, the notification, close and the calls of agents.
LEMMA ConnectionStep ==
  ASSUME McpInv, connect \/ Notify \/ close \/ CloseEnds \/ (\E c \in Callers : call_tool(c))
  PROVE  McpInv' /\ NoneDiscarded
<1>t. McpTyped /\ Owner \in Tasks /\ (\A g \in Gens : gens[g] \in Connections)
      /\ Gens \subseteq 0..MaxGen /\ gens \in [Gens -> Connections]
  BY McpAssumption DEF McpInv, McpTyped, Tasks, Gens
<1>p. ASSUME NEW g \in Gens, NEW s \in {"none", "up", "dying", "dead"}
      PROVE  [gens[g] EXCEPT !.proc = s] \in Connections
             /\ [gens[g] EXCEPT !.proc = s].lock = gens[g].lock
             /\ [gens[g] EXCEPT !.proc = s].pipe = gens[g].pipe
  BY <1>t DEF Connections
<1>1. ASSUME connect PROVE McpInv' /\ NoneDiscarded
  <2>1. PICK g \in Gens : /\ conn' = g /\ gens' = [gens EXCEPT ![g].proc = "up"]
                          /\ task' = [task EXCEPT ![Owner] = Begin(Owner, g)]
    BY <1>1 DEF connect
  <2>2. gens' = [gens EXCEPT ![g] = [gens[g] EXCEPT !.proc = "up"]]
    BY <2>1
  <2>3. /\ gens' \in [Gens -> Connections]
        /\ \A h \in Gens : gens'[h].lock = gens[h].lock /\ gens'[h].pipe = gens[h].pipe
    BY <1>t, <1>p, <2>2
  <2>4. owner' = "initialize" /\ tools' \in BOOLEAN /\ conn' \in 0..MaxGen
    BY <1>1, <1>t, <2>1 DEF connect, McpTyped
  <2> QED
    BY <1>t, <2>1, <2>3, <2>4, ManagerBeginStep, PipesGrow
<1>2. ASSUME Notify PROVE McpInv' /\ NoneDiscarded
  <2>1. UNCHANGED << conn, tools, gens >> /\ owner = "notify" /\ task[Owner].gen \in Gens
    BY <1>2 DEF Notify, McpInv, OwnerConnected
  <2>2. NoneDiscarded
    BY <1>t, <2>1, PipesGrow
  <2>3. CASE owner' = "discover" /\ task' = [task EXCEPT ![Owner] = Begin(Owner, task[Owner].gen)]
    BY <1>t, <2>1, <2>2, <2>3, ManagerBeginStep DEF McpTyped
  <2>4. CASE owner' \in {"failed", "on"} /\ UNCHANGED task
    BY <1>t, <2>1, <2>2, <2>4, ServeStep DEF McpTyped
  <2> QED
    BY <1>2, <2>3, <2>4 DEF Notify
<1>3. ASSUME close PROVE McpInv' /\ NoneDiscarded
  <2>1. conn \in Gens /\ conn' = 0 /\ tools' = FALSE /\ owner' = "closing" /\ task' = task
    BY <1>3, <1>t DEF close, ToolsAfterClose, McpTyped, Gens
  <2>2. PICK s \in {"none", "up", "dying", "dead"} : gens' = [gens EXCEPT ![conn].proc = s]
    <3>1. gens[conn].proc \in {"none", "up", "dying", "dead"}
      BY <1>t, <2>1 DEF Connections
    <3>2. gens' = [gens EXCEPT ![conn].proc = IF gens[conn].proc = "up" THEN "dying" ELSE gens[conn].proc]
      BY <1>3 DEF close
    <3> QED
      BY <3>1, <3>2
  <2>3. gens' = [gens EXCEPT ![conn] = [gens[conn] EXCEPT !.proc = s]]
    BY <2>2
  <2>4. /\ gens' \in [Gens -> Connections]
        /\ \A h \in Gens : gens'[h].lock = gens[h].lock /\ gens'[h].pipe = gens[h].pipe
    BY <1>t, <1>p, <2>1, <2>3
  <2>5. 0 \in 0..MaxGen
    BY McpAssumption
  <2> QED
    BY <1>t, <2>1, <2>4, <2>5, ServeStep, PipesGrow
<1>4. ASSUME CloseEnds PROVE McpInv' /\ NoneDiscarded
  <2>1. UNCHANGED << conn, tools, task >> /\ owner' = "off"
    BY <1>4 DEF CloseEnds
  <2>2. \A g \in Gens : gens'[g] = gens[g] \/ gens'[g] = [gens[g] EXCEPT !.proc = "dead"]
    BY <1>4 DEF CloseEnds
  <2>3. gens' = [g \in Gens |-> gens'[g]]
    BY <1>4 DEF CloseEnds
  <2>4. /\ gens' \in [Gens -> Connections]
        /\ \A h \in Gens : gens'[h].lock = gens[h].lock /\ gens'[h].pipe = gens[h].pipe
    BY <1>t, <1>p, <2>2, <2>3
  <2> QED
    BY <1>t, <2>1, <2>4, ServeStep, PipesGrow DEF McpTyped
<1>5. ASSUME NEW c \in Callers, call_tool(c) PROVE McpInv' /\ NoneDiscarded
  <2>1. /\ UNCHANGED << conn, tools, gens, owner >> /\ conn \in Gens /\ c \in Tasks
        /\ task' = [task EXCEPT ![c] = Begin(c, conn)]
    BY <1>5, <1>t DEF call_tool, McpTyped, Gens, Tasks
  <2> QED
    BY <1>t, <2>1, ManagerBeginStep, PipesGrow DEF McpTyped
<1> QED
  BY <1>1, <1>2, <1>3, <1>4, <1>5

\* The server answers, says something unasked or dies: pipes only grow.
LEMMA ServerStep ==
  ASSUME McpInv, NEW g \in Gens,
         \/ (\E kind \in {"ok", "error", "long"} : ServerAnswers(g, kind))
         \/ ServerNotes(g) \/ ServerDies(g)
  PROVE  McpInv' /\ NoneDiscarded
<1>t. McpTyped /\ gens[g] \in Connections /\ gens \in [Gens -> Connections]
  BY DEF McpInv, McpTyped
<1>c. /\ gens[g].pipe \in Seq(Messages) /\ gens[g].asked \subseteq Nat
      /\ gens[g].proc \in {"none", "up", "dying", "dead"} /\ gens[g].lock \subseteq Tasks
      /\ gens[g].nextId \in Nat
  BY <1>t DEF Connections
<1>1. ASSUME NEW kind \in {"ok", "error", "long"}, ServerAnswers(g, kind)
      PROVE  McpInv' /\ NoneDiscarded
  <2>1. PICK i \in gens[g].asked :
          gens' = [gens EXCEPT ![g].asked = gens[g].asked \ {i},
                               ![g].pipe = Append(gens[g].pipe, [id |-> i, kind |-> kind])]
    BY <1>1 DEF ServerAnswers
  <2> DEFINE m == [id |-> i, kind |-> kind]
             g1 == [gens EXCEPT ![g].asked = gens[g].asked \ {i}]
  <2>2. m \in Messages
    BY <1>c DEF Messages
  <2>3. /\ DOMAIN g1 = Gens /\ g1[g] = [gens[g] EXCEPT !.asked = gens[g].asked \ {i}]
        /\ \A h \in Gens \ {g} : g1[h] = gens[h]
    BY <1>t
  <2>4. /\ gens' = [h \in Gens |-> gens'[h]]
        /\ gens'[g] = [g1[g] EXCEPT !.pipe = Append(gens[g].pipe, m)]
        /\ \A h \in Gens \ {g} : gens'[h] = g1[h]
    BY <2>1, <2>3
  <2>5. Append(gens[g].pipe, m) \in Seq(Messages)
    BY <1>c, <2>2, AppendIsLonger
  <2>6. gens'[g] \in Connections /\ gens'[g].lock = gens[g].lock
        /\ gens'[g].pipe = Append(gens[g].pipe, m)
    <3> HIDE DEF m, g1
    <3>1. gens'[g] = [gens[g] EXCEPT !.asked = gens[g].asked \ {i}, !.pipe = Append(gens[g].pipe, m)]
      BY <2>3, <2>4
    <3>2. gens[g].asked \ {i} \in SUBSET Nat
      BY <1>c
    <3> QED
      BY <1>t, <2>5, <3>1, <3>2 DEF Connections
  <2>7. gens' \in [Gens -> Connections]
    BY <1>t, <2>3, <2>4, <2>6
  <2>8. \A h \in Gens : /\ gens'[h].lock = gens[h].lock
                         /\ \/ gens'[h].pipe = gens[h].pipe
                            \/ gens'[h].pipe = Append(gens[h].pipe, m)
    BY <2>3, <2>4, <2>6
  <2>9. NoneDiscarded
    BY <1>t, <2>2, <2>8, PipesGrow
  <2> QED
    BY <1>1, <1>t, <2>7, <2>8, <2>9, ServeStep DEF ServerAnswers, McpTyped
<1>2. ASSUME ServerNotes(g) PROVE McpInv' /\ NoneDiscarded
  <2> DEFINE m == [id |-> 0, kind |-> "note"]
  <2>1. gens' = [gens EXCEPT ![g] = [gens[g] EXCEPT !.pipe = Append(gens[g].pipe, m)]]
    BY <1>2 DEF ServerNotes
  <2>2. m \in Messages
    BY DEF Messages
  <2>3. Append(gens[g].pipe, m) \in Seq(Messages)
    BY <1>c, <2>2, AppendIsLonger
  <2>4. [gens[g] EXCEPT !.pipe = Append(gens[g].pipe, m)] \in Connections
    BY <1>t, <1>c, <2>3 DEF Connections
  <2>5. gens' \in [Gens -> Connections]
    BY <1>t, <2>1, <2>4
  <2>6. \A h \in Gens : /\ gens'[h].lock = gens[h].lock
                         /\ \/ gens'[h].pipe = gens[h].pipe
                            \/ gens'[h].pipe = Append(gens[h].pipe, m)
    BY <1>t, <2>1 DEF Connections
  <2>7. NoneDiscarded
    BY <1>t, <2>2, <2>6, PipesGrow
  <2> QED
    <3>1. UNCHANGED << conn, tools, task, owner >>
      BY <1>2 DEF ServerNotes
    <3>2. \A h \in Gens : gens'[h].lock = gens[h].lock
      BY <2>6
    <3>3. McpInv'
      BY <1>t, <2>5, <3>1, <3>2, ServeStep DEF McpTyped
    <3> QED
      BY <2>7, <3>3
<1>3. ASSUME ServerDies(g) PROVE McpInv' /\ NoneDiscarded
  <2>1. gens' = [gens EXCEPT ![g] = [gens[g] EXCEPT !.proc = "dead"]]
    BY <1>3 DEF ServerDies
  <2>2. [gens[g] EXCEPT !.proc = "dead"] \in Connections
    BY <1>t, <1>c DEF Connections
  <2>3. gens' \in [Gens -> Connections]
    BY <1>t, <2>1, <2>2
  <2>4. \A h \in Gens : gens'[h].lock = gens[h].lock /\ gens'[h].pipe = gens[h].pipe
    BY <1>t, <2>1 DEF Connections
  <2> QED
    BY <1>3, <1>t, <2>3, <2>4, ServeStep, PipesGrow DEF ServerDies, McpTyped
<1> QED
  BY <1>1, <1>2, <1>3

\* A request that is sent is alone with its connection's lock.
LEMMA SendStep ==
  ASSUME McpInv, NEW t \in Tasks, Send(t)
  PROVE  McpInv' /\ NoneDiscarded
<1> DEFINE g == task[t].gen
           heard == IF gens[g].proc = "dead" THEN gens[g].asked
                    ELSE gens[g].asked \cup {gens[g].nextId}
           g1 == [gens EXCEPT ![g].lock = gens[g].lock \cup {t}]
           g2 == [g1 EXCEPT ![g].nextId = g1[g].nextId + 1]
<1>1. /\ task[t].pc = "waiting" /\ gens[g].lock = {}
      /\ gens' = [gens EXCEPT ![g].lock = gens[g].lock \cup {t}, ![g].nextId = @ + 1,
                              ![g].asked = heard]
      /\ task' = [task EXCEPT ![t].pc = "reading", ![t].id = gens[g].nextId]
      /\ UNCHANGED << conn, tools, owner >>
  BY DEF Send, LockFree
<1>2. /\ gens \in [Gens -> Connections] /\ task \in [Tasks -> Requesting]
      /\ g \in Gens /\ gens[g] \in Connections /\ task[t] \in Requesting
  BY <1>1 DEF McpInv, McpTyped, OneReader
<1>3. /\ gens[g].nextId \in Nat /\ gens[g].nextId + 1 \in Nat /\ gens[g].asked \subseteq Nat
      /\ gens[g].lock \subseteq Tasks /\ heard \subseteq Nat
  BY <1>2 DEF Connections
<1>4. /\ DOMAIN g1 = Gens /\ g1[g] = [gens[g] EXCEPT !.lock = gens[g].lock \cup {t}]
      /\ \A h \in Gens \ {g} : g1[h] = gens[h]
  BY <1>2
<1>5. g1[g] \in Connections /\ g1[g].nextId = gens[g].nextId /\ g1[g].pipe = gens[g].pipe
      /\ g1[g].lock = {t}
  BY <1>1, <1>2, <1>3, <1>4 DEF Connections
<1>6. /\ DOMAIN g2 = Gens /\ g2[g] = [g1[g] EXCEPT !.nextId = gens[g].nextId + 1]
      /\ \A h \in Gens \ {g} : g2[h] = gens[h]
  BY <1>2, <1>4, <1>5
<1>7. g2[g] \in Connections /\ g2[g].pipe = gens[g].pipe /\ g2[g].lock = {t}
  <2> DEFINE n == gens[g].nextId + 1
             c == g1[g]
  <2>1. n \in Nat /\ c \in Connections /\ c.pipe = gens[g].pipe /\ c.lock = {t}
    BY <1>3, <1>5
  <2>2. g2[g] = [c EXCEPT !.nextId = n]
    BY <1>6
  <2> HIDE DEF n, c, g2
  <2> QED
    BY <2>1, <2>2 DEF Connections
<1>8. gens' = [g2 EXCEPT ![g].asked = heard]
  BY <1>1
<1>9. /\ gens' = [h \in Gens |-> gens'[h]] /\ gens'[g] = [g2[g] EXCEPT !.asked = heard]
      /\ \A h \in Gens \ {g} : gens'[h] = gens[h]
  <2> HIDE DEF g2, heard
  <2> QED
    BY <1>2, <1>6, <1>8
<1>10. gens'[g] \in Connections /\ gens'[g].pipe = gens[g].pipe /\ gens'[g].lock = {t}
  BY <1>3, <1>7, <1>9 DEF Connections
<1>11. gens' \in [Gens -> Connections]
  BY <1>2, <1>9, <1>10
<1> DEFINE t1 == [task EXCEPT ![t].pc = "reading"]
<1>12. /\ DOMAIN t1 = Tasks /\ t1[t] = [task[t] EXCEPT !.pc = "reading"]
       /\ \A u \in Tasks \ {t} : t1[u] = task[u]
  BY <1>2
<1>13. t1[t] \in Requesting /\ t1[t].pc = "reading" /\ t1[t].gen = g
  BY <1>2, <1>12 DEF Requesting
<1>14. task' = [t1 EXCEPT ![t].id = gens[g].nextId]
  BY <1>1
<1>15. /\ task' = [u \in Tasks |-> task'[u]] /\ task'[t] = [t1[t] EXCEPT !.id = gens[g].nextId]
       /\ \A u \in Tasks \ {t} : task'[u] = task[u]
  BY <1>12, <1>14
<1>16. task'[t] \in Requesting /\ task'[t].pc = "reading" /\ task'[t].gen = g
  BY <1>3, <1>13, <1>15 DEF Requesting
<1>17. task' \in [Tasks -> Requesting]
  BY <1>2, <1>15, <1>16
<1>18. McpTyped'
  BY <1>1, <1>11, <1>17 DEF McpInv, McpTyped
<1>19. OneReader'
  <2> SUFFICES ASSUME NEW u \in Tasks
               PROVE  /\ task'[u].pc # "idle" => task'[u].gen \in Gens
                      /\ task'[u].pc = "reading" => gens'[task'[u].gen].lock = {u}
    BY DEF OneReader
  <2>1. CASE u = t
    BY <1>2, <1>10, <1>16, <2>1
  <2>2. CASE u # t
    <3>1. task'[u] = task[u]
      BY <1>15, <2>2
    <3>2. task[u].pc = "reading" => gens[task[u].gen].lock = {u} /\ task[u].gen # g
      BY <1>1 DEF McpInv, OneReader
    <3>3. task[u].pc # "idle" => task[u].gen \in Gens
      BY DEF McpInv, OneReader
    <3> QED
      BY <1>9, <3>1, <3>2, <3>3
  <2> QED
    BY <2>1, <2>2
<1>20. OwnerConnected'
  BY <1>1, <1>2, <1>15, <1>16 DEF McpInv, OwnerConnected, Tasks
<1>21. NoneDiscarded
  <2>1. \A h \in Gens : gens'[h].pipe = gens[h].pipe
    BY <1>9, <1>10
  <2> QED
    BY <2>1, PipesGrow DEF McpInv
<1> QED
  BY <1>18, <1>19, <1>20, <1>21 DEF McpInv

\* Requests that end without reading: refused, end of file, timeout, cancelled.
LEMMA QuietEnds ==
  ASSUME McpInv, NEW t \in Tasks, SendRefused(t) \/ ReadEof(t) \/ TimeOut(t) \/ Cancel(t)
  PROVE  McpInv' /\ NoneDiscarded
<1> DEFINE g == task[t].gen
<1>1. task[t].pc # "idle" /\ conn' = conn
  BY DEF SendRefused, ReadEof, TimeOut, Cancel
<1>2. g \in Gens /\ gens \in [Gens -> Connections] /\ gens[g] \in Connections
  BY <1>1 DEF McpInv, McpTyped, OneReader
<1>3. /\ gens[g].nextId + 1 \in Nat /\ gens[g].lock \subseteq Tasks
      /\ gens[g].proc \in {"none", "up", "dying", "dead"}
  BY <1>2 DEF Connections
<1>4. [gens[g] EXCEPT !.lock = gens[g].lock \ {t}] \in Connections
  BY <1>2, <1>3 DEF Connections
<1>5. ASSUME gens' = [gens EXCEPT ![g].lock = Released(g, t)]
      PROVE  /\ gens' \in [Gens -> Connections]
             /\ \A h \in Gens :
                  /\ gens'[h].pipe = gens[h].pipe
                  /\ \/ gens'[h].lock = gens[h].lock
                     \/ h = g /\ gens'[h].lock = gens[h].lock \ {t}
  <2>1. gens' = [gens EXCEPT ![g] = [gens[g] EXCEPT !.lock = gens[g].lock \ {t}]]
    BY <1>5 DEF Released
  <2> QED
    BY <1>2, <1>4, <2>1 DEF Connections
<1>6. CASE SendRefused(t)
  <2>1. EndRequest(t, "refused", 0) /\ "refused" \in Results
    BY <1>6 DEF SendRefused, Results
  <2>2. CASE gens' = gens
    BY <1>1, <1>2, <2>1, <2>2, EndQuietly
  <2>3. CASE gens' = [gens EXCEPT ![g].nextId = @ + 1]
    <3>1. gens' = [gens EXCEPT ![g] = [gens[g] EXCEPT !.nextId = gens[g].nextId + 1]]
      BY <2>3
    <3>2. [gens[g] EXCEPT !.nextId = gens[g].nextId + 1] \in Connections
      BY <1>2, <1>3 DEF Connections
    <3>3. /\ gens' \in [Gens -> Connections]
          /\ \A h \in Gens : gens'[h].pipe = gens[h].pipe /\ gens'[h].lock = gens[h].lock
      BY <1>2, <3>1, <3>2 DEF Connections
    <3> QED
      BY <1>1, <2>1, <3>3, EndQuietly
  <2> QED
    BY <1>6, <2>2, <2>3 DEF SendRefused
<1>7. CASE ReadEof(t)
  <2>1. EndRequest(t, "closed", 0) /\ "closed" \in Results
        /\ gens' = [gens EXCEPT ![g].lock = Released(g, t)]
    BY <1>7 DEF ReadEof, Results
  <2> QED
    BY <1>1, <1>5, <2>1, EndQuietly
<1>8. CASE Cancel(t)
  <2>1. EndRequest(t, "cancelled", 0) /\ "cancelled" \in Results
        /\ gens' = [gens EXCEPT ![g].lock = Released(g, t)]
    BY <1>8 DEF Cancel, Results
  <2> QED
    BY <1>1, <1>5, <2>1, EndQuietly
<1>9. CASE TimeOut(t)
  <2> DEFINE g1 == [gens EXCEPT ![g].lock = gens[g].lock \ {t}]
             s == IF gens[g].proc = "up" THEN "dying" ELSE gens[g].proc
  <2>1. EndRequest(t, "timeout", 0) /\ "timeout" \in Results
    BY <1>9 DEF TimeOut, Results
  <2>2. /\ DOMAIN g1 = Gens /\ g1[g] = [gens[g] EXCEPT !.lock = gens[g].lock \ {t}]
        /\ \A h \in Gens \ {g} : g1[h] = gens[h]
    BY <1>2
  <2>3. g1[g] \in Connections /\ g1[g].proc = gens[g].proc /\ g1[g].pipe = gens[g].pipe
        /\ g1[g].lock = gens[g].lock \ {t}
    BY <1>2, <1>4, <2>2 DEF Connections
  <2>4. gens' = [g1 EXCEPT ![g].proc = s]
    BY <1>9, <1>2, <2>2, <2>3 DEF TimeOut, Released
  <2>5. /\ gens' = [h \in Gens |-> gens'[h]] /\ gens'[g] = [g1[g] EXCEPT !.proc = s]
        /\ \A h \in Gens \ {g} : gens'[h] = gens[h]
    BY <1>2, <2>2, <2>4
  <2>6. gens'[g] \in Connections /\ gens'[g].pipe = gens[g].pipe
        /\ gens'[g].lock = gens[g].lock \ {t}
    BY <1>3, <2>3, <2>5 DEF Connections
  <2>7. gens' \in [Gens -> Connections]
    BY <1>2, <2>5, <2>6
  <2>8. \A h \in Gens :
          /\ gens'[h].pipe = gens[h].pipe
          /\ \/ gens'[h].lock = gens[h].lock
             \/ h = g /\ gens'[h].lock = gens[h].lock \ {t}
    <3> HIDE DEF g1
    <3> QED
      BY <2>5, <2>6
  <2> QED
    BY <1>1, <2>1, <2>7, <2>8, EndQuietly
<1> QED
  BY <1>6, <1>7, <1>8, <1>9

\* A request reads a message: its own ends it, another one's nobody waits for.
LEMMA ReadStep ==
  ASSUME McpInv, NEW t \in Tasks, Read(t)
  PROVE  McpInv' /\ NoneDiscarded
<1> DEFINE g == task[t].gen
           m == Head(gens[g].pipe)
<1>1. task[t].pc = "reading" /\ gens[g].pipe # << >> /\ conn' = conn
  BY DEF Read
<1>2. /\ g \in Gens /\ gens \in [Gens -> Connections] /\ gens[g] \in Connections
      /\ gens[g].lock = {t}
  BY <1>1 DEF McpInv, McpTyped, OneReader
<1>3. gens[g].pipe \in Seq(Messages) /\ gens[g].lock \subseteq Tasks
  BY <1>2 DEF Connections
<1>4. m \in Messages /\ Tail(gens[g].pipe) \in Seq(Messages)
  BY <1>1, <1>3, TailIsShorter
<1>5. [gens[g] EXCEPT !.lock = gens[g].lock \ {t}] \in Connections
  BY <1>2, <1>3 DEF Connections
<1>6. ASSUME NEW rest \in Seq(Messages),
             gens' = [gens EXCEPT ![g].pipe = rest, ![g].lock = Released(g, t)]
      PROVE  /\ gens' \in [Gens -> Connections]
             /\ gens'[g].pipe = rest /\ gens'[g].lock = gens[g].lock \ {t}
             /\ \A h \in Gens \ {g} : gens'[h] = gens[h]
  <2> DEFINE g1 == [gens EXCEPT ![g].pipe = rest]
  <2>1. /\ DOMAIN g1 = Gens /\ g1[g] = [gens[g] EXCEPT !.pipe = rest]
        /\ \A h \in Gens \ {g} : g1[h] = gens[h]
    BY <1>2
  <2>2. g1[g] \in Connections /\ g1[g].pipe = rest
    BY <1>2, <2>1 DEF Connections
  <2>3. gens' = [g1 EXCEPT ![g].lock = gens[g].lock \ {t}]
    BY <1>6 DEF Released
  <2>4. /\ gens' = [h \in Gens |-> gens'[h]]
        /\ gens'[g] = [g1[g] EXCEPT !.lock = gens[g].lock \ {t}]
        /\ \A h \in Gens \ {g} : gens'[h] = gens[h]
    BY <1>2, <2>1, <2>3
  <2>5. gens'[g] \in Connections /\ gens'[g].pipe = rest /\ gens'[g].lock = gens[g].lock \ {t}
    BY <1>3, <2>2, <2>4 DEF Connections
  <2> QED
    BY <1>2, <2>4, <2>5
<1>7. ASSUME \A h \in Gens \ {g} : gens'[h] = gens[h],
             m.id # task[t].id \/ task'[t] # task[t]
      PROVE  NoneDiscarded
  <2> SUFFICES ASSUME NEW h \in Gens, gens[h].pipe # << >>, gens'[h].pipe = Tail(gens[h].pipe),
                      NEW u \in Tasks, task[u].pc = "reading", task[u].gen = h,
                      task[u].id = Head(gens[h].pipe).id
               PROVE  task'[u] # task[u]
    BY DEF NoneDiscarded
  <2>1. h = g
    <3> SUFFICES ASSUME h # g PROVE FALSE
      OBVIOUS
    <3>1. gens'[h].pipe = gens[h].pipe /\ gens[h].pipe \in Seq(Messages)
      BY <1>7, <1>2 DEF Connections
    <3>2. Len(Tail(gens[h].pipe)) = Len(gens[h].pipe) - 1 /\ Len(gens[h].pipe) \in Nat
      BY <3>1, TailIsShorter
    <3> DEFINE n == Len(gens[h].pipe)
               k == Len(Tail(gens[h].pipe))
    <3>3. k = n - 1 /\ n \in Nat
      BY <3>2
    <3>4. gens[h].pipe = Tail(gens[h].pipe)
      BY <3>1, Zenon
    <3>5. k = n
      BY <3>4, Zenon
    <3> HIDE DEF n, k
    <3> QED
      BY <3>3, <3>5
  <2>2. gens[g].lock = {u}
    BY <2>1 DEF McpInv, OneReader
  <2>3. u = t
    BY <1>2, <2>2
  <2> QED
    BY <1>7, <2>1, <2>3
<1>8. CASE UNCHANGED << task, owner, tools >> /\ ~IsOwn(t, m)
           /\ gens' = [gens EXCEPT ![g].pipe = Tail(gens[g].pipe)]
  <2>1. [gens[g] EXCEPT !.pipe = Tail(gens[g].pipe)] \in Connections
    BY <1>2, <1>4 DEF Connections
  <2>2. gens' = [gens EXCEPT ![g] = [gens[g] EXCEPT !.pipe = Tail(gens[g].pipe)]]
    BY <1>8
  <2>3. gens' \in [Gens -> Connections]
    BY <1>2, <2>1, <2>2
  <2>4. \A h \in Gens : gens'[h].lock = gens[h].lock
    BY <1>2, <2>2 DEF Connections
  <2>5. \A h \in Gens \ {g} : gens'[h] = gens[h]
    BY <1>2, <2>2
  <2>6. NoneDiscarded
    BY <1>7, <1>8, <2>5 DEF IsOwn
  <2> QED
    BY <1>1, <1>8, <2>3, <2>4, <2>6, ServeStep DEF McpInv, McpTyped
<1>9. ASSUME NEW rest \in Seq(Messages), NEW result \in Results, NEW got \in Nat,
             gens' = [gens EXCEPT ![g].pipe = rest, ![g].lock = Released(g, t)],
             EndRequest(t, result, got)
      PROVE  McpInv' /\ NoneDiscarded
  <2>1. /\ gens' \in [Gens -> Connections]
        /\ gens'[g].lock = gens[g].lock \ {t}
        /\ \A h \in Gens \ {g} : gens'[h] = gens[h]
    BY <1>6, <1>9
  <2>2. McpInv' /\ task'[t] # task[t]
    BY <1>1, <1>9, <2>1, ManagerEndStep
  <2> QED
    BY <1>7, <2>1, <2>2
<1>10. CASE /\ m.kind \notin {"long", "junk"}
            /\ gens' = [gens EXCEPT ![g].pipe = Tail(gens[g].pipe), ![g].lock = Released(g, t)]
            /\ EndRequest(t, m.kind, m.id)
  <2>1. m.kind \in Results /\ m.id \in Nat
    BY <1>4, <1>10 DEF Messages, Results
  <2> QED
    BY <1>4, <1>9, <1>10, <2>1
<1>11. ASSUME NEW rest \in AfterLong(gens[g].pipe) \cup {Tail(gens[g].pipe)},
              gens' = [gens EXCEPT ![g].pipe = rest, ![g].lock = Released(g, t)],
              EndRequest(t, "unreadable", 0)
       PROVE  McpInv' /\ NoneDiscarded
  <2>1. << [id |-> 0, kind |-> "junk"] >> \o Tail(gens[g].pipe) \in Seq(Messages)
    <3>1. [id |-> 0, kind |-> "junk"] \in Messages
      BY DEF Messages
    <3>2. << [id |-> 0, kind |-> "junk"] >> \in Seq(Messages)
      BY <3>1
    <3> HIDE DEF Messages
    <3> QED
      BY <1>4, <3>2
  <2>2. rest \in Seq(Messages)
    BY <1>4, <2>1 DEF AfterLong
  <2>3. "unreadable" \in Results /\ 0 \in Nat
    BY DEF Results
  <2> QED
    BY <1>9, <1>11, <2>2, <2>3
<1> QED
  BY <1>8, <1>10, <1>11 DEF Read

\* Every step of the manager and the server keeps the invariant and discards no
\* answer somebody waits for.
LEMMA McpStep ==
  ASSUME McpInv, McpNext \/ UNCHANGED mcpVars
  PROVE  McpInv' /\ NoneDiscarded
<1>1. CASE UNCHANGED mcpVars
  <2>1. UNCHANGED << conn, tools, gens, task, owner >>
    BY <1>1 DEF mcpVars
  <2>2. McpInv'
    BY <2>1 DEF McpInv, McpTyped, OneReader, OwnerConnected
  <2> QED
    BY <2>1, <2>2, PipesGrow DEF McpInv
<1>2. CASE McpNext
  <2>1. ASSUME NEW t \in Tasks, Requests(t) PROVE McpInv' /\ NoneDiscarded
    BY <2>1, SendStep, QuietEnds, ReadStep DEF Requests
  <2> QED
    BY <1>2, <2>1, ConnectionStep, ServerStep DEF McpNext
<1> QED
  BY <1>1, <1>2

\* The invariant holds for any number of callers, connections and requests.
THEOREM ManagerInductive == McpSpec => []McpInv
<1>1. McpInv /\ [McpNext]_mcpVars => McpInv'
  BY McpStep
<1> QED
  BY <1>1, McpStart, PTL DEF McpSpec

\* The manager's registry, connections and requests keep their shapes.
THEOREM ManagerTypeCorrect == McpSpec => []McpTypeOK
<1>1. McpInv => McpTypeOK
  BY DEF McpInv, McpTyped, McpTypeOK, Connections, Requesting
<1> QED
  BY <1>1, ManagerInductive, PTL

\* _request's read loop throws a message away only when nobody waits for it: the
\* lock keeps two requests of one connection from eating each other's answers.
THEOREM AnswersReachTheirCallers == McpSpec => NoAnswerDiscarded
<1>1. McpInv /\ [McpNext]_mcpVars =>
        [ \A g \in Gens :
            LET m == Head(gens[g].pipe) IN
            gens[g].pipe # << >> /\ gens'[g].pipe = Tail(gens[g].pipe) =>
              \A t \in Tasks :
                task[t].pc = "reading" /\ task[t].gen = g /\ task[t].id = m.id
                  => task'[t] # task[t] ]_mcpVars
  BY McpStep DEF NoneDiscarded
<1> QED
  BY <1>1, ManagerInductive, PTL DEF McpSpec, NoAnswerDiscarded

-----------------------------------------------------------------------------
(***************************************************************************)
(* ToolCalls.  What the observer keeps is related to the calls made so     *)
(* far: the remembered signatures are the first MaxKeys distinct failures, *)
(* and the run of alike edit failures ends in the last call.  That every   *)
(* call has a first one with its key is itself part of the invariant, for  *)
(* a least index cannot be had by induction here.                          *)
(***************************************************************************)

CallOutcomes == {"ok", "changed", "CAPABILITY_UNAVAILABLE", "INVALID_ARGUMENT"} \cup Errors
Arguments == {"fine", "other_command", "other_text", "bad_schema"}
Told == [required : BOOLEAN, changed : BOOLEAN, verified : BOOLEAN, inspected : BOOLEAN]
Entries ==
  [ cap : Capabilities, path : Paths \cup {"-"}, arg : Arguments, result : CallOutcomes, told : Told ]

\* The distinct failures among the first n calls of h.
Failures(h, n) == { EntryKey(h[k]) : k \in { m \in 1..n : Failed(h[m].result) } }

\* f is the first call of h with the key of call i.
IsFirst(h, f, i) ==
  /\ f \in 1..i
  /\ EntryKey(h[f]) = EntryKey(h[i])
  /\ \A k \in 1..(f - 1) : EntryKey(h[k]) # EntryKey(h[i])

\* WasCounted, for any history.
CountedIn(h, i) ==
  LET first == CHOOSE j \in 1..i : /\ EntryKey(h[j]) = EntryKey(h[i])
                                   /\ \A k \in 1..(j-1) : EntryKey(h[k]) # EntryKey(h[i])
  IN  Cardinality(Failures(h, first - 1)) < MaxKeys

RememberedKeys == DOMAIN obs.signatures

CallsTyped ==
  /\ history \in Seq(Entries) /\ Len(history) <= MaxCalls
  /\ registered \subseteq Tools
  /\ obs.index = Len(history) /\ obs.mutation \in 0..obs.index
  /\ IsFiniteSet(Failures(history, Len(history)))
  /\ \A i \in 1..Len(history) : \E f \in 1..i : IsFirst(history, f, i)

SignaturesKept ==
  /\ \A k \in RememberedKeys : obs.signatures[k] \in 1..MaxRepeat
  /\ RememberedKeys \subseteq Failures(history, Len(history))
  /\ Cardinality(RememberedKeys) <= MaxKeys
  /\ Cardinality(RememberedKeys) < MaxKeys => RememberedKeys = Failures(history, Len(history))
  /\ \A i \in 1..Len(history) : Failed(history[i].result) =>
       (EntryKey(history[i]) \in RememberedKeys <=> WasCounted(i))

LastCall == history[Len(history)]

RunKept ==
  IF Len(history) > 0 /\ EditFailed(LastCall.cap, LastCall.result)
    THEN /\ obs.lastSimilar = Similar(LastCall.cap, LastCall.path, LastCall.result)
         /\ obs.similar \in 1..MaxRepeat
    ELSE obs.lastSimilar = NoFailure

ToolInv == CallsTyped /\ SignaturesKept /\ RunKept /\ SignalIsRight

\* One call: what the observer makes of it and the entry it leaves.
Called(cap, path, arg, result) ==
  /\ Len(history) < MaxCalls
  /\ obs' = Decorated(obs, cap, path, Key(cap, path, arg, result), result)
  /\ history' = Append(history, Entry(cap, path, arg, result,
                  Summary(obs, cap, path, Key(cap, path, arg, result), result)))

\* A call is counted when fewer than MaxKeys distinct failures came before the
\* first call like it.
LEMMA CountedByFirst ==
  ASSUME NEW h, NEW i \in Nat, NEW f \in 1..i, IsFirst(h, f, i)
  PROVE  CountedIn(h, i) <=> Cardinality(Failures(h, f - 1)) < MaxKeys
<1> DEFINE P(j) == /\ EntryKey(h[j]) = EntryKey(h[i])
                   /\ \A k \in 1..(j - 1) : EntryKey(h[k]) # EntryKey(h[i])
<1>1. P(f)
  BY DEF IsFirst
<1>2. ASSUME NEW j \in 1..i, P(j) PROVE j = f
  <2>1. j \in 1..(f - 1) \/ f \in 1..(j - 1) \/ j = f
    OBVIOUS
  <2> QED
    BY <1>1, <1>2, <2>1
<1> DEFINE g == CHOOSE j \in 1..i : P(j)
<1>3. g = f
  <2>1. g \in 1..i /\ P(g)
    BY <1>1
  <2> QED
    BY <2>1, <1>2
<1>4. CountedIn(h, i) <=> Cardinality(Failures(h, g - 1)) < MaxKeys
  BY DEF CountedIn
<1> QED
  BY <1>3, <1>4

\* Every step of the attempt is one call, with a typed entry.
LEMMA StepIsCall ==
  ASSUME ToolNext
  PROVE  /\ UNCHANGED registered
         /\ \E cap \in Capabilities, path \in Paths \cup {"-"}, arg \in Arguments,
               result \in CallOutcomes : Called(cap, path, arg, result)
<1>1. PICK cap \in Capabilities : \E path \in PathsOf(cap), arg \in Args(cap) :
        invoke(cap, path, arg) \/ direct(cap, path, arg)
  BY DEF ToolNext
<1>2. PICK path \in PathsOf(cap), arg \in Args(cap) :
        invoke(cap, path, arg) \/ direct(cap, path, arg)
  BY <1>1
<1>3. path \in Paths \cup {"-"}
  BY DEF PathsOf
<1>4. arg \in Arguments
  <2>1. CASE cap = "git.status"
    BY <2>1 DEF Args, Arguments
  <2>2. CASE cap = "workspace.edit"
    BY <2>2 DEF Args, Arguments
  <2>3. CASE cap = "workspace.diff"
    BY <2>3 DEF Args, Arguments
  <2>4. CASE cap \notin {"git.status", "workspace.edit", "workspace.diff"}
    BY <2>4 DEF Args, Arguments
  <2> QED
    BY <2>1, <2>2, <2>3, <2>4
<1>5. ResultsOf(cap, arg) \subseteq CallOutcomes
  BY DEF ResultsOf, validate_request, CallOutcomes
<1>6. CASE invoke(cap, path, arg)
  <2>1. PICK result \in ResultsOf(cap, arg) : Called(cap, path, arg, result)
    BY <1>6 DEF invoke, Called
  <2> QED
    BY <1>3, <1>4, <1>5, <1>6, <2>1 DEF invoke
<1>7. CASE direct(cap, path, arg)
  <2>1. Called(cap, path, arg, validate_request(cap, arg))
    BY <1>7 DEF direct, Called
  <2>2. validate_request(cap, arg) \in CallOutcomes
    BY <1>7 DEF direct, validate_request, CallOutcomes
  <2> QED
    BY <1>3, <1>4, <1>7, <2>1, <2>2 DEF direct
<1> QED
  BY <1>2, <1>6, <1>7

\* Nothing is remembered of no calls.
LEMMA ObserverStart == ToolInit => ToolInv
<1> SUFFICES ASSUME ToolInit PROVE ToolInv
  OBVIOUS
<1>1. history = << >> /\ Len(history) = 0 /\ obs = NewObserver /\ RememberedKeys = {}
  BY DEF ToolInit, NewObserver, RememberedKeys
<1>2. Failures(history, Len(history)) = {}
  BY <1>1 DEF Failures
<1>3. CallsTyped
  BY <1>1, <1>2, FS_EmptySet, ToolCallsAssumption DEF CallsTyped, ToolInit, NewObserver
<1>4. SignaturesKept
  BY <1>1, <1>2, FS_EmptySet, ToolCallsAssumption DEF SignaturesKept
<1>5. RunKept /\ SignalIsRight
  BY <1>1 DEF RunKept, SignalIsRight, NewObserver
<1> QED
  BY <1>3, <1>4, <1>5 DEF ToolInv

\* A call appended to the history leaves what was so of the earlier calls.
LEMMA HistoryGrows ==
  ASSUME NEW h \in Seq(Entries), NEW e \in Entries
  PROVE  LET g == Append(h, e) IN
         /\ g \in Seq(Entries)
         /\ Len(h) \in Nat
         /\ Len(g) = Len(h) + 1
         /\ g[Len(h) + 1] = e
         /\ \A i \in 1..Len(h) : g[i] = h[i]
         /\ \A n \in 0..Len(h) : Failures(g, n) = Failures(h, n)
         /\ Failures(g, Len(h) + 1) =
              IF Failed(e.result) THEN Failures(h, Len(h)) \cup {EntryKey(e)}
              ELSE Failures(h, Len(h))
         /\ \A i \in 1..Len(h) : \A f \in 1..i : IsFirst(g, f, i) <=> IsFirst(h, f, i)
<1> DEFINE n == Len(h)
           g == Append(h, e)
<1>1. /\ g \in Seq(Entries) /\ n \in Nat /\ Len(g) = n + 1
      /\ g[n + 1] = e
      /\ \A i \in 1..n : g[i] = h[i]
  OBVIOUS
<1> HIDE DEF n, g
<1>2. ASSUME NEW m \in 0..n PROVE Failures(g, m) = Failures(h, m)
  <2>1. \A k \in 1..m : g[k] = h[k]
    BY <1>1
  <2> QED
    BY <2>1 DEF Failures, EntryKey
<1>3. Failures(g, n + 1) = IF Failed(e.result) THEN Failures(h, n) \cup {EntryKey(e)}
                           ELSE Failures(h, n)
  <2>1. \A m : m \in 1..(n + 1) <=> m \in 1..n \/ m = n + 1
    BY <1>1
  <2>2. \A x : x \in Failures(g, n + 1) <=>
          \E k \in 1..(n + 1) : Failed(g[k].result) /\ x = EntryKey(g[k])
    BY DEF Failures
  <2>3. \A x : x \in Failures(h, n) <=>
          \E k \in 1..n : Failed(h[k].result) /\ x = EntryKey(h[k])
    BY DEF Failures
  <2>4. \A x : x \in Failures(g, n + 1) <=>
          x \in Failures(h, n) \/ (Failed(e.result) /\ x = EntryKey(e))
    BY <1>1, <2>1, <2>2, <2>3
  <2> QED
    BY <2>4
<1>4. ASSUME NEW i \in 1..n, NEW f \in 1..i PROVE IsFirst(g, f, i) <=> IsFirst(h, f, i)
  <2>1. /\ g[i] = h[i] /\ g[f] = h[f]
        /\ \A k \in 1..(f - 1) : g[k] = h[k]
    BY <1>1
  <2> QED
    BY <2>1 DEF IsFirst, EntryKey
<1> QED
  BY <1>1, <1>2, <1>3, <1>4 DEF n, g

\* The new call has a first one like it too: the first one like an earlier call
\* with its key, or itself.
LEMMA NewHasFirst ==
  ASSUME NEW h \in Seq(Entries), NEW e \in Entries,
         \A i \in 1..Len(h) : \E f \in 1..i : IsFirst(h, f, i)
  PROVE  LET n == Len(h)
             g == Append(h, e) IN
         \/ /\ IsFirst(g, n + 1, n + 1)
            /\ \A j \in 1..n : EntryKey(h[j]) # EntryKey(e)
         \/ \E j \in 1..n : \E f \in 1..j :
              /\ EntryKey(h[j]) = EntryKey(e)
              /\ IsFirst(h, f, j) /\ IsFirst(g, f, n + 1)
<1> DEFINE n == Len(h)
           g == Append(h, e)
<1>1. /\ n \in Nat /\ g[n + 1] = e
      /\ \A i \in 1..n : g[i] = h[i]
  BY HistoryGrows
<1> HIDE DEF n, g
<1>2. CASE \A j \in 1..n : EntryKey(h[j]) # EntryKey(e)
  <2>1. IsFirst(g, n + 1, n + 1)
    BY <1>1, <1>2 DEF IsFirst, EntryKey
  <2> QED
    BY <1>2, <2>1 DEF n, g
<1>3. CASE \E j \in 1..n : EntryKey(h[j]) = EntryKey(e)
  <2>1. PICK j \in 1..n : EntryKey(h[j]) = EntryKey(e)
    BY <1>3
  <2>2. PICK f \in 1..j : IsFirst(h, f, j)
    BY DEF n
  <2>3. /\ f \in 1..n /\ f \in 1..(n + 1) /\ g[f] = h[f]
        /\ \A k \in 1..(f - 1) : g[k] = h[k]
    BY <1>1, <2>2
  <2>4. IsFirst(g, f, n + 1)
    BY <1>1, <2>1, <2>2, <2>3 DEF IsFirst, EntryKey
  <2> QED
    BY <2>1, <2>2, <2>4 DEF n, g
<1> QED
  BY <1>2, <1>3

\* Whether an earlier call was counted does not change.
LEMMA CountedStays ==
  ASSUME NEW h \in Seq(Entries), NEW e \in Entries, NEW i \in 1..Len(h),
         NEW f \in 1..i, IsFirst(h, f, i)
  PROVE  CountedIn(Append(h, e), i) <=> CountedIn(h, i)
<1> DEFINE g == Append(h, e)
<1>1. i \in Nat /\ f - 1 \in 0..Len(h) /\ Len(h) \in Nat
  BY HistoryGrows
<1>2. IsFirst(g, f, i) /\ Failures(g, f - 1) = Failures(h, f - 1)
  BY <1>1, HistoryGrows
<1>3. CountedIn(h, i) <=> Cardinality(Failures(h, f - 1)) < MaxKeys
  BY <1>1, CountedByFirst
<1> HIDE DEF g
<1>4. CountedIn(g, i) <=> Cardinality(Failures(g, f - 1)) < MaxKeys
  BY <1>1, <1>2, CountedByFirst
<1> QED
  BY <1>2, <1>3, <1>4 DEF g

\* What WasCounted says, now and after a step.
LEMMA WasCountedIs ==
  \A i : (WasCounted(i) <=> CountedIn(history, i)) /\ (WasCounted(i)' <=> CountedIn(history', i))
  BY DEF WasCounted, CountedIn, Failures

\* The entry of a call is typed and carries its key.
LEMMA EntryIsTyped ==
  ASSUME NEW cap \in Capabilities, NEW path \in Paths \cup {"-"}, NEW arg \in Arguments,
         NEW result \in CallOutcomes
  PROVE  LET e == Entry(cap, path, arg, result,
                        Summary(obs, cap, path, Key(cap, path, arg, result), result))
         IN  /\ e \in Entries /\ EntryKey(e) = Key(cap, path, arg, result)
             /\ e.cap = cap /\ e.path = path /\ e.result = result
  BY DEF Entry, Entries, Told, Summary, EntryKey, Key

\* Calls with the same key failed alike.
LEMMA SameKeyFailsAlike ==
  ASSUME NEW d, NEW e, EntryKey(d) = EntryKey(e)
  PROVE  d.result = e.result /\ (Failed(d.result) <=> Failed(e.result))
  BY DEF EntryKey, Key

\* A failure is remembered when it repeats one of the first MaxKeys; a new one
\* is among them when there is room.
LEMMA RememberedIsCounted ==
  ASSUME CallsTyped, SignaturesKept, NEW e \in Entries, Failed(e.result)
  PROVE  LET n == Len(history)
             g == Append(history, e)
             like == \E j \in 1..n : EntryKey(history[j]) = EntryKey(e)
             room == Cardinality(RememberedKeys) < MaxKeys IN
         /\ EntryKey(e) \in RememberedKeys => CountedIn(g, n + 1) /\ like
         /\ EntryKey(e) \notin RememberedKeys /\ room => CountedIn(g, n + 1) /\ ~like
         /\ EntryKey(e) \notin RememberedKeys /\ ~room => ~CountedIn(g, n + 1)
<1> DEFINE n == Len(history)
           g == Append(history, e)
           like == \E j \in 1..n : EntryKey(history[j]) = EntryKey(e)
<1>0. /\ history \in Seq(Entries) /\ n \in Nat
      /\ \A i \in 1..n : \E f \in 1..i : IsFirst(history, f, i)
      /\ \A m \in 0..n : Failures(g, m) = Failures(history, m)
  BY HistoryGrows DEF CallsTyped
<1>1. IsFiniteSet(Failures(history, n)) /\ RememberedKeys \subseteq Failures(history, n)
  BY DEF CallsTyped, SignaturesKept
<1>2. /\ IsFiniteSet(RememberedKeys) /\ Cardinality(RememberedKeys) \in Nat
      /\ Cardinality(Failures(history, n)) \in Nat
      /\ Cardinality(RememberedKeys) <= Cardinality(Failures(history, n))
  BY <1>1, FS_Subset, FS_CardinalityType
<1>3. ASSUME NEW j \in 1..n, EntryKey(history[j]) = EntryKey(e)
      PROVE  EntryKey(e) \in Failures(history, n)
  <2>1. Failed(history[j].result)
    BY <1>3, SameKeyFailsAlike
  <2> QED
    BY <1>3, <2>1 DEF Failures
<1>4. ASSUME EntryKey(e) \in Failures(history, n) PROVE like
  BY <1>4 DEF Failures
<1>5. CASE \E j \in 1..n : \E f \in 1..j :
              /\ EntryKey(history[j]) = EntryKey(e)
              /\ IsFirst(history, f, j) /\ IsFirst(g, f, n + 1)
  <2>1. PICK j \in 1..n : \E f \in 1..j :
              /\ EntryKey(history[j]) = EntryKey(e)
              /\ IsFirst(history, f, j) /\ IsFirst(g, f, n + 1)
    BY <1>5
  <2>2. PICK f \in 1..j :
              /\ EntryKey(history[j]) = EntryKey(e)
              /\ IsFirst(history, f, j) /\ IsFirst(g, f, n + 1)
    BY <2>1
  <2>3. f \in 1..(n + 1) /\ f - 1 \in 0..n /\ j \in Nat /\ n + 1 \in Nat
    BY <1>0
  <2>4. CountedIn(g, n + 1) <=> Cardinality(Failures(g, f - 1)) < MaxKeys
    <3> HIDE DEF g, n
    <3> QED
      BY <2>2, <2>3, CountedByFirst
  <2>5. CountedIn(history, j) <=> Cardinality(Failures(history, f - 1)) < MaxKeys
    BY <2>2, <2>3, CountedByFirst
  <2>6. Failed(history[j].result)
    BY <2>2, SameKeyFailsAlike
  <2>7. EntryKey(history[j]) \in RememberedKeys <=> CountedIn(history, j)
    BY <2>6, WasCountedIs DEF SignaturesKept
  <2>8. EntryKey(e) \in RememberedKeys <=> CountedIn(g, n + 1)
    BY <1>0, <2>2, <2>3, <2>4, <2>5, <2>7
  <2>9. EntryKey(e) \in Failures(history, n) /\ like
    BY <1>3, <2>2
  <2> QED
    BY <2>8, <2>9 DEF SignaturesKept
<1>6. CASE /\ IsFirst(g, n + 1, n + 1)
           /\ \A j \in 1..n : EntryKey(history[j]) # EntryKey(e)
  <2>1. ~like /\ EntryKey(e) \notin Failures(history, n) /\ EntryKey(e) \notin RememberedKeys
    BY <1>1, <1>4, <1>6
  <2>2. n + 1 \in 1..(n + 1) /\ n + 1 \in Nat /\ (n + 1) - 1 = n
    BY <1>0
  <2>3. CountedIn(g, n + 1) <=> Cardinality(Failures(g, n)) < MaxKeys
    <3> HIDE DEF g, n
    <3> QED
      BY <1>6, <2>2, CountedByFirst
  <2>4. CountedIn(g, n + 1) <=> Cardinality(Failures(history, n)) < MaxKeys
    BY <1>0, <2>3
  <2>5. Cardinality(RememberedKeys) < MaxKeys => RememberedKeys = Failures(history, n)
    BY DEF SignaturesKept
  <2> QED
    BY <1>2, <2>1, <2>4, <2>5, ToolCallsAssumption
<1> QED
  BY <1>0, <1>5, <1>6, NewHasFirst

\* What the observer remembers after a call.
LEMMA SignaturesAfter ==
  ASSUME SignaturesKept, NEW key
  PROVE  LET s == Signatures(obs, key) IN
         /\ \A k \in DOMAIN s : s[k] \in 1..MaxRepeat
         /\ DOMAIN s = IF key \in RememberedKeys \/ ~(Cardinality(RememberedKeys) < MaxKeys)
                         THEN RememberedKeys ELSE RememberedKeys \cup {key}
<1>1. CASE key \in RememberedKeys
  <2>1. Bounded(obs.signatures[key]) \in 1..MaxRepeat
    BY <1>1, ToolCallsAssumption DEF Bounded, SignaturesKept
  <2>2. Signatures(obs, key) = [obs.signatures EXCEPT ![key] = Bounded(obs.signatures[key])]
    BY <1>1 DEF Signatures, Remembered, RememberedKeys
  <2> QED
    BY <1>1, <2>1, <2>2 DEF SignaturesKept, RememberedKeys
<1>2. CASE key \notin RememberedKeys /\ Cardinality(RememberedKeys) < MaxKeys
  <2>1. Signatures(obs, key) = [k \in RememberedKeys \cup {key} |->
                                  IF k = key THEN 1 ELSE obs.signatures[k]]
    BY <1>2 DEF Signatures, Remembered, RememberedKeys
  <2> QED
    BY <1>2, <2>1, ToolCallsAssumption DEF SignaturesKept
<1>3. CASE key \notin RememberedKeys /\ ~(Cardinality(RememberedKeys) < MaxKeys)
  <2>1. Signatures(obs, key) = obs.signatures
    BY <1>3 DEF Signatures, Remembered, RememberedKeys
  <2> QED
    BY <1>3, <2>1 DEF SignaturesKept, RememberedKeys
<1> QED
  BY <1>1, <1>2, <1>3

\* A repeated failure counts as the second or a later one, a new one as the first.
LEMMA ExactSaysRepeated ==
  ASSUME SignaturesKept, NEW key
  PROVE  Exact(obs, key) >= 2 <=> key \in RememberedKeys
<1>1. CASE key \in RememberedKeys
  BY <1>1, ToolCallsAssumption DEF Exact, Remembered, RememberedKeys, Bounded, SignaturesKept
<1>2. CASE key \notin RememberedKeys
  BY <1>2 DEF Exact, Remembered, RememberedKeys
<1> QED
  BY <1>1, <1>2

\* A call is alike the one before when that was an edit of the same file that
\* failed the same way.
LEMMA AlikeIsLast ==
  ASSUME CallsTyped, RunKept, NEW cap, NEW path, NEW result
  PROVE  Alike(obs, cap, path, result) <=>
           /\ EditFailed(cap, result) /\ Len(history) > 0
           /\ LastCall.cap = cap /\ LastCall.path = path /\ LastCall.result = result
<1> DEFINE like == LastCall.cap = cap /\ LastCall.path = path /\ LastCall.result = result
<1>1. CASE Len(history) > 0 /\ EditFailed(LastCall.cap, LastCall.result)
  <2>1. obs.lastSimilar = Similar(cap, path, result) <=> like
    BY <1>1 DEF RunKept, Similar
  <2>2. Bounded(obs.similar) >= 2
    BY <1>1, ToolCallsAssumption DEF RunKept, Bounded
  <2>3. EditFailed(cap, result) => SimilarRun(obs, cap, path, result)[2] =
           IF obs.lastSimilar = Similar(cap, path, result) THEN Bounded(obs.similar) ELSE 1
    BY DEF SimilarRun
  <2>4. EditFailed(cap, result) => (SimilarRun(obs, cap, path, result)[2] >= 2 <=> like)
    BY <2>1, <2>2, <2>3
  <2> QED
    BY <1>1, <2>4 DEF Alike
<1>2. CASE ~(Len(history) > 0 /\ EditFailed(LastCall.cap, LastCall.result))
  <2>1. obs.lastSimilar # Similar(cap, path, result)
    BY <1>2 DEF RunKept, NoFailure, Similar
  <2>2. ~Alike(obs, cap, path, result)
    BY <2>1 DEF Alike, SimilarRun
  <2>3. ~(EditFailed(cap, result) /\ Len(history) > 0 /\ like)
    BY <1>2
  <2> QED
    BY <2>2, <2>3
<1> QED
  BY <1>1, <1>2

\* A call preserves the invariant.
LEMMA ObserverCallStep ==
  ASSUME ToolInv, registered' = registered,
         NEW cap \in Capabilities, NEW path \in Paths \cup {"-"}, NEW arg \in Arguments,
         NEW result \in CallOutcomes, Called(cap, path, arg, result)
  PROVE  ToolInv'
<1> DEFINE key == Key(cap, path, arg, result)
           told == Summary(obs, cap, path, key, result)
           e == Entry(cap, path, arg, result, told)
           n == Len(history)
<1>1. /\ e \in Entries /\ EntryKey(e) = key /\ e.told = told
      /\ e.cap = cap /\ e.path = path /\ e.result = result
  BY EntryIsTyped DEF Entry
<1>2. /\ n < MaxCalls /\ history' = Append(history, e)
      /\ obs' = Decorated(obs, cap, path, key, result)
  BY DEF Called
<1>3. history \in Seq(Entries) /\ CallsTyped /\ SignaturesKept /\ RunKept /\ SignalIsRight
  BY DEF ToolInv, CallsTyped
<1>4. /\ told.required <=> \/ Failed(result) /\ Exact(obs, key) >= 2
                           \/ Alike(obs, cap, path, result)
  BY DEF Summary
<1> HIDE DEF key, told, e
<1>5. /\ history' \in Seq(Entries) /\ n \in Nat /\ Len(history') = n + 1 /\ history'[n + 1] = e
      /\ \A i \in 1..n : history'[i] = history[i]
      /\ Failures(history', n + 1) =
           IF Failed(result) THEN Failures(history, n) \cup {key} ELSE Failures(history, n)
      /\ \A i \in 1..n : \A f \in 1..i : IsFirst(history', f, i) <=> IsFirst(history, f, i)
  BY <1>1, <1>2, <1>3, HistoryGrows
<1>6. \A i \in 1..n : WasCounted(i)' <=> WasCounted(i)
  <2> SUFFICES ASSUME NEW i \in 1..n PROVE CountedIn(history', i) <=> CountedIn(history, i)
    BY WasCountedIs
  <2>1. PICK f \in 1..i : IsFirst(history, f, i)
    BY <1>3 DEF CallsTyped
  <2> QED
    BY <1>1, <1>2, <1>3, <2>1, CountedStays
<1>7. CallsTyped'
  <2>1. IsFiniteSet(Failures(history', n + 1))
    <3>1. IsFiniteSet(Failures(history, n))
      BY <1>3 DEF CallsTyped
    <3>2. IsFiniteSet(Failures(history, n) \cup {key})
      BY <3>1, FS_AddElement
    <3> QED
      BY <1>5, <3>1, <3>2
  <2>2. \A i \in 1..(n + 1) : \E f \in 1..i : IsFirst(history', f, i)
    <3> SUFFICES ASSUME NEW i \in 1..(n + 1) PROVE \E f \in 1..i : IsFirst(history', f, i)
      OBVIOUS
    <3>1. CASE i \in 1..n
      BY <1>3, <1>5, <3>1 DEF CallsTyped
    <3>2. CASE i = n + 1
      <4>1. \/ IsFirst(history', n + 1, n + 1)
            \/ \E j \in 1..n : \E f \in 1..j : IsFirst(history', f, n + 1)
        BY <1>1, <1>2, <1>3, NewHasFirst DEF CallsTyped
      <4>2. \A f : IsFirst(history', f, n + 1) => f \in 1..(n + 1)
        BY DEF IsFirst
      <4> QED
        BY <3>2, <4>1, <4>2
    <3> QED
      BY <1>5, <3>1, <3>2
  <2>3. obs'.index = n + 1 /\ obs'.mutation \in 0..(n + 1)
    BY <1>2, <1>3, <1>5 DEF Decorated, CallsTyped
  <2>4. n + 1 <= MaxCalls
    BY <1>2, <1>5, ToolCallsAssumption
  <2> QED
    BY <1>3, <1>5, <2>1, <2>2, <2>3, <2>4 DEF CallsTyped
<1>8. obs'.signatures = IF Failed(result) THEN Signatures(obs, key) ELSE obs.signatures
  BY <1>2 DEF Decorated
<1>9. SignaturesKept'
  <2> DEFINE room == Cardinality(RememberedKeys) < MaxKeys
  <2>0. RememberedKeys' = DOMAIN obs'.signatures
    BY DEF RememberedKeys
  <2>1. CASE ~Failed(result)
    <3>1. obs'.signatures = obs.signatures /\ RememberedKeys' = RememberedKeys
      BY <1>8, <2>0, <2>1 DEF RememberedKeys
    <3>2. Failures(history', n + 1) = Failures(history, n)
      BY <1>5, <2>1
    <3>3. ASSUME NEW i \in 1..(n + 1), Failed(history'[i].result)
          PROVE  EntryKey(history'[i]) \in RememberedKeys' <=> WasCounted(i)'
      <4>1. i \in 1..n
        BY <1>1, <1>5, <2>1, <3>3
      <4> QED
        BY <1>3, <1>5, <1>6, <3>1, <3>3, <4>1 DEF SignaturesKept
    <3> QED
      BY <1>3, <1>5, <3>1, <3>2, <3>3 DEF SignaturesKept
  <2>2. CASE Failed(result) /\ (key \in RememberedKeys \/ ~room)
    <3>1. /\ \A k \in RememberedKeys' : obs'.signatures[k] \in 1..MaxRepeat
          /\ RememberedKeys' = RememberedKeys
      BY <1>3, <1>8, <2>0, <2>2, SignaturesAfter
    <3>2. Failures(history', n + 1) = Failures(history, n) \cup {key}
      BY <1>5, <2>2
    <3>3. key \in RememberedKeys <=> CountedIn(history', n + 1)
      BY <1>1, <1>2, <1>3, <2>2, RememberedIsCounted
    <3>4. ASSUME NEW i \in 1..(n + 1), Failed(history'[i].result)
          PROVE  EntryKey(history'[i]) \in RememberedKeys' <=> WasCounted(i)'
      <4>1. CASE i \in 1..n
        BY <1>3, <1>5, <1>6, <3>1, <3>4, <4>1 DEF SignaturesKept
      <4>2. CASE i = n + 1
        BY <1>1, <1>5, <3>1, <3>3, <4>2, WasCountedIs
      <4> QED
        BY <1>5, <4>1, <4>2
    <3>5. Cardinality(RememberedKeys) < MaxKeys => RememberedKeys = Failures(history', n + 1)
      BY <1>3, <2>2, <3>2 DEF SignaturesKept
    <3> QED
      BY <1>3, <1>5, <3>1, <3>2, <3>4, <3>5 DEF SignaturesKept
  <2>3. CASE Failed(result) /\ key \notin RememberedKeys /\ room
    <3>1. /\ \A k \in RememberedKeys' : obs'.signatures[k] \in 1..MaxRepeat
          /\ RememberedKeys' = RememberedKeys \cup {key}
      BY <1>3, <1>8, <2>0, <2>3, SignaturesAfter
    <3>2. /\ RememberedKeys = Failures(history, n)
          /\ Failures(history', n + 1) = Failures(history, n) \cup {key}
      BY <1>3, <1>5, <2>3 DEF SignaturesKept
    <3>3. /\ CountedIn(history', n + 1)
          /\ \A j \in 1..n : EntryKey(history[j]) # key
      BY <1>1, <1>2, <1>3, <2>3, RememberedIsCounted
    <3>4. ASSUME NEW i \in 1..(n + 1), Failed(history'[i].result)
          PROVE  EntryKey(history'[i]) \in RememberedKeys' <=> WasCounted(i)'
      <4>1. CASE i \in 1..n
        BY <1>3, <1>5, <1>6, <3>1, <3>3, <3>4, <4>1 DEF SignaturesKept
      <4>2. CASE i = n + 1
        BY <1>1, <1>5, <3>1, <3>3, <4>2, WasCountedIs
      <4> QED
        BY <1>5, <4>1, <4>2
    <3>5. Cardinality(RememberedKeys') <= MaxKeys
      <4>1. IsFiniteSet(RememberedKeys) /\ Cardinality(RememberedKeys) \in Nat
        BY <1>3, <3>2, FS_CardinalityType DEF CallsTyped
      <4>2. Cardinality(RememberedKeys \cup {key}) = Cardinality(RememberedKeys) + 1
        BY <2>3, <4>1, FS_AddElement
      <4> QED
        BY <2>3, <3>1, <4>1, <4>2, ToolCallsAssumption
    <3> QED
      BY <1>3, <1>5, <3>1, <3>2, <3>4, <3>5 DEF SignaturesKept
  <2> QED
    BY <2>1, <2>2, <2>3
<1>10. RunKept'
  <2>1. LastCall' = e
    BY <1>5 DEF LastCall
  <2>2. /\ obs'.lastSimilar = SimilarRun(obs, cap, path, result)[1]
        /\ obs'.similar = SimilarRun(obs, cap, path, result)[2]
    BY <1>2 DEF Decorated
  <2>3. CASE EditFailed(cap, result)
    <3>1. obs'.lastSimilar = Similar(cap, path, result)
      BY <2>2, <2>3 DEF SimilarRun
    <3>2. obs'.similar = IF obs.lastSimilar = Similar(cap, path, result)
                           THEN Bounded(obs.similar) ELSE 1
      BY <2>2, <2>3 DEF SimilarRun
    <3>3. CASE obs.lastSimilar = Similar(cap, path, result)
      <4>1. obs.similar \in 1..MaxRepeat
        BY <1>3, <3>3 DEF RunKept, NoFailure, Similar
      <4> QED
        BY <1>1, <1>5, <2>1, <2>3, <3>1, <3>2, <3>3, <4>1, ToolCallsAssumption
        DEF RunKept, Bounded
    <3>4. CASE obs.lastSimilar # Similar(cap, path, result)
      BY <1>1, <1>5, <2>1, <2>3, <3>1, <3>2, <3>4, ToolCallsAssumption DEF RunKept
    <3> QED
      BY <3>3, <3>4
  <2>4. CASE ~EditFailed(cap, result)
    BY <1>1, <1>5, <2>1, <2>2, <2>4 DEF RunKept, SimilarRun
  <2> QED
    BY <2>3, <2>4
<1>11. SignalIsRight'
  <2> DEFINE like(i) == \E j \in 1..(i - 1) : EntryKey(history'[j]) = EntryKey(history'[i])
             last(i) == /\ i > 1 /\ history'[i].cap \in Edits
                        /\ history'[i - 1].cap = history'[i].cap
                        /\ history'[i - 1].path = history'[i].path
                        /\ history'[i - 1].result = history'[i].result
  <2> SUFFICES ASSUME NEW i \in 1..(n + 1)
               PROVE  history'[i].told.required <=>
                        /\ Failed(history'[i].result)
                        /\ (WasCounted(i)' /\ like(i)) \/ last(i)
    BY <1>5 DEF SignalIsRight
  <2>1. CASE i \in 1..n
    <3>1. /\ history'[i] = history[i]
          /\ \A j \in 1..(i - 1) : history'[j] = history[j]
          /\ i > 1 => history'[i - 1] = history[i - 1]
      BY <1>5, <2>1
    <3>2. history[i].told.required <=>
            /\ Failed(history[i].result)
            /\ \/ WasCounted(i) /\ \E j \in 1..(i-1) : EntryKey(history[j]) = EntryKey(history[i])
               \/ /\ i > 1 /\ history[i].cap \in Edits
                  /\ history[i-1].cap = history[i].cap
                  /\ history[i-1].path = history[i].path
                  /\ history[i-1].result = history[i].result
      BY <1>3, <2>1 DEF SignalIsRight
    <3> QED
      BY <1>6, <2>1, <3>1, <3>2
  <2>2. CASE i = n + 1
    <3>1. history'[i] = e /\ i - 1 = n
      BY <1>5, <2>2
    <3>2. like(i) <=> \E j \in 1..n : EntryKey(history[j]) = key
      BY <1>1, <1>5, <3>1
    <3>3. ASSUME Failed(result)
          PROVE  Exact(obs, key) >= 2 <=> WasCounted(i)' /\ like(i)
      <4>1. key \in RememberedKeys <=> CountedIn(history', n + 1) /\ like(i)
        BY <1>1, <1>2, <1>3, <3>2, <3>3, RememberedIsCounted
      <4> QED
        BY <1>3, <2>2, <4>1, ExactSaysRepeated, WasCountedIs
    <3>4. Alike(obs, cap, path, result) <=> Failed(result) /\ last(i)
      <4>1. n > 0 => history'[n] = LastCall
        BY <1>5 DEF LastCall
      <4> QED
        BY <1>1, <1>3, <1>5, <3>1, <4>1, AlikeIsLast DEF EditFailed
    <3>5. e.told.required <=> \/ Failed(result) /\ Exact(obs, key) >= 2
                              \/ Alike(obs, cap, path, result)
      BY <1>1, <1>4
    <3> HIDE DEF like, last
    <3> QED
      BY <1>1, <3>1, <3>3, <3>4, <3>5
  <2> QED
    BY <1>5, <2>1, <2>2
<1> QED
  BY <1>7, <1>9, <1>10, <1>11 DEF ToolInv

\* Every step of the attempt preserves the invariant.
LEMMA ObserverStep == ToolInv /\ [ToolNext]_toolVars => ToolInv'
<1>1. ASSUME ToolInv, ToolNext PROVE ToolInv'
  <2>1. PICK cap \in Capabilities, path \in Paths \cup {"-"}, arg \in Arguments,
             result \in CallOutcomes : Called(cap, path, arg, result)
    BY <1>1, StepIsCall
  <2>2. registered' = registered
    BY <1>1, StepIsCall
  <2> QED
    BY <1>1, <2>1, <2>2, ObserverCallStep
<1>2. ASSUME ToolInv, UNCHANGED toolVars PROVE ToolInv'
  <2>1. history' = history /\ obs' = obs /\ registered' = registered
    BY <1>2 DEF toolVars
  <2>2. \A i : WasCounted(i)' <=> WasCounted(i)
    BY <2>1, WasCountedIs
  <2>3. CallsTyped' /\ SignaturesKept' /\ RunKept'
    BY <1>2, <2>1, <2>2 DEF ToolInv, CallsTyped, SignaturesKept, RunKept, LastCall, RememberedKeys
  <2>4. SignalIsRight'
    BY <1>2, <2>1, <2>2 DEF ToolInv, SignalIsRight
  <2> QED
    BY <2>3, <2>4 DEF ToolInv
<1> QED
  BY <1>1, <1>2

\* The inductive invariant holds in every behaviour of the observer.
THEOREM ObserverInductive == ToolSpec => []ToolInv
  BY ObserverStart, ObserverStep, PTL DEF ToolSpec

\* ToolTypeOK: the observer's counters and its bounded memory.
THEOREM ObserverTypeCorrect == ToolSpec => []ToolTypeOK
<1>1. ToolInv => ToolTypeOK
  BY ToolCallsAssumption DEF ToolInv, CallsTyped, SignaturesKept, RememberedKeys, ToolTypeOK
<1> QED
  BY <1>1, ObserverInductive, PTL

\* The model is told to change its strategy exactly when it repeats a failure
\* that is being counted, or its last edit failed alike (decorate).
THEOREM SignalsAreRight == ToolSpec => []SignalIsRight
  BY ObserverInductive, PTL DEF ToolInv

-----------------------------------------------------------------------------
(***************************************************************************)
(* BenchmarkLauncher.  A launch that is past an identity file runs under   *)
(* the profile the file names, and a file that exists is never changed, so *)
(* that every record is of the pinned profile.  What the tracker and       *)
(* progress.json count is bounded by the records in the directory, with    *)
(* one to spare while a new record is not yet counted.                     *)
(***************************************************************************)

LauncherPlaces ==
  {"idle", "provider", "identity", "open", "seeded", "next", "run", "count", "finish", "summary"}
ProviderPinned == LauncherPlaces \ {"idle", "provider"}
BothPinned == ProviderPinned \ {"identity"}
Counting == {"seeded", "next", "run", "count", "finish", "summary"}

LaunchRecords ==
  [ pc : LauncherPlaces, profile : Profiles \cup {"none"}, resume : BOOLEAN,
    sel : SUBSET RunIds, todo : SUBSET RunIds, run : RunIds \cup {-1}, known : BOOLEAN,
    raised : BOOLEAN ]
Trackers == [ total : Nat, completed : Nat, valid : Nat, invalid : Nat, attempts : Nat ]
IdentityFiles == Profiles \cup {"none", "torn"}
ProgressFiles == [ state : {"none", "saved", "torn"}, of : Trackers ]
Summaries == [ valid : SUBSET RunIds, invalid : SUBSET RunIds ]
Bundles ==
  [ provider : IdentityFiles, identity : IdentityFiles,
    raw : [RunIds -> Profiles \cup {"none"}], invalid : [RunIds -> Profiles \cup {"none"}],
    collided : SUBSET RunIds, agg : SUBSET RunIds, torn : BOOLEAN,
    progress : ProgressFiles, summary : Summaries ]

LauncherTyped ==
  /\ launch \in LaunchRecords
  /\ launch.pc # "idle" => launch.profile \in Profiles
  /\ launch.pc \in {"run", "count"} => launch.run \in RunIds
  /\ tracker \in Trackers
  /\ bundle \in Bundles
  /\ launches \in Nat

Pinned ==
  /\ launch.pc \in ProviderPinned => bundle.provider = launch.profile
  /\ launch.pc \in BothPinned => bundle.identity = launch.profile

OnRecord == RawIds \cup InvalidIds

\* A record that was written by the current execution and not yet counted.
Uncounted == launch.pc = "count" /\ ~launch.known /\ HasRun(launch.run)

Backed ==
  /\ bundle.progress.of.completed <= Cardinality(OnRecord)
  /\ launch.pc \in Counting => tracker.completed <= Cardinality(OnRecord)
  /\ Uncounted => tracker.completed + 1 <= Cardinality(OnRecord)
  /\ launch.pc = "run" => (launch.known <=> HasRun(launch.run))

LauncherInv == LauncherTyped /\ Pinned /\ OneBenchmarkPerDirectory /\ Backed

\* Sets of run ids are finite, and a larger one has no fewer members.
LEMMA RunSets ==
  ASSUME NEW S \in SUBSET RunIds, NEW T \in SUBSET RunIds, S \subseteq T
  PROVE  /\ IsFiniteSet(S) /\ IsFiniteSet(T)
         /\ Cardinality(S) \in Nat /\ Cardinality(T) \in Nat
         /\ Cardinality(S) <= Cardinality(T)
<1>1. IsFiniteSet(S) /\ IsFiniteSet(T)
  BY LauncherConstants, FS_Subset
<1> QED
  BY <1>1, FS_Subset, FS_CardinalityType

\* What is recorded are run ids.
LEMMA RecordedRuns ==
  LauncherTyped => RawIds \subseteq RunIds /\ InvalidIds \subseteq RunIds /\ OnRecord \subseteq RunIds
  BY DEF LauncherTyped, Bundles, RawIds, InvalidIds, OnRecord

\* The empty directory: no record, no progress, no launch.
LEMMA LauncherStart == LauncherInit => LauncherInv
<1> SUFFICES ASSUME LauncherInit PROVE LauncherInv
  OBVIOUS
<1>1. NoLaunch \in LaunchRecords /\ NewTracker(0) \in Trackers
  BY DEF NoLaunch, LaunchRecords, LauncherPlaces, NewTracker, Trackers
<1>2. NoProgress \in ProgressFiles /\ bundle.summary \in Summaries
  BY <1>1 DEF NoProgress, ProgressFiles, LauncherInit, Summaries
<1>3. bundle \in Bundles
  BY <1>2 DEF LauncherInit, Bundles, IdentityFiles
<1>4. LauncherTyped
  BY <1>1, <1>3 DEF LauncherInit, LauncherTyped, NoLaunch
<1>5. Pinned /\ OneBenchmarkPerDirectory
  BY DEF LauncherInit, NoLaunch, Pinned, ProviderPinned, BothPinned, OneBenchmarkPerDirectory
<1>6. Cardinality(OnRecord) \in Nat
  BY <1>4, RecordedRuns, RunSets
<1>7. Backed
  BY <1>6 DEF LauncherInit, NoLaunch, NoProgress, NewTracker, Backed, Uncounted, Counting
<1> QED
  BY <1>4, <1>5, <1>7 DEF LauncherInv

\* Loading and seeding give a tracker that counts no more than the progress file,
\* or than the records, did.
LEMMA TrackerOpens ==
  ASSUME LauncherTyped, bundle.progress.of.completed <= Cardinality(OnRecord), NEW total \in Nat
  PROVE  /\ LoadExisting(total) \in Trackers
         /\ LoadExisting(total).completed <= Cardinality(OnRecord)
         /\ SeedFromFiles(LoadExisting(total)) \in Trackers
         /\ SeedFromFiles(LoadExisting(total)).completed <= Cardinality(OnRecord)
<1> DEFINE t == LoadExisting(total)
           A == RawIds \ InvalidIds
           valid == Least(t.total, Cardinality(A))
           invalid == Least(t.total - valid, Cardinality(InvalidIds))
<1>1. /\ Cardinality(OnRecord) \in Nat /\ Cardinality(A) \in Nat
      /\ Cardinality(InvalidIds) \in Nat /\ IsFiniteSet(A) /\ IsFiniteSet(InvalidIds)
  BY RecordedRuns, RunSets
<1>2. Cardinality(OnRecord) = Cardinality(A) + Cardinality(InvalidIds)
  <2>1. OnRecord = A \cup InvalidIds /\ A \cap InvalidIds = {}
    BY DEF OnRecord
  <2>2. Cardinality(A \cup InvalidIds)
          = Cardinality(A) + Cardinality(InvalidIds) - Cardinality(A \cap InvalidIds)
    BY <1>1, FS_Union
  <2>3. Cardinality(A \cap InvalidIds) = 0
    BY <2>1, FS_EmptySet
  <2> QED
    BY <1>1, <2>1, <2>2, <2>3
<1>3. bundle.progress.of \in Trackers
  BY DEF LauncherTyped, Bundles, ProgressFiles
<1>4. t \in Trackers /\ t.completed <= Cardinality(OnRecord)
  <2>1. CASE bundle.progress.state # "saved"
    BY <1>1, <2>1 DEF LoadExisting, NewTracker, Trackers
  <2>2. CASE bundle.progress.state = "saved"
    <3> DEFINE old == bundle.progress.of
               done == Least(old.completed, total)
               paid == IF old.attempts >= done THEN old.attempts ELSE done
    <3>1. t = [old EXCEPT !.total = total, !.completed = done, !.attempts = paid]
      BY <2>2 DEF LoadExisting
    <3>2. done \in Nat /\ paid \in Nat /\ done <= old.completed
      BY <1>3 DEF Trackers, Least
    <3> HIDE DEF t, done, paid
    <3>3. t \in Trackers /\ t.completed = done
      BY <1>3, <3>1, <3>2 DEF Trackers
    <3>4. old.completed \in Nat
      BY <1>3 DEF Trackers
    <3> QED
      BY <1>1, <3>2, <3>3, <3>4
  <2> QED
    BY <2>1, <2>2
<1>5. /\ valid \in Nat /\ valid <= t.total /\ valid <= Cardinality(A)
      /\ invalid \in Nat /\ invalid <= Cardinality(InvalidIds)
  BY <1>1, <1>4 DEF Trackers, Least
<1>6. SeedFromFiles(t) = [t EXCEPT !.valid = valid, !.invalid = invalid,
                                   !.completed = Least(t.total, valid + invalid)]
  BY DEF SeedFromFiles
<1> DEFINE done == Least(t.total, valid + invalid)
<1> HIDE DEF t, valid, invalid, A
<1>7. SeedFromFiles(t) \in Trackers /\ SeedFromFiles(t).completed <= valid + invalid
  <2>1. done \in Nat /\ done <= valid + invalid
    BY <1>4, <1>5 DEF Trackers, Least
  <2>2. SeedFromFiles(t) = [t EXCEPT !.valid = valid, !.invalid = invalid, !.completed = done]
    BY <1>6
  <2> HIDE DEF done
  <2> QED
    BY <1>4, <1>5, <2>1, <2>2 DEF Trackers
<1>8. SeedFromFiles(t).completed <= Cardinality(OnRecord)
  BY <1>1, <1>2, <1>5, <1>7 DEF Trackers
<1> QED
  BY <1>4, <1>7, <1>8 DEF t

\* A step that keeps the files of records keeps what is said of them.
LEMMA SameRecords ==
  ASSUME bundle'.raw = bundle.raw, bundle'.invalid = bundle.invalid,
         bundle'.collided = bundle.collided
  PROVE  RawIds' = RawIds /\ InvalidIds' = InvalidIds /\ OnRecord' = OnRecord
  BY DEF RawIds, InvalidIds, OnRecord

\* The end of a launch: nothing is running, the records stay, and progress.json
\* counts no more than before.
LEMMA LaunchEnds ==
  ASSUME LauncherInv, launch' = NoLaunch, bundle' \in Bundles, UNCHANGED << tracker, launches >>,
         bundle'.raw = bundle.raw, bundle'.invalid = bundle.invalid,
         bundle'.collided = bundle.collided,
         bundle.provider # "none" => bundle'.provider = bundle.provider,
         bundle.identity # "none" => bundle'.identity = bundle.identity,
         bundle'.progress.of.completed <= Cardinality(OnRecord)
  PROVE  LauncherInv'
<1>1. LauncherTyped'
  BY DEF LauncherInv, LauncherTyped, NoLaunch, LaunchRecords, LauncherPlaces
<1>2. Pinned'
  BY DEF NoLaunch, Pinned, ProviderPinned, BothPinned
<1>3. OneBenchmarkPerDirectory'
  BY DEF LauncherInv, OneBenchmarkPerDirectory
<1>4. Backed'
  BY SameRecords DEF NoLaunch, Backed, Uncounted, Counting
<1> QED
  BY <1>1, <1>2, <1>3, <1>4 DEF LauncherInv

\* An identity file is written when there is none, or is the launch's own.
LEMMA PinStep ==
  ASSUME LauncherInv, persist_provider_identity \/ PinBenchmarkIdentity
  PROVE  LauncherInv'
<1>1. CASE launch' = NoLaunch /\ bundle' = bundle
  <2>1. UNCHANGED << tracker, launches >>
    BY DEF persist_provider_identity, PinBenchmarkIdentity, PinIdentity
  <2> QED
    BY <1>1, <2>1, LaunchEnds DEF LauncherInv, LauncherTyped, Backed
<1>2. CASE persist_provider_identity /\ LauncherAt("identity")
  <2>1. /\ launch.pc = "provider" /\ launch' = [launch EXCEPT !.pc = "identity"]
        /\ UNCHANGED << tracker, launches >>
        /\ \/ bundle.provider = "none" /\ bundle' = [bundle EXCEPT !.provider = launch.profile]
           \/ bundle.provider = launch.profile /\ bundle' = bundle
    BY <1>2, LauncherConstants
    DEF persist_provider_identity, PinIdentity, LauncherAt, IdentityStands, NoLaunch,
        LauncherInv, LauncherTyped, LaunchRecords
  <2>2. launch' \in LaunchRecords /\ launch'.profile \in Profiles /\ launch'.pc = "identity"
    BY <2>1 DEF LauncherInv, LauncherTyped, LaunchRecords, LauncherPlaces
  <2>3. bundle' \in Bundles
    BY <2>1 DEF LauncherInv, LauncherTyped, Bundles, IdentityFiles
  <2>4. LauncherTyped'
    BY <2>1, <2>2, <2>3 DEF LauncherInv, LauncherTyped
  <2>5. Pinned'
    BY <2>1, <2>2 DEF Pinned, ProviderPinned, BothPinned, LauncherInv, LauncherTyped, Bundles,
       LaunchRecords
  <2>6. OneBenchmarkPerDirectory'
    BY <2>1 DEF OneBenchmarkPerDirectory, LauncherInv, LauncherTyped, Bundles
  <2>7. /\ bundle'.raw = bundle.raw /\ bundle'.invalid = bundle.invalid
        /\ bundle'.collided = bundle.collided /\ bundle'.progress = bundle.progress
    BY <2>1 DEF LauncherInv, LauncherTyped, Bundles
  <2>8. Backed'
    BY <2>2, <2>7, SameRecords DEF LauncherInv, Backed, Uncounted, Counting
  <2> QED
    BY <2>4, <2>5, <2>6, <2>8 DEF LauncherInv
<1>3. CASE PinBenchmarkIdentity /\ LauncherAt("open")
  <2>1. /\ launch.pc = "identity" /\ launch' = [launch EXCEPT !.pc = "open"]
        /\ UNCHANGED << tracker, launches >>
        /\ \/ bundle.identity = "none" /\ bundle' = [bundle EXCEPT !.identity = launch.profile]
           \/ bundle.identity = launch.profile /\ bundle' = bundle
    BY <1>3, LauncherConstants
    DEF PinBenchmarkIdentity, PinIdentity, LauncherAt, IdentityStands, NoLaunch,
        LauncherInv, LauncherTyped, LaunchRecords
  <2>2. launch' \in LaunchRecords /\ launch'.profile \in Profiles /\ launch'.pc = "open"
    BY <2>1 DEF LauncherInv, LauncherTyped, LaunchRecords, LauncherPlaces
  <2>3. bundle' \in Bundles
    BY <2>1 DEF LauncherInv, LauncherTyped, Bundles, IdentityFiles
  <2>4. LauncherTyped'
    BY <2>1, <2>2, <2>3 DEF LauncherInv, LauncherTyped
  <2>5. Pinned'
    BY <2>1, <2>2 DEF Pinned, ProviderPinned, BothPinned, LauncherPlaces, LauncherInv,
       LauncherTyped, Bundles, LaunchRecords
  <2>6. OneBenchmarkPerDirectory'
    BY <2>1 DEF OneBenchmarkPerDirectory, LauncherInv, LauncherTyped, Bundles
  <2>7. /\ bundle'.raw = bundle.raw /\ bundle'.invalid = bundle.invalid
        /\ bundle'.collided = bundle.collided /\ bundle'.progress = bundle.progress
    BY <2>1 DEF LauncherInv, LauncherTyped, Bundles
  <2>8. Backed'
    BY <2>2, <2>7, SameRecords DEF LauncherInv, Backed, Uncounted, Counting
  <2> QED
    BY <2>4, <2>5, <2>6, <2>8 DEF LauncherInv
<1> QED
  BY <1>1, <1>2, <1>3 DEF persist_provider_identity, PinBenchmarkIdentity, PinIdentity

\* An execution: at most the current run gets a record, of the launch's profile.
LEMMA RunStep ==
  ASSUME LauncherInv, RunNew \/ RunAgain
  PROVE  LauncherInv'
<1>1. /\ launch.pc = "run" /\ launch.run \in RunIds /\ launch.profile \in Profiles
      /\ UNCHANGED << tracker, launches >>
      /\ \/ launch' = [launch EXCEPT !.pc = "count"]
         \/ launch' = [launch EXCEPT !.pc = "count", !.raised = TRUE]
  BY DEF LauncherInv, LauncherTyped, RunNew, RunAgain, LauncherAt
<1>2. /\ launch' \in LaunchRecords /\ launch'.pc = "count" /\ launch'.profile = launch.profile
      /\ launch'.run = launch.run /\ launch'.known = launch.known
  BY <1>1 DEF LauncherInv, LauncherTyped, LaunchRecords, LauncherPlaces
<1>3. /\ bundle' \in Bundles
      /\ bundle'.provider = bundle.provider /\ bundle'.identity = bundle.identity
      /\ bundle'.progress = bundle.progress
      /\ \A r \in RunIds : bundle'.raw[r] \in {bundle.raw[r], launch.profile}
      /\ \A r \in RunIds : bundle'.invalid[r] \in {bundle.invalid[r], launch.profile}
  <2>1. RawIds \cup {launch.run} \in SUBSET RunIds
    BY <1>1, RecordedRuns DEF LauncherInv
  <2> QED
    <3>0. bundle \in Bundles /\ launch.profile \in Profiles \cup {"none"}
      BY <1>1 DEF LauncherInv, LauncherTyped
    <3>1. CASE bundle' = bundle
      BY <3>0, <3>1 DEF Bundles
    <3>2. CASE bundle' = [bundle EXCEPT !.raw[launch.run] = launch.profile,
                                        !.agg = RawIds \cup {launch.run}]
      BY <1>1, <2>1, <3>0, <3>2 DEF Bundles
    <3>3. CASE bundle' = [bundle EXCEPT !.invalid[launch.run] = launch.profile]
      BY <1>1, <3>0, <3>3 DEF Bundles
    <3>4. CASE bundle' = [bundle EXCEPT !.collided = @ \cup {launch.run}]
      BY <1>1, <3>0, <3>4 DEF Bundles
    <3> QED
      BY <3>1, <3>2, <3>3, <3>4 DEF RunNew, RunAgain
<1>4. \/ OnRecord' = OnRecord
      \/ ~launch.known /\ OnRecord' = OnRecord \cup {launch.run}
  <2>1. CASE RunNew
    <3>1. CASE bundle' = bundle
      BY <3>1 DEF OnRecord, RawIds, InvalidIds
    <3>2. CASE bundle' = [bundle EXCEPT !.raw[launch.run] = launch.profile,
                                        !.agg = RawIds \cup {launch.run}]
      <4>1. RawIds' = RawIds \cup {launch.run} /\ InvalidIds' = InvalidIds
        BY <1>1, <3>2, LauncherConstants DEF LauncherInv, LauncherTyped, Bundles, RawIds, InvalidIds
      <4> QED
        BY <2>1, <4>1 DEF OnRecord, RunNew
    <3>3. CASE bundle' = [bundle EXCEPT !.invalid[launch.run] = launch.profile]
      <4>1. RawIds' = RawIds /\ InvalidIds' = InvalidIds \cup {launch.run}
        BY <1>1, <3>3, LauncherConstants DEF LauncherInv, LauncherTyped, Bundles, RawIds, InvalidIds
      <4> QED
        BY <2>1, <4>1 DEF OnRecord, RunNew
    <3> QED
      BY <2>1, <3>1, <3>2, <3>3 DEF RunNew
  <2>2. CASE RunAgain
    <3>1. launch.run \in OnRecord
      BY <1>1, <2>2 DEF LauncherInv, Backed, RunAgain, HasRun, OnRecord
    <3>2. CASE bundle' = bundle
      BY <3>2 DEF OnRecord, RawIds, InvalidIds
    <3>3. CASE bundle' = [bundle EXCEPT !.collided = @ \cup {launch.run}]
      <4>1. RawIds' = RawIds /\ InvalidIds' = InvalidIds \cup {launch.run}
        BY <1>1, <3>3 DEF LauncherInv, LauncherTyped, Bundles, RawIds, InvalidIds
      <4> QED
        BY <3>1, <4>1 DEF OnRecord
    <3> QED
      BY <2>2, <3>2, <3>3 DEF RunAgain
  <2> QED
    BY <2>1, <2>2
<1>5. LauncherTyped'
  BY <1>1, <1>2, <1>3 DEF LauncherInv, LauncherTyped
<1>6. Pinned'
  BY <1>1, <1>2, <1>3 DEF LauncherInv, Pinned, ProviderPinned, BothPinned, LauncherPlaces
<1>7. OneBenchmarkPerDirectory'
  <2>1. bundle.provider = launch.profile /\ bundle.identity = launch.profile
    BY <1>1 DEF LauncherInv, Pinned, ProviderPinned, BothPinned, LauncherPlaces
  <2> QED
    BY <1>3, <2>1 DEF LauncherInv, OneBenchmarkPerDirectory
<1>8. Backed'
  <2>1. /\ OnRecord \in SUBSET RunIds /\ OnRecord' \in SUBSET RunIds
        /\ OnRecord \subseteq OnRecord'
    BY <1>1, <1>4, RecordedRuns DEF LauncherInv
  <2>2. /\ IsFiniteSet(OnRecord)
        /\ Cardinality(OnRecord) \in Nat /\ Cardinality(OnRecord') \in Nat
        /\ Cardinality(OnRecord) <= Cardinality(OnRecord')
    BY <2>1, RunSets
  <2>3. ~launch.known => launch.run \notin OnRecord
    BY <1>1 DEF LauncherInv, Backed, HasRun, OnRecord
  <2>4. ASSUME Uncounted' PROVE tracker.completed + 1 <= Cardinality(OnRecord')
    <3>1. ~launch.known /\ launch.run \in OnRecord'
      BY <1>2, <2>4 DEF Uncounted, HasRun, OnRecord
    <3>2. OnRecord' = OnRecord \cup {launch.run}
      BY <1>4, <2>3, <3>1
    <3>3. Cardinality(OnRecord') = Cardinality(OnRecord) + 1
      BY <2>2, <2>3, <3>1, <3>2, FS_AddElement
    <3> QED
      BY <1>1, <2>2, <3>3 DEF LauncherInv, LauncherTyped, Backed, Counting, Trackers
  <2>5. tracker.completed \in Nat /\ bundle.progress.of.completed \in Nat
    BY DEF LauncherInv, LauncherTyped, Trackers, Bundles, ProgressFiles
  <2>6. /\ tracker.completed <= Cardinality(OnRecord')
        /\ bundle.progress.of.completed <= Cardinality(OnRecord')
    BY <1>1, <2>2, <2>5 DEF LauncherInv, Backed, Counting
  <2> QED
    BY <1>1, <1>2, <1>3, <2>4, <2>6 DEF Backed
<1> QED
  BY <1>5, <1>6, <1>7, <1>8 DEF LauncherInv

\* Counting a returned execution adds at most one, and only for a record that was
\* not counted.
LEMMA CountStep ==
  ASSUME LauncherInv, CountResult
  PROVE  LauncherInv'
<1>1. /\ launch.pc = "count" /\ launch' = [launch EXCEPT !.pc = "next"] /\ launches' = launches
      /\ bundle' = [bundle EXCEPT !.progress = Saved(tracker')]
  BY DEF CountResult, LauncherAt
<1>2. /\ launch' \in LaunchRecords /\ launch'.pc = "next" /\ launch'.profile = launch.profile
      /\ launch.profile \in Profiles
  BY <1>1 DEF LauncherInv, LauncherTyped, LaunchRecords, LauncherPlaces
<1>3. tracker \in Trackers /\ bundle \in Bundles /\ Cardinality(OnRecord) \in Nat
  BY RecordedRuns, RunSets DEF LauncherInv, LauncherTyped
<1>4. tracker' \in Trackers /\ tracker'.completed <= Cardinality(OnRecord)
  <2> DEFINE n == [tracker EXCEPT !.attempts = @ + 1]
  <2>0. tracker.completed <= Cardinality(OnRecord)
    BY <1>1 DEF LauncherInv, Backed, Counting
  <2>1. CASE tracker' = n
    BY <1>3, <2>0, <2>1 DEF Trackers
  <2>2. CASE /\ ResultAdded
             /\ \/ tracker' = [n EXCEPT !.completed = Least(tracker.total, @ + 1),
                                        !.valid = @ + 1]
                \/ tracker' = [n EXCEPT !.completed = Least(tracker.total, @ + 1),
                                        !.invalid = @ + 1]
    <3>1. tracker.completed + 1 <= Cardinality(OnRecord)
      BY <1>1, <2>2 DEF LauncherInv, Backed, Uncounted, ResultAdded
    <3> DEFINE done == Least(tracker.total, tracker.completed + 1)
    <3>2. done \in Nat /\ done <= tracker.completed + 1
      BY <1>3 DEF Trackers, Least
    <3>3. n \in Trackers /\ n.completed = tracker.completed
      BY <1>3 DEF Trackers
    <3>4. \/ tracker' = [n EXCEPT !.completed = done, !.valid = @ + 1]
          \/ tracker' = [n EXCEPT !.completed = done, !.invalid = @ + 1]
      BY <2>2, <3>3
    <3> DEFINE v == n.valid + 1
               i == n.invalid + 1
    <3>5. v \in Nat /\ i \in Nat
      BY <3>3 DEF Trackers
    <3>6. \/ tracker' = [n EXCEPT !.completed = done, !.valid = v]
          \/ tracker' = [n EXCEPT !.completed = done, !.invalid = i]
      BY <3>4
    <3> HIDE DEF done, n, v, i
    <3>7. tracker' \in Trackers /\ tracker'.completed = done
      BY <3>2, <3>3, <3>5, <3>6 DEF Trackers
    <3>8. tracker.completed \in Nat
      BY <1>3 DEF Trackers
    <3> QED
      BY <1>3, <3>1, <3>2, <3>7, <3>8
  <2>3. \/ tracker' = n
        \/ /\ ResultAdded
           /\ \E valid \in BOOLEAN :
                tracker' = [n EXCEPT !.completed = Least(tracker.total, @ + 1),
                                     !.valid = IF valid THEN @ + 1 ELSE @,
                                     !.invalid = IF valid THEN @ ELSE @ + 1]
    <3>1. CASE launch.raised
      BY <3>1 DEF CountResult, RecordResult
    <3>2. CASE ~launch.raised
      <4> DEFINE more == Cardinality(RawIds) > tracker.valid
      <4>1. tracker' = RecordResult(tracker, more, ResultAdded)
        BY <3>2 DEF CountResult
      <4> HIDE DEF more
      <4>2. CASE ~ResultAdded
        BY <4>1, <4>2 DEF RecordResult
      <4>3. CASE ResultAdded
        <5>1. tracker' = [n EXCEPT !.completed = Least(tracker.total, @ + 1),
                                   !.valid = IF more THEN @ + 1 ELSE @,
                                   !.invalid = IF more THEN @ ELSE @ + 1]
          BY <4>1, <4>3 DEF RecordResult
        <5> QED
          BY <4>3, <5>1
      <4> QED
        BY <4>2, <4>3
    <3> QED
      BY <3>1, <3>2
  <2> QED
    BY <2>1, <2>2, <2>3, <1>3 DEF Trackers
<1>5. Saved(tracker') \in ProgressFiles /\ Saved(tracker').of = tracker'
  BY <1>4 DEF Saved, ProgressFiles
<1>6. /\ bundle' \in Bundles
      /\ bundle'.provider = bundle.provider /\ bundle'.identity = bundle.identity
      /\ bundle'.raw = bundle.raw /\ bundle'.invalid = bundle.invalid
      /\ bundle'.collided = bundle.collided /\ bundle'.progress.of = tracker'
  BY <1>1, <1>3, <1>5 DEF Bundles
<1>7. LauncherTyped'
  BY <1>1, <1>2, <1>4, <1>6 DEF LauncherInv, LauncherTyped
<1>8. Pinned'
  BY <1>1, <1>2, <1>6 DEF LauncherInv, Pinned, ProviderPinned, BothPinned, LauncherPlaces
<1>9. OneBenchmarkPerDirectory'
  BY <1>6 DEF LauncherInv, OneBenchmarkPerDirectory
<1>10. Backed'
  BY <1>2, <1>4, <1>6, SameRecords DEF LauncherInv, Backed, Uncounted
<1> QED
  BY <1>7, <1>8, <1>9, <1>10 DEF LauncherInv

\* The other steps of a launch leave the records alone.
LEMMA DriveStep ==
  ASSUME LauncherInv,
         Launch \/ OpenBundle \/ SaveSeed \/ NextSpec \/ FinishLaunch
  PROVE  LauncherInv'
<1>0. /\ tracker \in Trackers /\ bundle \in Bundles /\ launch \in LaunchRecords
      /\ launches \in Nat /\ Cardinality(OnRecord) \in Nat
      /\ bundle.progress.of.completed <= Cardinality(OnRecord)
  BY RecordedRuns, RunSets DEF LauncherInv, LauncherTyped, Backed
<1>1. CASE Launch
  <2>1. PICK p \in Profiles, s \in Selections, b \in BOOLEAN :
          launch' = [NoLaunch EXCEPT !.pc = "provider", !.profile = p, !.resume = b, !.sel = s]
    BY <1>1 DEF Launch
  <2>2. launch' \in LaunchRecords /\ launch'.pc = "provider" /\ launch'.profile \in Profiles
    <3>1. launch' = [pc |-> "provider", profile |-> p, resume |-> b, sel |-> s, todo |-> {},
                     run |-> -1, known |-> FALSE, raised |-> FALSE]
      BY <2>1 DEF NoLaunch
    <3>2. s \in SUBSET RunIds
      BY LauncherConstants
    <3>3. launch' \in LaunchRecords
      BY <3>1, <3>2 DEF LaunchRecords, LauncherPlaces
    <3> QED
      BY <3>1, <3>3
  <2>3. bundle' = bundle /\ tracker' = tracker /\ launches' \in Nat
    <3>1. bundle' = bundle /\ tracker' = tracker /\ launches' = launches + 1
      BY <1>1 DEF Launch
    <3> QED
      BY <1>0, <3>1
  <2>4. LauncherTyped' /\ Pinned' /\ OneBenchmarkPerDirectory'
    BY <2>2, <2>3, <1>0
    DEF LauncherInv, LauncherTyped, Pinned, ProviderPinned, BothPinned, OneBenchmarkPerDirectory
  <2>5. Backed'
    BY <1>0, <2>2, <2>3, SameRecords DEF Backed, Uncounted, Counting
  <2> QED
    BY <2>4, <2>5 DEF LauncherInv
<1>2. CASE OpenBundle
  <2>1. CASE bundle.torn
    <3>1. launch' = NoLaunch /\ UNCHANGED << tracker, bundle, launches >>
      BY <1>2, <2>1 DEF OpenBundle
    <3> QED
      BY <1>0, <3>1, LaunchEnds
  <2>2. CASE ~bundle.torn
    <3> DEFINE total == Cardinality(launch.sel)
    <3>1. total \in Nat
      BY <1>0, RunSets DEF LaunchRecords
    <3>2. /\ launch.pc = "open" /\ UNCHANGED << bundle, launches >>
          /\ \/ tracker' = LoadExisting(total) \/ tracker' = SeedFromFiles(LoadExisting(total))
      BY <1>2, <2>2 DEF OpenBundle
    <3>3. launch' = [launch EXCEPT
                       !.pc = IF launch.resume THEN "seeded" ELSE "next",
                       !.todo = IF launch.resume THEN { r \in launch.sel : ~HasRun(r) }
                                ELSE launch.sel]
      BY <1>2, <2>2 DEF OpenBundle
    <3>4. /\ launch' \in LaunchRecords /\ launch'.pc \in {"seeded", "next"}
          /\ launch'.profile = launch.profile
      BY <1>0, <3>3 DEF LaunchRecords, LauncherPlaces
    <3>5. launch.profile \in Profiles
      BY <3>2 DEF LauncherInv, LauncherTyped
    <3>6. tracker' \in Trackers /\ tracker'.completed <= Cardinality(OnRecord)
      BY <1>0, <3>1, <3>2, TrackerOpens DEF LauncherInv
    <3>7. LauncherTyped'
      BY <1>0, <3>2, <3>4, <3>5, <3>6 DEF LauncherTyped
    <3>8. Pinned' /\ OneBenchmarkPerDirectory'
      BY <3>2, <3>4
      DEF LauncherInv, Pinned, ProviderPinned, BothPinned, LauncherPlaces, OneBenchmarkPerDirectory
    <3>9. Backed'
      BY <1>0, <3>2, <3>4, <3>6, SameRecords DEF Backed, Uncounted
    <3> QED
      BY <3>7, <3>8, <3>9 DEF LauncherInv
  <2> QED
    BY <2>1, <2>2
<1>3. CASE NextSpec
  <2>1. /\ launch.pc = "next" /\ UNCHANGED << tracker, bundle, launches >>
        /\ \/ launch' = [launch EXCEPT !.pc = "finish"]
           \/ \E r \in launch.todo :
                launch' = [launch EXCEPT !.pc = "run", !.run = r, !.todo = @ \ {r},
                                         !.known = HasRun(r), !.raised = FALSE]
    BY <1>3 DEF NextSpec, LauncherAt
  <2>2. /\ launch' \in LaunchRecords /\ launch'.profile = launch.profile
        /\ \/ launch'.pc = "finish"
           \/ launch'.pc = "run" /\ launch'.run \in RunIds /\ (launch'.known <=> HasRun(launch'.run))
    <3>1. CASE launch' = [launch EXCEPT !.pc = "finish"]
      BY <1>0, <3>1 DEF LaunchRecords, LauncherPlaces
    <3>2. CASE \E r \in launch.todo :
                launch' = [launch EXCEPT !.pc = "run", !.run = r, !.todo = @ \ {r},
                                         !.known = HasRun(r), !.raised = FALSE]
      <4>1. PICK r \in launch.todo :
              launch' = [launch EXCEPT !.pc = "run", !.run = r, !.todo = @ \ {r},
                                       !.known = HasRun(r), !.raised = FALSE]
        BY <3>2
      <4> DEFINE old == HasRun(r)
      <4>2. old \in BOOLEAN /\ (old <=> HasRun(r)) /\ r \in RunIds
        BY <1>0 DEF HasRun, LaunchRecords
      <4>3. launch' = [launch EXCEPT !.pc = "run", !.run = r, !.todo = @ \ {r},
                                     !.known = old, !.raised = FALSE]
        BY <4>1
      <4> HIDE DEF old
      <4>4. /\ launch' \in LaunchRecords /\ launch'.profile = launch.profile
            /\ launch'.pc = "run" /\ launch'.run = r /\ launch'.known = old
        BY <1>0, <4>2, <4>3 DEF LaunchRecords, LauncherPlaces
      <4> QED
        BY <4>2, <4>4
    <3> QED
      BY <2>1, <3>1, <3>2
  <2>3. LauncherTyped'
    BY <1>0, <2>1, <2>2 DEF LauncherInv, LauncherTyped
  <2>4. Pinned' /\ OneBenchmarkPerDirectory'
    BY <2>1, <2>2
    DEF LauncherInv, Pinned, ProviderPinned, BothPinned, LauncherPlaces, OneBenchmarkPerDirectory
  <2>5. RawIds' = RawIds /\ InvalidIds' = InvalidIds /\ OnRecord' = OnRecord
    BY <2>1, SameRecords
  <2>6. Backed'
    BY <1>0, <2>1, <2>2, <2>5 DEF LauncherInv, Backed, Uncounted, Counting, HasRun
  <2> QED
    BY <2>3, <2>4, <2>6 DEF LauncherInv
<1>4. CASE SaveSeed \/ FinishLaunch
  <2>1. /\ UNCHANGED << tracker, launches >>
        /\ \/ /\ launch.pc = "seeded" /\ launch' = [launch EXCEPT !.pc = "next"]
              /\ bundle' = [bundle EXCEPT !.progress = Saved(tracker)]
           \/ /\ launch.pc = "finish" /\ launch' = [launch EXCEPT !.pc = "summary"]
              /\ bundle' = [bundle EXCEPT !.agg = RawIds, !.progress = Saved(tracker)]
    BY <1>4 DEF SaveSeed, FinishLaunch, LauncherAt
  <2>2. /\ launch' \in LaunchRecords /\ launch'.profile = launch.profile
        /\ launch'.pc \in {"next", "summary"} /\ launch.pc \in {"seeded", "finish"}
    BY <1>0, <2>1 DEF LaunchRecords, LauncherPlaces
  <2>3. Saved(tracker) \in ProgressFiles /\ Saved(tracker).of = tracker
    BY <1>0 DEF Saved, ProgressFiles
  <2>4. RawIds \in SUBSET RunIds
    BY RecordedRuns DEF LauncherInv
  <2>5. /\ bundle' \in Bundles
        /\ bundle'.provider = bundle.provider /\ bundle'.identity = bundle.identity
        /\ bundle'.raw = bundle.raw /\ bundle'.invalid = bundle.invalid
        /\ bundle'.collided = bundle.collided /\ bundle'.progress.of = tracker
    BY <1>0, <2>1, <2>3, <2>4 DEF Bundles
  <2>6. LauncherTyped'
    BY <1>0, <2>1, <2>2, <2>5 DEF LauncherInv, LauncherTyped
  <2>7. Pinned' /\ OneBenchmarkPerDirectory'
    BY <2>2, <2>5
    DEF LauncherInv, Pinned, ProviderPinned, BothPinned, LauncherPlaces, OneBenchmarkPerDirectory
  <2>8. Backed'
    BY <1>0, <2>1, <2>2, <2>5, SameRecords DEF LauncherInv, Backed, Uncounted, Counting
  <2> QED
    BY <2>6, <2>7, <2>8 DEF LauncherInv
<1> QED
  BY <1>1, <1>2, <1>3, <1>4

\* A launch that ends, by itself or in a crash, leaves the records.
LEMMA LaunchEndStep ==
  ASSUME LauncherInv, WriteSummary \/ LauncherCrash
  PROVE  LauncherInv'
<1>0. /\ tracker \in Trackers /\ bundle \in Bundles /\ launch \in LaunchRecords
      /\ launches \in Nat /\ Cardinality(OnRecord) \in Nat
      /\ bundle.progress.of.completed <= Cardinality(OnRecord)
  BY RecordedRuns, RunSets DEF LauncherInv, LauncherTyped, Backed
<1>1. CASE WriteSummary
  <2> DEFINE s == compute_summary(tracker.total)
  <2>1. s \in Summaries
    BY RecordedRuns DEF LauncherInv, compute_summary, ResultIds, Summaries
  <2>2. bundle' = [bundle EXCEPT !.summary = s] /\ launch' = NoLaunch
        /\ UNCHANGED << tracker, launches >>
    BY <1>1 DEF WriteSummary
  <2> HIDE DEF s
  <2>3. /\ bundle' \in Bundles
        /\ bundle'.provider = bundle.provider /\ bundle'.identity = bundle.identity
        /\ bundle'.raw = bundle.raw /\ bundle'.invalid = bundle.invalid
        /\ bundle'.collided = bundle.collided /\ bundle'.progress = bundle.progress
    BY <1>0, <2>1, <2>2 DEF Bundles
  <2> QED
    BY <1>0, <2>2, <2>3, LaunchEnds
<1>2. CASE LauncherCrash
  <2> DEFINE part == [NoProgress EXCEPT !.state = "torn"]
  <2>1. part \in ProgressFiles /\ part.of.completed = 0
    BY DEF NoProgress, NewTracker, ProgressFiles, Trackers
  <2>2. /\ launch' = NoLaunch /\ UNCHANGED << tracker, launches >>
        /\ \/ bundle' = bundle
           \/ bundle.provider = "none" /\ bundle' = [bundle EXCEPT !.provider = "torn"]
           \/ bundle.identity = "none" /\ bundle' = [bundle EXCEPT !.identity = "torn"]
           \/ bundle' = [bundle EXCEPT !.progress = part]
           \/ bundle' = [bundle EXCEPT !.torn = TRUE]
    <3>1. /\ launch' = NoLaunch /\ UNCHANGED << tracker, launches >>
      BY <1>2 DEF LauncherCrash
    <3>2. CASE launch.pc = "provider"
      BY <1>2, <3>1, <3>2 DEF LauncherCrash
    <3>3. CASE launch.pc = "identity"
      BY <1>2, <3>1, <3>3 DEF LauncherCrash
    <3>4. CASE launch.pc \in {"seeded", "count", "finish"}
      BY <1>2, <3>1, <3>4 DEF LauncherCrash
    <3>5. CASE launch.pc = "run"
      BY <1>2, <3>1, <3>5 DEF LauncherCrash
    <3>6. CASE launch.pc \notin {"provider", "identity", "seeded", "count", "finish", "run"}
      BY <1>2, <3>1, <3>6 DEF LauncherCrash
    <3> QED
      BY <3>2, <3>3, <3>4, <3>5, <3>6
  <2> HIDE DEF part
  <2>3. /\ bundle' \in Bundles
        /\ bundle'.raw = bundle.raw /\ bundle'.invalid = bundle.invalid
        /\ bundle'.collided = bundle.collided
        /\ bundle.provider # "none" => bundle'.provider = bundle.provider
        /\ bundle.identity # "none" => bundle'.identity = bundle.identity
        /\ bundle'.progress.of.completed <= Cardinality(OnRecord)
    <3>1. CASE bundle' = bundle \/ bundle' = [bundle EXCEPT !.torn = TRUE]
      BY <1>0, <3>1 DEF Bundles
    <3>2. CASE bundle.provider = "none" /\ bundle' = [bundle EXCEPT !.provider = "torn"]
      BY <1>0, <3>2 DEF Bundles, IdentityFiles
    <3>3. CASE bundle.identity = "none" /\ bundle' = [bundle EXCEPT !.identity = "torn"]
      BY <1>0, <3>3 DEF Bundles, IdentityFiles
    <3>4. CASE bundle' = [bundle EXCEPT !.progress = part]
      BY <1>0, <2>1, <3>4 DEF Bundles
    <3> QED
      BY <2>2, <3>1, <3>2, <3>3, <3>4
  <2> QED
    BY <1>0, <2>2, <2>3, LaunchEnds
<1> QED
  BY <1>1, <1>2

\* Every step of the launcher preserves the invariant.
LEMMA LauncherStep == LauncherInv /\ [LauncherNext]_launcherVars => LauncherInv'
<1> SUFFICES ASSUME LauncherInv, [LauncherNext]_launcherVars PROVE LauncherInv'
  OBVIOUS
<1>1. CASE LaunchRefused \/ UNCHANGED launcherVars
  <2>1. UNCHANGED << launch, tracker, bundle >> /\ launches' \in Nat
    BY <1>1 DEF LaunchRefused, launcherVars, LauncherInv, LauncherTyped
  <2>2. LauncherTyped' /\ Pinned' /\ OneBenchmarkPerDirectory'
    BY <2>1 DEF LauncherInv, LauncherTyped, Pinned, OneBenchmarkPerDirectory
  <2>3. Backed'
    BY <2>1, SameRecords DEF LauncherInv, Backed, Uncounted, HasRun
  <2> QED
    BY <2>2, <2>3 DEF LauncherInv
<1> QED
  BY <1>1, PinStep, RunStep, CountStep, DriveStep, LaunchEndStep DEF LauncherNext

\* The inductive invariant holds in every behaviour of the launcher.
THEOREM LauncherInductive == LauncherSpec => []LauncherInv
  BY LauncherStart, LauncherStep, PTL DEF LauncherSpec

\* One directory, one benchmark: every record was produced under the identity
\* its identity files pin (PinIdentity, _run_one).
THEOREM OneDirectoryOneBenchmark == LauncherSpec => []OneBenchmarkPerDirectory
  BY LauncherInductive, PTL DEF LauncherInv

\* Progress is never ahead of the files: ProgressTracker and progress.json count
\* no more completed runs than have a record.
THEOREM ProgressNeverAhead == LauncherSpec => []ProgressIsBacked
<1>1. LauncherInv => ProgressIsBacked
  BY DEF LauncherInv, Backed, Counting, ProgressIsBacked, OnRecord
<1> QED
  BY <1>1, LauncherInductive, PTL

-----------------------------------------------------------------------------
(***************************************************************************)
(* VerifiedState.  Besides the promotion itself the invariant says what    *)
(* `rebuilt' is: the recursion over the commit history has a solution, and *)
(* every solution ends in the verified state.  Each commit extends the     *)
(* history by one, so the induction over the history is the induction over *)
(* the behaviour.                                                          *)
(***************************************************************************)

Events == [type : EvidenceEventTypes, value : Scalars \cup {Structured}]
Feedback == [candidate : Candidates, outcome : FeedbackOutcomes, refs : SUBSET Nat]
Facts == [value : Nat, evidence : Nat]
PartialFacts == UNION { [K -> Facts] : K \in SUBSET EvidenceEventTypes }
Commits == [feedback : Nat, accepted : SUBSET Nat, artifacts : SUBSET Contents, facts : PartialFacts]
States == [version : Nat, facts : [EvidenceEventTypes -> Facts], artifacts : SUBSET Contents]

LedgerTyped ==
  /\ evidence \in Seq(Events) /\ verdicts \in Seq(Feedback) /\ commits \in Seq(Commits)
  /\ stored \subseteq Contents /\ verified \in States
  /\ \A i \in 1..Len(commits) : commits[i].feedback \in 1..Len(verdicts)
  /\ verified.version = Len(commits)

\* f is what the recursion of rebuild_state asks for.
Rebuilds(f, cs) ==
  f = [n \in 0..Len(cs) |-> IF n = 0 THEN InitialState ELSE with_commit(f[n - 1], cs[n])]

RebuildsFromHistory ==
  /\ \E f : Rebuilds(f, commits)
  /\ \A f : Rebuilds(f, commits) => f[Len(commits)] = verified

PromotedOnce ==
  \A i, j \in 1..Len(commits) :
    verdicts[commits[i].feedback].candidate = verdicts[commits[j].feedback].candidate => i = j

\* What a caller may have presented for a fact of key t.
EntryOf(t, fact) == [id |-> fact.evidence, type |-> t, value |-> fact.value]
\* A commit on an accepting verdict of vs that named the event of the fact.
Backs(c, vs, t, fact) ==
  /\ is_actionable(vs[c.feedback])
  /\ t \in DOMAIN c.facts /\ c.facts[t] = fact
  /\ fact.evidence \in c.accepted \cap vs[c.feedback].refs
FactEarned(t, fact) ==
  /\ EntryOf(t, fact) \in Presentable
  /\ \E i \in 1..Len(commits) : Backs(commits[i], verdicts, t, fact)

FactsEarned ==
  \A t \in EvidenceEventTypes : verified.facts[t] # NoFact => FactEarned(t, verified.facts[t])

Keeps(c, vs, a) == is_actionable(vs[c.feedback]) /\ a \in c.artifacts
ArtifactsEarned ==
  \A a \in verified.artifacts :
    a \in stored /\ \E i \in 1..Len(commits) : Keeps(commits[i], verdicts, a)

VerifiedInv ==
  /\ LedgerTyped /\ RebuildsFromHistory /\ PromotedOnce /\ FactsEarned /\ ArtifactsEarned

\* Appending to a sequence keeps what it has.
LEMMA SeqGrows ==
  ASSUME NEW S, NEW s \in Seq(S), NEW e \in S
  PROVE  /\ Append(s, e) \in Seq(S) /\ Len(s) \in Nat /\ Len(Append(s, e)) = Len(s) + 1
         /\ Append(s, e)[Len(s) + 1] = e
         /\ \A i \in 1..Len(s) : Append(s, e)[i] = s[i]
  OBVIOUS

\* The recursion over an empty history has one solution, the initial state.
LEMMA RebuildsNothing ==
  /\ \E f : Rebuilds(f, << >>)
  /\ \A f : Rebuilds(f, << >>) => f[0] = InitialState
<1> DEFINE g == [n \in 0..0 |-> InitialState]
<1>1. g = [n \in 0..0 |-> IF n = 0 THEN InitialState ELSE with_commit(g[n - 1], << >>[n])]
  OBVIOUS
<1>2. Len(<< >>) = 0
  OBVIOUS
<1>3. Rebuilds(g, << >>)
  BY <1>1, <1>2 DEF Rebuilds
<1>4. ASSUME NEW f, Rebuilds(f, << >>) PROVE f[0] = InitialState
  <2>1. f = [n \in 0..0 |-> IF n = 0 THEN InitialState ELSE with_commit(f[n - 1], << >>[n])]
    BY <1>2, <1>4 DEF Rebuilds
  <2> QED
    BY <2>1
<1> QED
  BY <1>3, <1>4

\* A commit at the end of the history adds one step to its reconstruction.
LEMMA RebuildsOneMore ==
  ASSUME NEW cs \in Seq(Commits), NEW c \in Commits, NEW s,
         \E f : Rebuilds(f, cs), \A f : Rebuilds(f, cs) => f[Len(cs)] = s
  PROVE  /\ \E f : Rebuilds(f, Append(cs, c))
         /\ \A f : Rebuilds(f, Append(cs, c)) => f[Len(cs) + 1] = with_commit(s, c)
<1> DEFINE n == Len(cs)
           ds == Append(cs, c)
<1>1. /\ n \in Nat /\ Len(ds) = n + 1 /\ ds[n + 1] = c
      /\ \A i \in 1..n : ds[i] = cs[i]
  BY SeqGrows
<1> HIDE DEF n, ds
<1>2. \A f : Rebuilds(f, cs) <=>
        f = [m \in 0..n |-> IF m = 0 THEN InitialState ELSE with_commit(f[m - 1], cs[m])]
  BY DEF Rebuilds, n
<1>3. \A f : Rebuilds(f, ds) <=>
        f = [m \in 0..(n + 1) |-> IF m = 0 THEN InitialState ELSE with_commit(f[m - 1], ds[m])]
  BY <1>1 DEF Rebuilds
<1>4. \E f : Rebuilds(f, ds)
  <2>1. PICK f : Rebuilds(f, cs)
    OBVIOUS
  <2> DEFINE g == [m \in 0..(n + 1) |-> IF m = n + 1 THEN with_commit(s, c) ELSE f[m]]
  <2>2. f[n] = s
    BY <2>1 DEF n
  <2>3. ASSUME NEW m \in 0..(n + 1)
        PROVE  g[m] = IF m = 0 THEN InitialState ELSE with_commit(g[m - 1], ds[m])
    <3>1. CASE m = n + 1
      <4>1. g[m] = with_commit(s, c) /\ g[m - 1] = s /\ ds[m] = c /\ m # 0
        BY <1>1, <2>2, <3>1
      <4> QED
        BY <4>1
    <3>2. CASE m = 0
      <4>1. f[0] = InitialState
        BY <1>1, <1>2, <2>1
      <4> QED
        BY <1>1, <3>2, <4>1
    <3>3. CASE m \in 1..n
      <4>1. m \in 0..n /\ m - 1 \in 0..n /\ m # 0 /\ m # n + 1 /\ m - 1 # n + 1
        BY <1>1, <3>3
      <4>2. g[m] = f[m] /\ g[m - 1] = f[m - 1] /\ ds[m] = cs[m]
        BY <1>1, <3>3, <4>1
      <4>3. f[m] = with_commit(f[m - 1], cs[m])
        BY <1>2, <2>1, <4>1
      <4> QED
        BY <4>1, <4>2, <4>3
    <3> QED
      BY <1>1, <3>1, <3>2, <3>3
  <2>4. g = [m \in 0..(n + 1) |-> IF m = 0 THEN InitialState ELSE with_commit(g[m - 1], ds[m])]
    <3>1. \A m \in 0..(n + 1) :
            g[m] = IF m = 0 THEN InitialState ELSE with_commit(g[m - 1], ds[m])
      BY <2>3
    <3>2. g = [m \in 0..(n + 1) |-> g[m]]
      OBVIOUS
    <3> HIDE DEF g
    <3> QED
      BY <3>1, <3>2
  <2> HIDE DEF g
  <2> QED
    BY <1>3, <2>4
<1>5. ASSUME NEW f, Rebuilds(f, ds) PROVE f[n + 1] = with_commit(s, c)
  <2>1. f = [m \in 0..(n + 1) |-> IF m = 0 THEN InitialState ELSE with_commit(f[m - 1], ds[m])]
    BY <1>3, <1>5
  <2> DEFINE g == [m \in 0..n |-> f[m]]
  <2>2. ASSUME NEW m \in 0..n
        PROVE  g[m] = IF m = 0 THEN InitialState ELSE with_commit(g[m - 1], cs[m])
    <3>1. m \in 0..(n + 1) /\ g[m] = f[m]
      BY <1>1
    <3>2. CASE m = 0
      BY <2>1, <3>1, <3>2
    <3>3. CASE m # 0
      <4>1. m \in 1..n /\ m - 1 \in 0..n
        BY <1>1, <3>3
      <4>2. ds[m] = cs[m] /\ g[m - 1] = f[m - 1]
        BY <1>1, <4>1
      <4>3. f[m] = with_commit(f[m - 1], ds[m])
        BY <2>1, <3>1, <3>3
      <4> QED
        BY <3>1, <3>3, <4>2, <4>3
    <3> QED
      BY <3>2, <3>3
  <2>3. Rebuilds(g, cs)
    <3>1. g = [m \in 0..n |-> g[m]]
      OBVIOUS
    <3> HIDE DEF g
    <3>2. g = [m \in 0..n |-> IF m = 0 THEN InitialState ELSE with_commit(g[m - 1], cs[m])]
      BY <2>2, <3>1
    <3> QED
      BY <1>2, <3>2
  <2>4. g[n] = s
    BY <2>3 DEF n
  <2>5. f[n] = s /\ n + 1 \in 0..(n + 1) /\ n + 1 # 0 /\ (n + 1) - 1 = n
    BY <1>1, <2>4
  <2>6. f[n + 1] = with_commit(f[(n + 1) - 1], ds[n + 1])
    BY <2>1, <2>5
  <2> QED
    BY <1>1, <2>5, <2>6
<1> QED
  BY <1>4, <1>5 DEF n, ds

\* What the recursion computes is what its solutions end in.
LEMMA RebuiltIsVerified == RebuildsFromHistory => rebuild_state = verified
<1> SUFFICES ASSUME RebuildsFromHistory PROVE rebuild_state = verified
  OBVIOUS
<1>1. rebuilt = CHOOSE f : Rebuilds(f, commits)
  BY DEF rebuilt, Rebuilds
<1>2. Rebuilds(rebuilt, commits)
  BY <1>1 DEF RebuildsFromHistory
<1> QED
  BY <1>2 DEF RebuildsFromHistory, rebuild_state

\* The property the runs check, from the parts of the invariant.
LEMMA EarnedFromParts == VerifiedInv => VerifiedIsEarned
<1> SUFFICES ASSUME VerifiedInv PROVE VerifiedIsEarned
  OBVIOUS
<1>1. rebuild_state = verified /\ verified.version = Len(commits)
  BY RebuiltIsVerified DEF VerifiedInv, LedgerTyped
<1>2. DOMAIN commits = 1..Len(commits)
  BY DEF VerifiedInv, LedgerTyped
<1>3. ASSUME NEW t \in EvidenceEventTypes, verified.facts[t] # NoFact
      PROVE  LET fact == verified.facts[t]
             IN  /\ [id |-> fact.evidence, type |-> t, value |-> fact.value] \in Presentable
                 /\ \E i \in DOMAIN commits :
                      Accepting(commits[i]) /\ Promotes(commits[i], t, fact)
  <2>1. FactEarned(t, verified.facts[t])
    BY <1>3 DEF VerifiedInv, FactsEarned
  <2> QED
    BY <1>2, <2>1 DEF FactEarned, EntryOf, Backs, Accepting, Promotes
<1>4. \A i, j \in DOMAIN commits :
        verdicts[commits[i].feedback].candidate = verdicts[commits[j].feedback].candidate => i = j
  BY <1>2 DEF VerifiedInv, PromotedOnce
<1>5. \A a \in verified.artifacts :
        exists(a) /\ \E i \in DOMAIN commits : Accepting(commits[i]) /\ a \in commits[i].artifacts
  BY <1>2 DEF VerifiedInv, ArtifactsEarned, exists, Keeps, Accepting
<1> QED
  BY <1>1, <1>3, <1>4, <1>5 DEF VerifiedIsEarned

\* Nothing is verified of an empty history.
LEMMA VerifiedStart == VerifiedInit => VerifiedInv
<1> SUFFICES ASSUME VerifiedInit PROVE VerifiedInv
  OBVIOUS
<1>1. /\ evidence = << >> /\ verdicts = << >> /\ commits = << >> /\ stored = {}
      /\ verified = InitialState
      /\ Len(evidence) = 0 /\ Len(verdicts) = 0 /\ Len(commits) = 0
  BY DEF VerifiedInit
<1>2. InitialState \in States /\ InitialState.version = 0 /\ InitialState.artifacts = {}
      /\ \A t \in EvidenceEventTypes : InitialState.facts[t] = NoFact
  BY DEF InitialState, States, Facts, NoFact
<1>3. LedgerTyped
  BY <1>1, <1>2 DEF LedgerTyped
<1>4. RebuildsFromHistory
  BY <1>1, RebuildsNothing DEF RebuildsFromHistory
<1>5. PromotedOnce /\ FactsEarned /\ ArtifactsEarned
  BY <1>1, <1>2 DEF PromotedOnce, FactsEarned, ArtifactsEarned
<1> QED
  BY <1>3, <1>4, <1>5 DEF VerifiedInv

\* The ledger grows: what could be presented still can.
LEMMA LedgerGrows ==
  ASSUME LedgerTyped, NEW e \in Events, evidence' = Append(evidence, e)
  PROVE  evidence' \in Seq(Events) /\ Presentable \subseteq Presentable'
<1>1. /\ evidence' \in Seq(Events) /\ Len(evidence) \in Nat
      /\ Len(evidence') = Len(evidence) + 1
      /\ \A i \in 1..Len(evidence) : evidence'[i] = evidence[i]
  BY SeqGrows DEF LedgerTyped
<1>2. DOMAIN evidence = 1..Len(evidence) /\ DOMAIN evidence' = 1..Len(evidence')
  BY <1>1 DEF LedgerTyped
<1>3. \A i \in DOMAIN evidence : i \in DOMAIN evidence' /\ InLedger(i)' = InLedger(i)
  BY <1>1, <1>2 DEF InLedger
<1>4. { InLedger(i) : i \in DOMAIN evidence } \subseteq { InLedger(i)' : i \in DOMAIN evidence' }
  BY <1>3
<1> QED
  BY <1>1, <1>4 DEF Presentable

\* What a caller presents are events with ids.
LEMMA PresentableEvents ==
  ASSUME LedgerTyped
  PROVE  \A e \in Presentable : /\ e.id \in Nat /\ e.type \in EvidenceEventTypes
                                 /\ e = [id |-> e.id, type |-> e.type, value |-> e.value]
<1>1. ASSUME NEW i \in DOMAIN evidence
      PROVE  /\ i \in Nat /\ evidence[i].type \in EvidenceEventTypes
  <2>1. i \in 1..Len(evidence) /\ Len(evidence) \in Nat /\ evidence[i] \in Events
    BY DEF LedgerTyped
  <2> QED
    BY <2>1 DEF Events
<1>2. ASSUME NEW e \in Elsewhere
      PROVE  /\ e.id \in Nat /\ e.type \in EvidenceEventTypes
             /\ e = [id |-> e.id, type |-> e.type, value |-> e.value]
  BY VerifiedConstants
<1> QED
  BY <1>1, <1>2 DEF Presentable, InLedger

\* A step that commits nothing, and lets the ledger, the verdicts and the
\* artifacts only grow.
LEMMA NoCommitStep ==
  ASSUME VerifiedInv, UNCHANGED << verified, commits >>,
         evidence' = evidence \/ \E e \in Events : evidence' = Append(evidence, e),
         \/ verdicts' = verdicts
         \/ \E v \in Feedback : verdicts' = Append(verdicts, v),
         stored \subseteq stored', stored' \subseteq Contents
  PROVE  VerifiedInv'
<1>1. evidence' \in Seq(Events) /\ Presentable \subseteq Presentable'
  <2>1. CASE evidence' = evidence
    BY <2>1 DEF VerifiedInv, LedgerTyped, Presentable, InLedger
  <2>2. CASE \E e \in Events : evidence' = Append(evidence, e)
    BY <2>2, LedgerGrows DEF VerifiedInv
  <2> QED
    BY <2>1, <2>2
<1>2. /\ verdicts' \in Seq(Feedback)
      /\ \A f \in 1..Len(verdicts) : verdicts'[f] = verdicts[f] /\ f \in 1..Len(verdicts')
  <2>1. CASE verdicts' = verdicts
    BY <2>1 DEF VerifiedInv, LedgerTyped
  <2>2. ASSUME NEW v \in Feedback, verdicts' = Append(verdicts, v)
        PROVE  <1>2!1 /\ <1>2!2
    <3>1. /\ verdicts' \in Seq(Feedback) /\ Len(verdicts) \in Nat
          /\ Len(verdicts') = Len(verdicts) + 1 /\ verdicts'[Len(verdicts) + 1] = v
          /\ \A i \in 1..Len(verdicts) : verdicts'[i] = verdicts[i]
      BY <2>2, SeqGrows DEF VerifiedInv, LedgerTyped
    <3> QED
      BY <3>1
  <2> QED
    BY <2>1, <2>2
<1>3. verified' = verified /\ commits' = commits /\ Len(commits') = Len(commits)
  OBVIOUS
<1>4. \A i \in 1..Len(commits) :
        /\ commits[i].feedback \in 1..Len(verdicts')
        /\ verdicts'[commits[i].feedback] = verdicts[commits[i].feedback]
  BY <1>2 DEF VerifiedInv, LedgerTyped
<1>5. LedgerTyped'
  BY <1>1, <1>2, <1>3, <1>4 DEF VerifiedInv, LedgerTyped
<1>6. RebuildsFromHistory'
  BY <1>3 DEF VerifiedInv, RebuildsFromHistory, Rebuilds
<1>7. PromotedOnce'
  BY <1>3, <1>4 DEF VerifiedInv, PromotedOnce
<1>8. FactsEarned'
  <2> SUFFICES ASSUME NEW t \in EvidenceEventTypes, verified.facts[t] # NoFact
               PROVE  /\ EntryOf(t, verified.facts[t]) \in Presentable'
                      /\ \E i \in 1..Len(commits) :
                           Backs(commits[i], verdicts', t, verified.facts[t])
    BY <1>3 DEF FactsEarned, FactEarned, EntryOf
  <2>1. FactEarned(t, verified.facts[t])
    BY DEF VerifiedInv, FactsEarned
  <2>2. PICK i \in 1..Len(commits) : Backs(commits[i], verdicts, t, verified.facts[t])
    BY <2>1 DEF FactEarned
  <2>3. Backs(commits[i], verdicts', t, verified.facts[t])
    BY <1>4, <2>2 DEF Backs
  <2> QED
    BY <1>1, <2>1, <2>3 DEF FactEarned
<1>9. ArtifactsEarned'
  <2> SUFFICES ASSUME NEW a \in verified.artifacts
               PROVE  a \in stored' /\ \E i \in 1..Len(commits) : Keeps(commits[i], verdicts', a)
    BY <1>3 DEF ArtifactsEarned
  <2>1. a \in stored /\ \E i \in 1..Len(commits) : Keeps(commits[i], verdicts, a)
    BY DEF VerifiedInv, ArtifactsEarned
  <2>2. PICK i \in 1..Len(commits) : Keeps(commits[i], verdicts, a)
    BY <2>1
  <2>3. Keeps(commits[i], verdicts', a)
    BY <1>4, <2>2 DEF Keeps
  <2> QED
    BY <2>1, <2>3
<1> QED
  BY <1>5, <1>6, <1>7, <1>8, <1>9 DEF VerifiedInv

\* A nonempty set of places of a list has a last one.
LEMMA LastIsMember ==
  ASSUME NEW n \in Nat, NEW K \in SUBSET (1..n), K # {}
  PROVE  LatestOf(K) \in K
<1> DEFINE T == {k..n : k \in K}
           W == 1..n
<1>0. IsFiniteSet(W)
  BY FS_Interval
<1>1. IsWellFoundedOn(StrictSubsetOrdering(W), SUBSET W)
  BY <1>0, FS_StrictSubsetOrderingWellFounded, FS_FiniteSubsetsOfFinite
<1>2. T \subseteq SUBSET W /\ T # {}
  <2>1. \A k \in K : k..n \in SUBSET W
    OBVIOUS
  <2>2. PICK k \in K : TRUE
    OBVIOUS
  <2>3. k..n \in T
    OBVIOUS
  <2> QED
    BY <2>1, <2>3
<1>3. PICK I \in T : \A J \in T : <<J, I>> \notin StrictSubsetOrdering(W)
  BY <1>1, <1>2, WFMin
<1>4. PICK k \in K : I = k..n
  OBVIOUS
<1>5. ASSUME NEW j \in K, ~ (j <= k) PROVE FALSE
  <2>1. j..n \in T /\ j..n \subseteq k..n /\ k \in k..n /\ k \notin j..n
    BY <1>5
  <2> QED
    BY <1>2, <1>3, <1>4, <2>1 DEF StrictSubsetOrdering
<1> QED
  BY <1>5 DEF LatestOf

\* The facts a commit promotes are read from the events presented to it.
LEMMA FactsAreRead ==
  ASSUME LedgerTyped, NEW n \in Nat, NEW refs, NEW presented,
         presented \in [1..n -> { e \in Presentable : e.id \in refs }]
  PROVE  /\ NewFacts(presented) \in PartialFacts
         /\ \A t \in DOMAIN NewFacts(presented) :
              /\ NewFacts(presented)[t].evidence \in { presented[k].id : k \in 1..n }
              /\ NewFacts(presented)[t].evidence \in refs
              /\ EntryOf(t, NewFacts(presented)[t]) \in Presentable
<1> DEFINE facts == NewFacts(presented)
           keys == { u \in EvidenceEventTypes : OfKey(presented, u) # {} }
<1>1. ASSUME NEW t \in keys
      PROVE  \E k \in 1..n : /\ facts[t] = FactOf(presented[k]) /\ presented[k] \in Presentable
                              /\ presented[k].type = t /\ presented[k].value \in Scalars
                              /\ presented[k].id \in refs
  <2> DEFINE K == OfKey(presented, t)
  <2>1. K \in SUBSET (1..n) /\ K # {}
    BY DEF OfKey
  <2>2. LatestOf(K) \in K
    BY <2>1, LastIsMember
  <2>3. facts[t] = FactOf(presented[LatestOf(K)])
    BY DEF NewFacts
  <2>4. presented[LatestOf(K)].type = t /\ presented[LatestOf(K)].value \in Scalars /\ LatestOf(K) \in 1..n
    BY <2>1, <2>2 DEF OfKey, IsScalar
  <2> HIDE DEF K
  <2> QED
    BY <2>3, <2>4
<1>2. ASSUME NEW t \in keys
      PROVE  /\ facts[t] \in Facts /\ facts[t].evidence \in { presented[k].id : k \in 1..n }
             /\ facts[t].evidence \in refs /\ EntryOf(t, facts[t]) \in Presentable
  <2>1. PICK k \in 1..n : /\ facts[t] = FactOf(presented[k]) /\ presented[k] \in Presentable
                          /\ presented[k].type = t /\ presented[k].value \in Scalars
                          /\ presented[k].id \in refs
    BY <1>1
  <2> DEFINE e == presented[k]
  <2>2. /\ e.id \in Nat /\ e = [id |-> e.id, type |-> e.type, value |-> e.value]
        /\ e.type = t /\ e \in Presentable
    BY <2>1, PresentableEvents
  <2>3. facts[t] = [value |-> e.value, evidence |-> e.id]
    BY <2>1 DEF FactOf
  <2>4. facts[t].evidence = e.id /\ facts[t].value = e.value /\ e.value \in Nat
    BY <2>1, <2>3 DEF Scalars
  <2>5. EntryOf(t, facts[t]) = e
    BY <2>2, <2>4 DEF EntryOf
  <2> QED
    BY <2>1, <2>2, <2>3, <2>4, <2>5 DEF Facts
<1>3. facts = [t \in keys |-> facts[t]] /\ DOMAIN facts = keys
  BY DEF NewFacts
<1> HIDE DEF facts
<1>4. facts \in [keys -> Facts] /\ keys \in SUBSET EvidenceEventTypes
  BY <1>2, <1>3
<1> QED
  BY <1>2, <1>3, <1>4 DEF PartialFacts, facts

\* A commit promotes a new candidate, on a verdict that accepted it and named
\* every event it promotes.
LEMMA CommitStep == VerifiedInv /\ commit => VerifiedInv'
<1> SUFFICES ASSUME VerifiedInv, commit PROVE VerifiedInv'
  OBVIOUS
<1>1. PICK f \in DOMAIN verdicts, arts \in SUBSET Contents, m \in 0..MaxPresented :
        \E presented \in [1..m -> { e \in Presentable : e.id \in verdicts[f].refs }] :
          /\ Promotable(f) /\ is_actionable(verdicts[f])
          /\ \A c \in arts : exists(c)
          /\ LET accepted == { presented[k].id : k \in 1..m }
                 c == NewCommit(f, accepted, arts, NewFacts(presented))
             IN  verified' = with_commit(verified, c) /\ commits' = Append(commits, c)
          /\ evidence' = Appended(CommitEvent)
          /\ UNCHANGED << stored, verdicts >>
  BY DEF commit
<1>2. PICK presented \in [1..m -> { e \in Presentable : e.id \in verdicts[f].refs }] :
          /\ Promotable(f) /\ is_actionable(verdicts[f])
          /\ \A c \in arts : exists(c)
          /\ LET accepted == { presented[k].id : k \in 1..m }
                 c == NewCommit(f, accepted, arts, NewFacts(presented))
             IN  verified' = with_commit(verified, c) /\ commits' = Append(commits, c)
          /\ evidence' = Appended(CommitEvent)
          /\ UNCHANGED << stored, verdicts >>
  BY <1>1
<1> DEFINE accepted == { presented[k].id : k \in 1..m }
           facts == NewFacts(presented)
           c == NewCommit(f, accepted, arts, facts)
           n == Len(commits)
<1>3. verified' = with_commit(verified, c) /\ commits' = Append(commits, c)
  BY <1>2
<1>4. /\ LedgerTyped /\ verdicts \in Seq(Feedback) /\ commits \in Seq(Commits) /\ verified \in States
      /\ f \in 1..Len(verdicts) /\ verdicts' = verdicts /\ stored' = stored
  BY <1>2 DEF VerifiedInv, LedgerTyped
<1>5. accepted \in SUBSET Nat
  BY <1>4, PresentableEvents
<1>6. /\ facts \in PartialFacts
      /\ \A t \in DOMAIN facts :
           /\ facts[t].evidence \in accepted /\ facts[t].evidence \in verdicts[f].refs
           /\ EntryOf(t, facts[t]) \in Presentable
  <2>1. m \in Nat
    BY VerifiedConstants
  <2> QED
    BY <1>4, <2>1, FactsAreRead
<1> HIDE DEF facts, accepted
<1>7. /\ c \in Commits /\ c.feedback = f /\ c.accepted = accepted /\ c.artifacts = arts
      /\ c.facts = facts
  BY <1>4, <1>5, <1>6 DEF NewCommit, Commits
<1>8. verified' = with_commit(verified, c) /\ commits' = Append(commits, c)
  BY <1>3
<1> HIDE DEF c, n
<1>9. /\ commits' \in Seq(Commits) /\ n \in Nat /\ Len(commits') = n + 1 /\ commits'[n + 1] = c
      /\ \A i \in 1..n : commits'[i] = commits[i]
  BY <1>4, <1>7, <1>8, SeqGrows DEF n
<1>10. CommitEvent \in Events /\ evidence' = Append(evidence, CommitEvent)
  BY <1>1 DEF CommitEvent, Events, EvidenceEventTypes, Scalars, Appended
<1>11. evidence' \in Seq(Events) /\ Presentable \subseteq Presentable'
  BY <1>4, <1>10, LedgerGrows
<1>12. /\ verified'.version = verified.version + 1
       /\ verified'.artifacts = verified.artifacts \cup arts
       /\ \A t \in EvidenceEventTypes :
            verified'.facts[t] = IF t \in DOMAIN facts THEN facts[t] ELSE verified.facts[t]
       /\ verified' = [version |-> verified'.version, facts |-> verified'.facts,
                       artifacts |-> verified'.artifacts]
       /\ DOMAIN verified'.facts = EvidenceEventTypes
       /\ verified'.facts = [t \in EvidenceEventTypes |-> verified'.facts[t]]
  BY <1>7, <1>8 DEF with_commit
<1>13. \A t \in DOMAIN facts : facts[t] \in Facts
  BY <1>6 DEF PartialFacts
<1>14. LedgerTyped'
  <2>1. verified'.facts \in [EvidenceEventTypes -> Facts]
    <3>1. \A t \in EvidenceEventTypes : verified'.facts[t] \in Facts
      BY <1>4, <1>12, <1>13 DEF States
    <3> QED
      BY <1>12, <3>1
  <2>2. verified'.version \in Nat /\ verified'.artifacts \in SUBSET Contents
    BY <1>4, <1>12 DEF States
  <2>3. verified' \in States
    BY <1>12, <2>1, <2>2 DEF States
  <2>4. \A i \in 1..(n + 1) : commits'[i].feedback \in 1..Len(verdicts)
    <3> SUFFICES ASSUME NEW i \in 1..(n + 1) PROVE commits'[i].feedback \in 1..Len(verdicts)
      OBVIOUS
    <3>1. CASE i \in 1..n
      BY <1>4, <1>9, <3>1 DEF LedgerTyped, n
    <3>2. CASE i = n + 1
      BY <1>4, <1>7, <1>9, <3>2
    <3> QED
      BY <1>9, <3>1, <3>2
  <2>5. verified'.version = n + 1
    BY <1>4, <1>12 DEF LedgerTyped, n
  <2> QED
    BY <1>4, <1>9, <1>11, <2>3, <2>4, <2>5 DEF LedgerTyped
<1>15. RebuildsFromHistory'
  <2>1. /\ \E g : Rebuilds(g, commits')
        /\ \A g : Rebuilds(g, commits') => g[n + 1] = verified'
    BY <1>4, <1>7, <1>8, RebuildsOneMore DEF VerifiedInv, RebuildsFromHistory, n
  <2> QED
    BY <1>9, <2>1 DEF RebuildsFromHistory, Rebuilds
<1>16. PromotedOnce'
  <2>1. ASSUME NEW i \in 1..n
        PROVE  verdicts[commits[i].feedback].candidate # verdicts[f].candidate
    <3>1. i \in DOMAIN commits
      BY <1>4, <2>1 DEF n
    <3> QED
      BY <1>1, <3>1 DEF Promotable, CommittedCandidateIds, CommittedFeedbackIds
  <2> SUFFICES ASSUME NEW i \in 1..(n + 1), NEW j \in 1..(n + 1),
                      verdicts[commits'[i].feedback].candidate
                        = verdicts[commits'[j].feedback].candidate
               PROVE  i = j
    BY <1>4, <1>9 DEF PromotedOnce
  <2>2. CASE i \in 1..n /\ j \in 1..n
    BY <1>9, <2>2 DEF VerifiedInv, PromotedOnce, n
  <2>3. CASE i = n + 1 /\ j \in 1..n
    BY <1>7, <1>9, <2>1, <2>3
  <2>4. CASE i \in 1..n /\ j = n + 1
    BY <1>7, <1>9, <2>1, <2>4
  <2> QED
    BY <1>9, <2>2, <2>3, <2>4
<1>17. \A i \in 1..n : i \in 1..Len(commits') /\ commits'[i] = commits[i]
  BY <1>9
<1>18. n + 1 \in 1..Len(commits') /\ is_actionable(verdicts[c.feedback])
  BY <1>2, <1>7, <1>9
<1>19. FactsEarned'
  <2> SUFFICES ASSUME NEW t \in EvidenceEventTypes, verified'.facts[t] # NoFact
               PROVE  /\ EntryOf(t, verified'.facts[t]) \in Presentable'
                      /\ \E i \in 1..Len(commits') :
                           Backs(commits'[i], verdicts, t, verified'.facts[t])
    BY <1>4 DEF FactsEarned, FactEarned, EntryOf
  <2>1. CASE t \in DOMAIN facts
    <3>1. /\ verified'.facts[t] = facts[t] /\ EntryOf(t, facts[t]) \in Presentable'
      BY <1>6, <1>11, <1>12, <2>1
    <3>2. Backs(c, verdicts, t, facts[t])
      BY <1>6, <1>7, <1>18, <2>1 DEF Backs
    <3> QED
      BY <1>9, <1>18, <3>1, <3>2
  <2>2. CASE t \notin DOMAIN facts
    <3>1. verified'.facts[t] = verified.facts[t]
      BY <1>12, <2>2
    <3>2. FactEarned(t, verified.facts[t])
      BY <3>1 DEF VerifiedInv, FactsEarned
    <3>3. EntryOf(t, verified.facts[t]) \in Presentable'
      BY <1>11, <3>2 DEF FactEarned
    <3>4. PICK i \in 1..n : Backs(commits[i], verdicts, t, verified.facts[t])
      BY <3>2 DEF FactEarned, n
    <3> QED
      BY <1>17, <3>1, <3>3, <3>4
  <2> QED
    BY <2>1, <2>2
<1>20. ArtifactsEarned'
  <2> SUFFICES ASSUME NEW a \in verified'.artifacts
               PROVE  a \in stored /\ \E i \in 1..Len(commits') : Keeps(commits'[i], verdicts, a)
    BY <1>4 DEF ArtifactsEarned
  <2>1. CASE a \in arts
    <3>1. Keeps(c, verdicts, a)
      BY <1>7, <1>18, <2>1 DEF Keeps
    <3>2. a \in stored
      BY <1>2, <2>1 DEF exists
    <3> QED
      BY <1>9, <1>18, <3>1, <3>2
  <2>2. CASE a \notin arts
    <3>1. a \in verified.artifacts
      BY <1>12, <2>2
    <3>2. a \in stored /\ \E i \in 1..n : Keeps(commits[i], verdicts, a)
      BY <3>1 DEF VerifiedInv, ArtifactsEarned, n
    <3> QED
      BY <1>17, <3>2
  <2> QED
    BY <2>1, <2>2
<1> QED
  BY <1>14, <1>15, <1>16, <1>19, <1>20 DEF VerifiedInv

\* Every step of the substrate preserves the invariant.
LEMMA VerifiedStep == VerifiedInv /\ [VerifiedNext]_verifiedVars => VerifiedInv'
<1> SUFFICES ASSUME VerifiedInv, [VerifiedNext]_verifiedVars PROVE VerifiedInv'
  OBVIOUS
<1>0. stored \subseteq Contents
  BY DEF VerifiedInv, LedgerTyped
<1>1. CASE append
  <2>1. Observations \subseteq Events
    BY DEF Observations, Events, EvidenceEventTypes, Scalars, Structured
  <2> QED
    BY <1>0, <1>1, <2>1, NoCommitStep DEF append, Appended
<1>2. CASE effect_receipt
  <2>1. EffectEvents \subseteq Events
    BY DEF EffectEvents, Events, EvidenceEventTypes, Scalars
  <2> QED
    BY <1>0, <1>2, <2>1, NoCommitStep DEF effect_receipt, Appended
<1>3. CASE put
  BY <1>0, <1>3, NoCommitStep DEF put
<1>4. CASE validate
  <2>1. PICK c \in Candidates, o \in FeedbackOutcomes, refs \in SUBSET EvidenceIds :
          verdicts' = Append(verdicts, [candidate |-> c, outcome |-> o, refs |-> refs])
    BY <1>4 DEF validate
  <2> DEFINE v == [candidate |-> c, outcome |-> o, refs |-> refs]
  <2>2. refs \in SUBSET Nat
    BY PresentableEvents DEF VerifiedInv, EvidenceIds
  <2>3. v \in Feedback
    BY <2>2 DEF Feedback
  <2>4. UNCHANGED << evidence, stored, verified, commits >>
    BY <1>4 DEF validate
  <2> QED
    BY <1>0, <2>1, <2>3, <2>4, NoCommitStep
<1>5. CASE commit
  BY <1>5, CommitStep
<1>6. CASE UNCHANGED verifiedVars
  BY <1>0, <1>6, NoCommitStep DEF verifiedVars
<1> QED
  BY <1>1, <1>2, <1>3, <1>4, <1>5, <1>6 DEF VerifiedNext

\* The inductive invariant holds in every behaviour of the substrate.
THEOREM VerifiedInductive == VerifiedSpec => []VerifiedInv
  BY VerifiedStart, VerifiedStep, PTL DEF VerifiedSpec

\* Verified state is earned: TaskStateReducer.commit promotes a candidate once, on
\* an accepting verdict that named the ids of the events presented, each fact is
\* one of those events' entries, and rebuild_state returns what was committed.
\* Nothing is said of the ledger's own events: commit does not look there.
THEOREM VerifiedStateIsEarned == VerifiedSpec => []VerifiedIsEarned
  BY VerifiedInductive, EarnedFromParts, PTL
=============================================================================
