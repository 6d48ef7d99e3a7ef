------------------------ MODULE PlanExecution_proofs ------------------------
(***************************************************************************)
(* Proofs about PlanExecution, for every graph the plan validation accepts *)
(* and every number of calls, repairs, replans and crashes.                *)
(*                                                                         *)
(* The theorems take one caller (OneCaller).  The code holds no lock and   *)
(* no lease on a plan, E6_PROCESS_RESUME.md leaves concurrent processes    *)
(* out of scope, and with two of them whole-plan writes lose updates: the  *)
(* theorems are then false.  They also take a planner that never proposes  *)
(* the id of a VERIFIED row for a step that is not that row                *)
(* (VerifiedIdsStand): consume does not check, and without it a replan     *)
(* overwrites verified work (MCPlanExecution, ClaimVerifiedWork.cfg).      *)
(*                                                                         *)
(* IInv says of the durable plan (DbOK) that its rows keep the shape of    *)
(* the graph (TableOK), that work rests on VERIFIED rows (Grounded), and   *)
(* that some set of rows has one for every step of the graph, STALE only   *)
(* if a row that failed for its assumption lies under it (Covered).  That  *)
(* row stays FAILED until it is repaired or superseded itself, and a plan  *)
(* is completed only without FAILED rows, so a completed plan has verified *)
(* the whole graph.  Placed says what a call knows at each place: its copy *)
(* is the durable plan, or that plan with the row of the call's own run    *)
(* finished or failed.                                                     *)
(*                                                                         *)
(* All writes but an accepted replan keep the shape of the table; Follows  *)
(* is what the invariant then asks of the old table and the new one.       *)
(***************************************************************************)
EXTENDS PlanExecution, TLAPS, FiniteSetTheorems, WellFoundedInduction

N == Cardinality(Steps)
Places == {"idle", "schedule", "dispatch", "running", "claim", "replan", "linear_load", "linear"}
\* The tables of rows a plan can have; a step id is a number.
Tables == UNION {[D -> Row] : D \in SUBSET Nat}
Plans == [version : Nat, status : PlanStatus, started : BOOLEAN, rows : Tables]

\* Rows whose execution started.
Working == {"RUNNING", "WAITING_FOR_VERIFICATION", "VERIFIED"}

\* After n plans (the first and the accepted replans) there are n * N ids, and
\* each row depends on a row for each step that its own step depends on.
TableOK(rows, n) ==
  /\ rows \in Tables
  /\ DOMAIN rows \subseteq 1 .. n * N
  /\ \A i \in DOMAIN rows :
       /\ rows[i].dep \subseteq DOMAIN rows
       /\ \A s \in Graph[Original(i)].dep : \E d \in rows[i].dep : Original(d) = s

\* VerifiedGrounded, of any table.
Grounded(rows) ==
  \A i \in DOMAIN rows : rows[i].st \in Working =>
     \A d \in rows[i].dep : rows[d].st = "VERIFIED"

\* c failed because its assumption was invalid; that excuses what lies
\* downstream of c from being done.
Blames(rows, c) == rows[c].st = "FAILED" /\ rows[c].prov = "assumption"
Excused(rows, k) == \E c \in DOMAIN rows : Blames(rows, c) /\ k \in Downstream(rows, {c})
\* cur has a row for every step, and passes over none without an excuse.
Covers(rows, cur) ==
  /\ \A s \in Steps : \E i \in cur : Original(i) = s
  /\ \A k \in cur : rows[k].st = "STALE" => Excused(rows, k)
Covered(rows) == \E cur \in SUBSET DOMAIN rows : Covers(rows, cur)

\* What CompletedMeansDone asks of a completed plan.
AllDone(rows) == \A s \in Steps : \E i \in DOMAIN rows : Original(i) = s /\ rows[i].st = "VERIFIED"

RowsOK(rows, n) == TableOK(rows, n) /\ Grounded(rows) /\ Covered(rows)

DbOK ==
  /\ proposals \in Nat
  /\ db \in Plans
  /\ RowsOK(db.rows, proposals + 1)
  /\ db.status = "COMPLETED" => AllDone(db.rows)

FramesOK ==
  /\ pc \in [Procs -> Places]
  /\ mem \in [Procs -> Plans]
  /\ base \in [Procs -> Plans]
  /\ todo \in [Procs -> SUBSET Nat]
  /\ run \in [Procs -> Nat]
  /\ after \in [Procs -> {"none", "repair", "failed", "completed"}]

\* The durable plan with the row of p's run finished, and then failed.
Closing(p, prov) == [db EXCEPT !.rows = Failed(Finalized(db.rows, run[p]), run[p], prov)]
Finishing(p) == [db EXCEPT !.rows = Finalized(db.rows, run[p])]

\* What a call knows at its place (with one caller).
Placed(p) ==
  /\ todo[p] \subseteq {i \in DOMAIN db.rows : db.rows[i].st \notin {"VERIFIED", "FAILED"}}
  /\ pc[p] = "idle" => todo[p] = {}
  /\ pc[p] \in {"dispatch", "running", "linear"} => mem[p] = db
  /\ pc[p] \in {"running", "claim", "replan"} => run[p] \in DOMAIN db.rows \ todo[p]
  /\ pc[p] = "running" => db.rows[run[p]].st = "RUNNING"
  /\ pc[p] = "claim" => db.rows[run[p]].st = "RUNNING" /\ mem[p] = Finishing(p)
  /\ pc[p] = "replan" =>
       /\ base[p] = db
       /\ \/ /\ after[p] = "repair"
             /\ db.rows[run[p]].st \in {"FAILED", "CLASSIFIED_FAILURE"}
          \/ /\ after[p] = "completed" /\ db.rows[run[p]].st = "RUNNING"
             /\ mem[p] = Finishing(p)
          \/ /\ after[p] = "failed" /\ db.rows[run[p]].st = "RUNNING"
             /\ \E prov \in Provenance : mem[p] = Closing(p, prov)

IInv == DbOK /\ FramesOK /\ \A p \in Procs : Placed(p)

(***************************************************************************)
(* Downstream                                                              *)
(***************************************************************************)
\* The steps a failure does not reach: outside U nothing depends on U.
Closed(rows, U) == \A j \in DOMAIN rows \ U : rows[j].dep \cap U = {}
Closure(rows, S) ==
  {k \in DOMAIN rows : \A U \in SUBSET DOMAIN rows : S \subseteq U /\ Closed(rows, U) => k \in U}
More(rows, T) == {k \in DOMAIN rows \ T : rows[k].dep \cap T # {}}
Reaches(g, rows) ==
  g = [T \in SUBSET DOMAIN rows |-> IF More(rows, T) = {} THEN T ELSE g[T \cup More(rows, T)]]

LEMMA ClosureStep ==
  ASSUME NEW rows, NEW T \in SUBSET DOMAIN rows
  PROVE  /\ T \cup More(rows, T) \in SUBSET DOMAIN rows
         /\ More(rows, T) = {} => Closure(rows, T) = T
         /\ Closure(rows, T \cup More(rows, T)) = Closure(rows, T)
<1>1. T \cup More(rows, T) \in SUBSET DOMAIN rows
  BY DEF More
<1>2. ASSUME More(rows, T) = {}
      PROVE  Closure(rows, T) = T
  <2>1. Closed(rows, T)
    BY <1>2 DEF More, Closed
  <2> QED
    BY <2>1 DEF Closure
<1>3. ASSUME NEW U \in SUBSET DOMAIN rows, Closed(rows, U)
      PROVE  T \subseteq U <=> T \cup More(rows, T) \subseteq U
  BY <1>3 DEF More, Closed
<1>4. Closure(rows, T \cup More(rows, T)) = Closure(rows, T)
  BY <1>3 DEF Closure
<1> QED
  BY <1>1, <1>2, <1>4

LEMMA ReachesExists ==
  ASSUME NEW rows
  PROVE  Reaches([T \in SUBSET DOMAIN rows |-> Closure(rows, T)], rows)
<1> DEFINE g == [T \in SUBSET DOMAIN rows |-> Closure(rows, T)]
<1>1. ASSUME NEW T \in SUBSET DOMAIN rows
      PROVE  g[T] = IF More(rows, T) = {} THEN T ELSE g[T \cup More(rows, T)]
  <2>1. g[T] = Closure(rows, T)
    OBVIOUS
  <2>2. g[T \cup More(rows, T)] = Closure(rows, T)
    BY ClosureStep
  <2> QED
    BY <2>1, <2>2, ClosureStep
<1> QED
  BY <1>1 DEF Reaches

LEMMA ReachesUnique ==
  ASSUME NEW rows, IsFiniteSet(DOMAIN rows), NEW g, Reaches(g, rows),
         NEW S \in SUBSET DOMAIN rows
  PROVE  g[S] = Closure(rows, S)
<1> DEFINE D == DOMAIN rows
           Wrong == {T \in SUBSET D : g[T] # Closure(rows, T)}
           Rest == {D \ T : T \in Wrong}
<1>1. SUFFICES ASSUME Wrong # {} PROVE FALSE
  OBVIOUS
<1>2. IsWellFoundedOn(StrictSubsetOrdering(D), SUBSET D)
  BY FS_StrictSubsetOrderingWellFounded, FS_FiniteSubsetsOfFinite
<1>3. Rest \subseteq SUBSET D /\ Rest # {}
  BY <1>1
<1>4. PICK R \in Rest : \A Q \in Rest : <<Q, R>> \notin StrictSubsetOrdering(D)
  BY <1>2, <1>3, WFMin
<1>5. PICK T \in Wrong : R = D \ T
  OBVIOUS
<1> DEFINE W == T \cup More(rows, T)
<1>6. T \in SUBSET D /\ W \in SUBSET D
  BY ClosureStep
<1>7. g[T] = IF More(rows, T) = {} THEN T ELSE g[W]
  BY <1>6 DEF Reaches
<1>8. More(rows, T) # {}
  BY <1>6, <1>7, ClosureStep
<1>9. g[W] # Closure(rows, W)
  BY <1>6, <1>7, <1>8, ClosureStep
<1>10. D \ W \in Rest
  BY <1>6, <1>9
<1>11. D \ W \subseteq R /\ D \ W # R
  BY <1>5, <1>6, <1>8 DEF More
<1>12. <<D \ W, R>> \in StrictSubsetOrdering(D)
  BY <1>3, <1>10, <1>11 DEF StrictSubsetOrdering
<1> QED
  BY <1>4, <1>10, <1>12

\* What the repair scope and the invalidation call downstream is the least set
\* that contains the given steps and everything that depends on one of its own.
LEMMA DownstreamIsClosure ==
  ASSUME NEW rows, IsFiniteSet(DOMAIN rows), NEW S \in SUBSET DOMAIN rows
  PROVE  Downstream(rows, S) = Closure(rows, S)
<1> DEFINE reach == CHOOSE g : Reaches(g, rows)
<1>1. Downstream(rows, S) = reach[S]
  BY DEF Downstream, Reaches, More
<1>2. Reaches(reach, rows)
  BY ReachesExists
<1> HIDE DEF reach
<1> QED
  BY <1>1, <1>2, ReachesUnique

(***************************************************************************)
(* Ids                                                                     *)
(***************************************************************************)
LEMMA Sizes == N \in Nat /\ Steps = 1 .. N /\ IsFiniteSet(Steps)
  BY PlanAssumption, FS_CardinalityType DEF N, Steps

LEMMA ModUnique ==
  ASSUME NEW M \in Nat \ {0}, NEW a \in 0 .. M-1, NEW m \in Nat
  PROVE (a + m * M) % M = a
<1> DEFINE x == a + m * M
           q == x \div M
           r == x % M
<1>1. x \in Int
  OBVIOUS
<1>2. x = M * q + r /\ q \in Int /\ r \in 0 .. M-1
  BY <1>1
<1>3. r = a
  BY <1>2
<1> QED
  BY <1>3

LEMMA OriginalOf ==
  ASSUME NEW s \in Steps, NEW m \in Nat
  PROVE  Original(s + m * N) = s
<1>1. N \in Nat \ {0} /\ s \in 1 .. N /\ s - 1 \in 0 .. N-1
  BY Sizes
<1>2. (s - 1 + m * N) % N = s - 1
  BY <1>1, ModUnique
<1>3. s + m * N - 1 = s - 1 + m * N
  BY <1>1
<1> QED
  BY <1>1, <1>2, <1>3 DEF Original, N

LEMMA OriginalStep == \A s \in Steps : Original(s) = s
<1> SUFFICES ASSUME NEW s \in Steps PROVE Original(s) = s
  OBVIOUS
<1>1. Original(s + 0 * N) = s
  BY OriginalOf
<1>2. s + 0 * N = s
  BY Sizes
<1> QED
  BY <1>1, <1>2

LEMMA MinIsMember ==
  ASSUME NEW S \in SUBSET Nat, S # {}
  PROVE  Min(S) \in S
<1>1. \E x \in S : \A y \in S : x <= y
  <2> PICK k \in S : TRUE
    OBVIOUS
  <2> DEFINE T == {1 .. i : i \in {j \in S : j <= k}}
             W == 1 .. k
  <2>1. IsFiniteSet(W)
    BY FS_Interval
  <2>2. IsWellFoundedOn(StrictSubsetOrdering(W), SUBSET W)
    BY <2>1, FS_StrictSubsetOrderingWellFounded, FS_FiniteSubsetsOfFinite
  <2>3. T \subseteq SUBSET W /\ T # {}
    OBVIOUS
  <2>4. PICK I \in T : \A J \in T : <<J, I>> \notin StrictSubsetOrdering(W)
    BY <2>2, <2>3, WFMin
  <2>5. PICK i \in S : i <= k /\ I = 1 .. i
    OBVIOUS
  <2>6. ASSUME NEW y \in S, ~ (i <= y) PROVE FALSE
    <3>1. 1 .. y \in T /\ 1 .. y \subseteq 1 .. i /\ i \in 1 .. i /\ i \notin 1 .. y
      BY <2>5, <2>6
    <3> QED
      BY <3>1, <2>3, <2>4, <2>5 DEF StrictSubsetOrdering
  <2> QED
    BY <2>6
<1> QED
  BY <1>1 DEF Min

(***************************************************************************)
(* What an edit of the table keeps                                         *)
(***************************************************************************)
LEMMA TablesAre ==
  ASSUME NEW f
  PROVE  f \in Tables <=> DOMAIN f \subseteq Nat /\ f \in [DOMAIN f -> Row]
<1>1. ASSUME f \in Tables PROVE DOMAIN f \subseteq Nat /\ f \in [DOMAIN f -> Row]
  <2> PICK D \in SUBSET Nat : f \in [D -> Row]
    BY <1>1 DEF Tables
  <2> QED
    OBVIOUS
<1>2. ASSUME DOMAIN f \subseteq Nat, f \in [DOMAIN f -> Row] PROVE f \in Tables
  BY <1>2 DEF Tables
<1> QED
  BY <1>1, <1>2

LEMMA TableIsFinite ==
  ASSUME NEW rows, NEW n \in Nat, TableOK(rows, n)
  PROVE  IsFiniteSet(DOMAIN rows)
<1>1. n * N \in Nat
  BY Sizes
<1>2. IsFiniteSet(1 .. n * N)
  BY <1>1, FS_Interval
<1> QED
  BY <1>2, FS_Subset DEF TableOK

LEMMA DownstreamFacts ==
  ASSUME NEW rows, IsFiniteSet(DOMAIN rows), NEW S \in SUBSET DOMAIN rows
  PROVE  /\ S \subseteq Downstream(rows, S)
         /\ Downstream(rows, S) \subseteq DOMAIN rows
         /\ Closed(rows, Downstream(rows, S))
         /\ \A U \in SUBSET DOMAIN rows :
              S \subseteq U /\ Closed(rows, U) => Downstream(rows, S) \subseteq U
<1> DEFINE C == Closure(rows, S)
<1>1. Downstream(rows, S) = C
  BY DownstreamIsClosure
<1>2. S \subseteq C /\ C \subseteq DOMAIN rows
  BY DEF Closure
<1>3. \A U \in SUBSET DOMAIN rows : S \subseteq U /\ Closed(rows, U) => C \subseteq U
  BY DEF Closure
<1>4. Closed(rows, C)
  <2> SUFFICES ASSUME NEW j \in DOMAIN rows \ C, NEW d \in rows[j].dep, d \in C PROVE FALSE
    BY DEF Closed
  <2> PICK U \in SUBSET DOMAIN rows : S \subseteq U /\ Closed(rows, U) /\ j \notin U
    BY DEF Closure
  <2>1. d \in U
    BY <1>3
  <2> QED
    BY <2>1 DEF Closed
<1> QED
  BY <1>1, <1>2, <1>3, <1>4

LEMMA DownstreamOfDownstream ==
  ASSUME NEW rows, IsFiniteSet(DOMAIN rows), NEW S \in SUBSET DOMAIN rows,
         NEW c \in Downstream(rows, S)
  PROVE  Downstream(rows, {c}) \subseteq Downstream(rows, S)
<1>1. c \in DOMAIN rows
  BY DownstreamFacts
<1> QED
  BY <1>1, DownstreamFacts

SameShape(rows, new) ==
  DOMAIN new = DOMAIN rows /\ \A i \in DOMAIN rows : new[i].dep = rows[i].dep

LEMMA SameDownstream ==
  ASSUME NEW rows, NEW new, IsFiniteSet(DOMAIN rows), SameShape(rows, new),
         NEW S \in SUBSET DOMAIN rows
  PROVE  Downstream(new, S) = Downstream(rows, S)
<1>1. ASSUME NEW U \in SUBSET DOMAIN rows PROVE Closed(new, U) <=> Closed(rows, U)
  BY DEF SameShape, Closed
<1>2. Closure(new, S) = Closure(rows, S)
  BY <1>1 DEF Closure, SameShape
<1> QED
  BY <1>2, DownstreamIsClosure DEF SameShape

\* Work that is done stays done, and what is newly worked on is grounded.
Keeps(rows, new) ==
  /\ new \in Tables /\ SameShape(rows, new)
  /\ \A i \in DOMAIN rows :
       /\ rows[i].st = "VERIFIED" => new[i].st = "VERIFIED"
       /\ new[i].st \in Working =>
            rows[i].st \in Working \/ \A d \in rows[i].dep : rows[d].st = "VERIFIED"

\* A row that is STALE now is excused, or it was and its excuses are.
Answers(rows, new) ==
  \A k \in DOMAIN rows : new[k].st = "STALE" =>
    \/ Excused(new, k)
    \/ /\ rows[k].st = "STALE"
       /\ \A c \in DOMAIN rows :
            Blames(rows, c) /\ k \in Downstream(rows, {c}) => Blames(new, c)

Follows(rows, new) == Keeps(rows, new) /\ Answers(rows, new)

LEMMA FollowsOK ==
  ASSUME NEW rows, NEW n \in Nat, RowsOK(rows, n), NEW new, Follows(rows, new)
  PROVE  /\ RowsOK(new, n)
         /\ AllDone(rows) => AllDone(new)
<1>1. IsFiniteSet(DOMAIN rows)
  BY TableIsFinite DEF RowsOK
<1>2. SameShape(rows, new)
  BY DEF Follows, Keeps
<1>3. TableOK(new, n)
  BY <1>2 DEF TableOK, RowsOK, Follows, Keeps, SameShape
<1>4. Grounded(new)
  BY <1>2 DEF RowsOK, TableOK, Grounded, Follows, Keeps, SameShape
<1>5. Covered(new)
  <2> PICK cur \in SUBSET DOMAIN rows : Covers(rows, cur)
    BY DEF RowsOK, Covered
  <2>1. ASSUME NEW k \in cur, new[k].st = "STALE" PROVE Excused(new, k)
    <3>1. CASE Excused(new, k)
      BY <3>1
    <3>2. CASE /\ rows[k].st = "STALE"
               /\ \A c \in DOMAIN rows :
                    Blames(rows, c) /\ k \in Downstream(rows, {c}) => Blames(new, c)
      <4>1. PICK c \in DOMAIN rows : Blames(rows, c) /\ k \in Downstream(rows, {c})
        BY <3>2 DEF Covers, Excused
      <4>2. k \in Downstream(new, {c})
        BY <4>1, <1>1, <1>2, SameDownstream
      <4> QED
        BY <3>2, <4>1, <4>2, <1>2 DEF Excused, SameShape
    <3> QED
      BY <2>1, <3>1, <3>2 DEF Follows, Answers
  <2>2. cur \in SUBSET DOMAIN new
    BY <1>2 DEF SameShape
  <2> QED
    BY <2>1, <2>2 DEF Covered, Covers
<1>6. AllDone(rows) => AllDone(new)
  BY <1>2 DEF AllDone, Follows, Keeps, SameShape
<1> QED
  BY <1>3, <1>4, <1>5, <1>6 DEF RowsOK

\* Nothing outside row i is touched, and its dependencies are kept.
Only(rows, new, i) ==
  /\ new \in Tables /\ SameShape(rows, new)
  /\ \A j \in DOMAIN rows \ {i} : new[j] = rows[j]

LEMMA OnlyFollows ==
  ASSUME NEW rows, NEW new, NEW i \in DOMAIN rows, Only(rows, new, i),
         rows[i].st \notin {"VERIFIED", "FAILED"}, new[i].st # "STALE",
         new[i].st \in Working =>
           rows[i].st \in Working \/ \A d \in rows[i].dep : rows[d].st = "VERIFIED"
  PROVE  Follows(rows, new)
<1>1. Keeps(rows, new)
  BY DEF Only, Keeps
<1>2. Answers(rows, new)
  BY DEF Only, Answers, Blames
<1> QED
  BY <1>1, <1>2 DEF Follows

LEMMA OneRow ==
  ASSUME NEW rows \in Tables, NEW i \in DOMAIN rows, NEW row \in Row,
         row.dep = rows[i].dep
  PROVE  Only(rows, [rows EXCEPT ![i] = row], i)
<1> DEFINE new == [rows EXCEPT ![i] = row]
<1>1. rows \in [DOMAIN rows -> Row] /\ DOMAIN rows \subseteq Nat
  BY TablesAre
<1>2. new \in [DOMAIN rows -> Row] /\ DOMAIN new = DOMAIN rows
  BY <1>1
<1>3. new \in Tables
  BY <1>1, <1>2, TablesAre
<1>4. SameShape(rows, new)
  BY <1>1, <1>2 DEF SameShape
<1> QED
  BY <1>2, <1>3, <1>4 DEF Only

LEMMA OnlyAgain ==
  ASSUME NEW rows, NEW mid, NEW new, NEW i, Only(rows, mid, i), Only(mid, new, i)
  PROVE  Only(rows, new, i)
BY DEF Only, SameShape

\* Such an edit that leaves the row with status s.
Edits(rows, new, i, s) == Only(rows, new, i) /\ new[i].st = s

LEMMA RowEdits ==
  ASSUME NEW rows \in Tables, NEW i \in DOMAIN rows
  PROVE  /\ \A s \in PlanStepStatus : Edits(rows, With(rows, i, s), i, s)
         /\ Edits(rows, Finalized(rows, i), i, rows[i].st)
         /\ \A prov \in Provenance : Edits(rows, Failed(rows, i, prov), i, "FAILED")
         /\ \A c \in Claims : Edits(rows, Rejected(rows, i, c), i, "CLASSIFIED_FAILURE")
         /\ Edits(rows, LocalRepair(rows, i), i, "PENDING")
<1>1. rows[i] \in Row /\ rows \in [DOMAIN rows -> Row]
  BY TablesAre
<1>2. ASSUME NEW s \in PlanStepStatus
      PROVE  Edits(rows, With(rows, i, s), i, s)
  <2> DEFINE row == [rows[i] EXCEPT !.st = s]
  <2>1. row \in Row /\ row.dep = rows[i].dep /\ row.st = s
    BY <1>1 DEF Row
  <2>2. With(rows, i, s) = [rows EXCEPT ![i] = row]
    BY DEF With
  <2> HIDE DEF row
  <2> QED
    BY <1>1, <2>1, <2>2, OneRow DEF Edits
<1>3. Edits(rows, Finalized(rows, i), i, rows[i].st)
  <2> DEFINE row == [rows[i] EXCEPT !.pend = FALSE]
  <2>1. row \in Row /\ row.dep = rows[i].dep /\ row.st = rows[i].st
    BY <1>1 DEF Row
  <2>2. Finalized(rows, i) = [rows EXCEPT ![i] = row]
    BY DEF Finalized
  <2> HIDE DEF row
  <2> QED
    BY <1>1, <2>1, <2>2, OneRow DEF Edits
<1>4. ASSUME NEW prov \in Provenance
      PROVE  Edits(rows, Failed(rows, i, prov), i, "FAILED")
  <2> DEFINE row == [rows[i] EXCEPT !.st = "FAILED", !.prov = prov]
  <2>1. row \in Row /\ row.dep = rows[i].dep /\ row.st = "FAILED"
    BY <1>1 DEF Row, PlanStepStatus
  <2>2. Failed(rows, i, prov) = [rows EXCEPT ![i] = row]
    BY <1>1 DEF Failed, Row
  <2> HIDE DEF row
  <2> QED
    BY <1>1, <2>1, <2>2, OneRow DEF Edits
<1>5. ASSUME NEW c \in Claims
      PROVE  Edits(rows, Rejected(rows, i, c), i, "CLASSIFIED_FAILURE")
  <2> DEFINE prov == IF verify(c) = "rejected" THEN "plain" ELSE rows[i].prov
             row == [rows[i] EXCEPT !.st = "CLASSIFIED_FAILURE", !.prov = prov]
  <2>1. prov \in Provenance
    BY <1>1 DEF Row, Provenance
  <2>2. Rejected(rows, i, c) = [rows EXCEPT ![i] = row]
    BY <1>1 DEF Rejected, Row
  <2> HIDE DEF prov
  <2>3. row \in Row /\ row.dep = rows[i].dep /\ row.st = "CLASSIFIED_FAILURE"
    BY <1>1, <2>1 DEF Row, PlanStepStatus
  <2> HIDE DEF row
  <2> QED
    BY <1>1, <2>2, <2>3, OneRow DEF Edits
<1>6. Edits(rows, LocalRepair(rows, i), i, "PENDING")
  <2> DEFINE cnt == rows[i].cnt + 1
             row == [rows[i] EXCEPT !.st = "PENDING", !.cnt = cnt, !.pend = TRUE]
  <2>1. cnt \in Nat
    BY <1>1 DEF Row
  <2>2. LocalRepair(rows, i) = [rows EXCEPT ![i] = row]
    BY <1>1 DEF LocalRepair, Row
  <2> HIDE DEF cnt
  <2>3. row \in Row /\ row.dep = rows[i].dep /\ row.st = "PENDING"
    BY <1>1, <2>1 DEF Row, PlanStepStatus
  <2> HIDE DEF row
  <2> QED
    BY <1>1, <2>2, <2>3, OneRow DEF Edits
<1> QED
  BY <1>2, <1>3, <1>4, <1>5, <1>6

\* The steps of S get the status s, and nothing else changes.
Marks(rows, new, S, s) ==
  /\ new \in Tables /\ SameShape(rows, new)
  /\ \A i \in S : new[i].st = s
  /\ \A i \in DOMAIN rows \ S : new[i] = rows[i]
  /\ \A i \in DOMAIN rows : new[i].prov = rows[i].prov

LEMMA WithAllMarks ==
  ASSUME NEW rows \in Tables, NEW S \in SUBSET DOMAIN rows, NEW s \in PlanStepStatus
  PROVE  Marks(rows, WithAll(rows, S, s), S, s)
<1> DEFINE new == WithAll(rows, S, s)
<1>1. rows \in [DOMAIN rows -> Row] /\ DOMAIN rows \subseteq Nat
  BY TablesAre
<1>2. \A i \in DOMAIN rows : [rows[i] EXCEPT !.st = s] \in Row
  BY <1>1 DEF Row
<1>3. new \in [DOMAIN rows -> Row] /\ DOMAIN new = DOMAIN rows
  BY <1>1, <1>2 DEF WithAll
<1>4. new \in Tables
  BY <1>1, <1>3, TablesAre
<1>5. \A i \in DOMAIN rows : /\ [rows[i] EXCEPT !.st = s].st = s
                             /\ [rows[i] EXCEPT !.st = s].dep = rows[i].dep
                             /\ [rows[i] EXCEPT !.st = s].prov = rows[i].prov
  BY <1>1 DEF Row
<1>6. \A i \in DOMAIN rows :
        new[i] = IF i \in S THEN [rows[i] EXCEPT !.st = s] ELSE rows[i]
  BY DEF WithAll
<1> QED
  BY <1>3, <1>4, <1>5, <1>6 DEF SameShape, Marks

LEMMA MarksFollows ==
  ASSUME NEW rows, NEW S \in SUBSET DOMAIN rows, NEW s, NEW new, Marks(rows, new, S, s),
         \A i \in S : rows[i].st \notin {"VERIFIED", "FAILED"}, s \notin Working \cup {"STALE"}
  PROVE  Follows(rows, new)
<1>1. Keeps(rows, new)
  BY DEF Marks, Keeps, Working
<1>2. Answers(rows, new)
  BY DEF Marks, Answers, Blames
<1> QED
  BY <1>1, <1>2 DEF Follows

(***************************************************************************)
(* How a call writes                                                       *)
(***************************************************************************)
\* At most one process executes the plan.
OneCaller == \A p, q \in Procs : p = q
\* What the planner must keep to.
VerifiedIdsStand == "VERIFIED" \notin ReusedIds

VerifiedKept == \A i \in Having(db.rows, {"VERIFIED"}) : db'.rows[i].st = "VERIFIED"

LEMMA WrittenIs ==
  ASSUME NEW plan \in Plans, DOMAIN db.rows \subseteq DOMAIN plan.rows
  PROVE  Written(plan) = plan
<1>1. plan.rows \in [DOMAIN plan.rows -> Row]
  BY TablesAre DEF Plans
<1>2. Over(plan.rows, db.rows) = plan.rows
  BY <1>1 DEF Over
<1> QED
  BY <1>2 DEF Written, Plans

LEMMA DbWritten ==
  ASSUME DbOK, NEW plan \in Plans, Follows(db.rows, plan.rows), db' = Written(plan),
         proposals' = proposals,
         plan.status = "COMPLETED" => db.status = "COMPLETED" \/ AllDone(plan.rows)
  PROVE  /\ db' = plan /\ DbOK' /\ VerifiedKept
         /\ db' \in Plans /\ DOMAIN db'.rows = DOMAIN db.rows
<1>1. DOMAIN plan.rows = DOMAIN db.rows
  BY DEF Follows, Keeps, SameShape
<1>2. db' = plan
  BY <1>1, WrittenIs
<1>3. proposals + 1 \in Nat
  BY DEF DbOK
<1>4. RowsOK(plan.rows, proposals + 1) /\ (AllDone(db.rows) => AllDone(plan.rows))
  BY <1>3, FollowsOK DEF DbOK
<1>5. DbOK'
  BY <1>2, <1>4 DEF DbOK
<1>6. VerifiedKept
  BY <1>2 DEF VerifiedKept, Having, Follows, Keeps
<1> QED
  BY <1>1, <1>2, <1>5, <1>6

LEMMA FirstPlanOK ==
  /\ FirstPlan \in Plans /\ FirstPlan.status = "READY"
  /\ RowsOK(FirstPlan.rows, 1)
<1> DEFINE rows == [i \in Steps |-> NewRow(Graph[i].dep, Graph[i].pre)]
<1>1. Steps \subseteq Nat /\ Steps = 1 .. 1 * N
  BY Sizes
<1>2. ASSUME NEW i \in Steps
      PROVE  /\ NewRow(Graph[i].dep, Graph[i].pre) \in Row
             /\ rows[i].dep = Graph[i].dep /\ Graph[i].dep \subseteq Steps
             /\ rows[i].st = "PENDING"
  BY <1>1, PlanAssumption DEF NewRow, Row, PlanStepStatus, Provenance, Steps
<1>3. rows \in Tables
  BY <1>1, <1>2, TablesAre
<1>4. FirstPlan \in Plans
  BY <1>3 DEF FirstPlan, Plans, PlanStatus
<1>5. TableOK(rows, 1)
  BY <1>1, <1>2, <1>3, OriginalStep DEF TableOK
<1>6. Grounded(rows)
  BY <1>2 DEF Grounded, Working
<1>7. Covered(rows)
  BY <1>2, OriginalStep DEF Covered, Covers
<1> QED
  BY <1>4, <1>5, <1>6, <1>7 DEF FirstPlan, RowsOK

LEMMA ReturnPlaces ==
  ASSUME OneCaller, FramesOK, NEW p \in Procs, Return(p)
  PROVE  FramesOK' /\ \A q \in Procs : Placed(q)'
<1>1. pc' \in [Procs -> Places] /\ pc'[p] = "idle"
  BY DEF Return, FramesOK, Places
<1>2. mem' \in [Procs -> Plans] /\ base' \in [Procs -> Plans]
  BY FirstPlanOK DEF Return, FramesOK
<1>3. todo' \in [Procs -> SUBSET Nat] /\ todo'[p] = {}
  BY DEF Return, FramesOK
<1>4. run' \in [Procs -> Nat] /\ after' \in [Procs -> {"none", "repair", "failed", "completed"}]
  BY DEF Return, FramesOK
<1>5. Placed(p)'
  BY <1>1, <1>3 DEF Placed
<1> QED
  BY <1>1, <1>2, <1>3, <1>4, <1>5 DEF FramesOK, OneCaller

LEMMA ReturnWithKept ==
  ASSUME OneCaller, IInv, NEW p \in Procs, NEW plan \in Plans, ReturnWith(p, plan),
         Follows(db.rows, plan.rows), proposals' = proposals,
         plan.status = "COMPLETED" => db.status = "COMPLETED" \/ AllDone(plan.rows)
  PROVE  IInv' /\ VerifiedKept
<1>1. DbOK' /\ VerifiedKept
  BY DbWritten DEF IInv, ReturnWith
<1>2. FramesOK' /\ \A q \in Procs : Placed(q)'
  BY ReturnPlaces DEF IInv, ReturnWith
<1> QED
  BY <1>1, <1>2 DEF IInv

\* A step is settled and the loop goes on.
LEMMA LoopGoesOn ==
  ASSUME OneCaller, IInv, NEW p \in Procs, NEW plan \in Plans, Update(p, plan), Goto(p, Back),
         run' = [run EXCEPT ![p] = 0], base' \in [Procs -> Plans],
         after' \in [Procs -> {"none", "repair", "failed", "completed"}], todo' = todo,
         Follows(db.rows, plan.rows), proposals' = proposals, plan.status = db.status,
         \A i \in todo[p] : plan.rows[i].st \notin {"VERIFIED", "FAILED"}
  PROVE  IInv' /\ VerifiedKept
<1>1. /\ db' = plan /\ DbOK' /\ VerifiedKept
      /\ DOMAIN db'.rows = DOMAIN db.rows
  BY DbWritten DEF IInv, Update
<1>2. /\ pc' \in [Procs -> Places] /\ pc'[p] \in {"linear", "dispatch"}
      /\ mem' \in [Procs -> Plans] /\ mem'[p] = plan
  BY DEF IInv, FramesOK, Update, Goto, Places, Back
<1>3. FramesOK'
  BY <1>2 DEF IInv, FramesOK
<1>4. todo[p] \subseteq DOMAIN db.rows
  BY DEF IInv, Placed
<1>5. Placed(p)'
  BY <1>1, <1>2, <1>4 DEF Placed
<1> QED
  BY <1>1, <1>3, <1>5 DEF IInv, OneCaller

LEMMA NextStepKept ==
  ASSUME OneCaller, IInv, NEW p \in Procs, NEW plan \in Plans, NextStep(p, plan),
         Follows(db.rows, plan.rows), proposals' = proposals, plan.status = db.status,
         \A i \in todo[p] : plan.rows[i].st \notin {"VERIFIED", "FAILED"}
  PROVE  IInv' /\ VerifiedKept
<1>1. /\ Update(p, plan) /\ Goto(p, Back) /\ run' = [run EXCEPT ![p] = 0]
      /\ UNCHANGED <<todo, base, after>>
  BY DEF NextStep
<1>2. /\ base' \in [Procs -> Plans]
      /\ after' \in [Procs -> {"none", "repair", "failed", "completed"}]
  BY <1>1 DEF IInv, FramesOK
<1> QED
  BY <1>1, <1>2, LoopGoesOn

\* The planner is asked: nothing is written, the copy holds what will be.
LEMMA AskPlannerKept ==
  ASSUME OneCaller, IInv, NEW p \in Procs, pc[p] = "running", proposals' = proposals,
         NEW plan \in Plans, NEW then, AskPlanner(p, plan, then),
         \/ then = "completed" /\ plan = Finishing(p)
         \/ then = "failed" /\ \E prov \in Provenance : plan = Closing(p, prov)
  PROVE  IInv' /\ VerifiedKept
<1>1. UNCHANGED <<db, todo, run>> /\ DbOK' /\ VerifiedKept
  BY DEF AskPlanner, IInv, DbOK, VerifiedKept, Having
<1>2. /\ pc' \in [Procs -> Places] /\ pc'[p] = "replan"
      /\ mem' \in [Procs -> Plans] /\ mem'[p] = plan
      /\ base' \in [Procs -> Plans] /\ base'[p] = db
      /\ after' \in [Procs -> {"none", "repair", "failed", "completed"}] /\ after'[p] = then
  BY DEF IInv, FramesOK, DbOK, AskPlanner, Goto, Places
<1>3. FramesOK'
  BY <1>1, <1>2 DEF IInv, FramesOK
<1>4. /\ db.rows[run[p]].st = "RUNNING" /\ run[p] \in DOMAIN db.rows \ todo[p]
      /\ todo[p] \subseteq {i \in DOMAIN db.rows : db.rows[i].st \notin {"VERIFIED", "FAILED"}}
  BY DEF IInv, Placed
<1>5. Finishing(p)' = Finishing(p) /\ \A prov \in Provenance : Closing(p, prov)' = Closing(p, prov)
  BY <1>1 DEF Finishing, Closing
<1>6. Placed(p)'
  BY <1>1, <1>2, <1>4, <1>5 DEF Placed
<1> QED
  BY <1>1, <1>3, <1>6 DEF IInv, OneCaller

(***************************************************************************)
(* The calls                                                               *)
(***************************************************************************)
\* Repairable steps, and steps that wait for a human, may be taken up again;
\* the repairable steps of the scope are.
Loosens(rows, new, scope) ==
  /\ new \in Tables /\ SameShape(rows, new)
  /\ \A i \in DOMAIN rows :
       /\ new[i].prov = rows[i].prov
       /\ \/ new[i].st = rows[i].st
          \/ /\ new[i].st = "PENDING"
             /\ rows[i].st \in Repairable \cup {"WAITING_FOR_HUMAN_APPROVAL"}
             /\ rows[i].st = "FAILED" => i \in scope
       /\ i \in scope /\ rows[i].st \in Repairable => new[i].st = "PENDING"

\* A scope that takes up a failure takes up what is STALE because of it.
Wide(rows, scope) ==
  \A c \in scope, k \in DOMAIN rows :
    Blames(rows, c) /\ rows[k].st = "STALE" /\ k \in Downstream(rows, {c}) => k \in scope

LEMMA LoosensFollows ==
  ASSUME NEW rows, NEW new, NEW scope \in SUBSET DOMAIN rows,
         Loosens(rows, new, scope), Wide(rows, scope)
  PROVE  Follows(rows, new)
<1>1. Keeps(rows, new)
  BY DEF Loosens, Keeps, Working, Repairable
<1>2. ASSUME NEW k \in DOMAIN rows, new[k].st = "STALE"
      PROVE  rows[k].st = "STALE" /\ k \notin scope
  BY <1>2 DEF Loosens, Repairable
<1>3. ASSUME NEW k \in DOMAIN rows, new[k].st = "STALE",
             NEW c \in DOMAIN rows, Blames(rows, c), k \in Downstream(rows, {c})
      PROVE  Blames(new, c)
  <2>1. c \notin scope
    BY <1>2, <1>3 DEF Wide
  <2> QED
    BY <1>3, <2>1 DEF Loosens, Blames
<1>4. Answers(rows, new)
  BY <1>2, <1>3 DEF Answers
<1> QED
  BY <1>1, <1>4 DEF Follows

LEMMA PreambleLoosens ==
  ASSUME NEW plan \in Plans, NEW c, c.repair \subseteq DOMAIN plan.rows
  PROVE  /\ Preamble(plan, c) \in Plans /\ Preamble(plan, c).status = plan.status
         /\ Loosens(plan.rows, Preamble(plan, c).rows, c.repair)
<1> DEFINE rows == plan.rows
           scope == c.repair
           again == scope \cap Having(rows, Repairable)
           own == WithAll(rows, again, "PENDING")
           freed == {i \in Having(own, {"BLOCKED"}) : own[i].dep \cap scope # {}}
           reset == IF scope = {} THEN rows ELSE ResetForRepair(rows, scope)
           granted == c.grant \cap Having(reset, {"WAITING_FOR_HUMAN_APPROVAL"})
           new == WithAll(reset, granted, "PENDING")
<1>0. rows \in Tables /\ "PENDING" \in PlanStepStatus
  BY DEF Plans, PlanStepStatus
<1>1. reset \in Tables /\ Loosens(rows, reset, scope)
  <2>1. CASE scope = {}
    BY <1>0, <2>1 DEF Loosens, SameShape
  <2>2. CASE scope # {}
    <3>1. Marks(rows, own, again, "PENDING")
      BY <1>0, WithAllMarks DEF Having
    <3>2. own \in Tables /\ freed \in SUBSET DOMAIN own
      BY <3>1 DEF Marks, Having
    <3>3. Marks(own, WithAll(own, freed, "PENDING"), freed, "PENDING")
      BY <1>0, <3>2, WithAllMarks
    <3>4. reset = WithAll(own, freed, "PENDING")
      BY <2>2 DEF ResetForRepair
    <3> HIDE DEF reset, own, freed
    <3>5. Marks(own, reset, freed, "PENDING")
      BY <3>3, <3>4
    <3>6. \A i \in freed : own[i].st = "BLOCKED"
      BY DEF freed, Having
    <3>7. \A i \in DOMAIN rows : i \in again <=> i \in scope /\ rows[i].st \in Repairable
      BY DEF Having
    <3> HIDE DEF again
    <3>8. \A i \in again : i \in DOMAIN rows
      BY DEF Having, again
    <3>9. ASSUME NEW i \in DOMAIN rows
          PROVE  /\ reset[i].prov = rows[i].prov /\ reset[i].dep = rows[i].dep
                 /\ \/ reset[i].st = rows[i].st
                    \/ /\ reset[i].st = "PENDING"
                       /\ rows[i].st \in Repairable \cup {"WAITING_FOR_HUMAN_APPROVAL"}
                       /\ rows[i].st = "FAILED" => i \in scope
                 /\ i \in scope /\ rows[i].st \in Repairable => reset[i].st = "PENDING"
      <4>1. /\ own[i].prov = rows[i].prov /\ own[i].dep = rows[i].dep
            /\ reset[i].prov = own[i].prov /\ reset[i].dep = own[i].dep
            /\ i \in DOMAIN own
        BY <3>1, <3>5 DEF Marks, SameShape
      <4>2. CASE i \in again
        <5>1. own[i].st = "PENDING" /\ i \notin freed
          BY <3>1, <3>6, <4>2 DEF Marks
        <5>2. reset[i].st = "PENDING"
          BY <3>5, <4>1, <5>1 DEF Marks
        <5> QED
          BY <3>7, <4>1, <4>2, <5>2
      <4>3. CASE i \notin again
        <5>1. own[i].st = rows[i].st
          BY <3>1, <4>3 DEF Marks
        <5>2. CASE i \in freed
          BY <3>5, <3>6, <3>7, <4>1, <4>3, <5>1, <5>2 DEF Marks, Repairable
        <5>3. CASE i \notin freed
          BY <3>5, <3>7, <4>1, <4>3, <5>1, <5>3 DEF Marks
        <5> QED
          BY <5>2, <5>3
      <4> QED
        BY <4>2, <4>3
    <3>10. reset \in Tables /\ SameShape(rows, reset)
      BY <3>1, <3>5 DEF Marks, SameShape
    <3> QED
      BY <3>9, <3>10 DEF Loosens
  <2> QED
    BY <2>1, <2>2
<1> HIDE DEF reset
<1>2. Marks(reset, new, granted, "PENDING")
  BY <1>0, <1>1, WithAllMarks DEF Having
<1>3. \A i \in granted : reset[i].st = "WAITING_FOR_HUMAN_APPROVAL"
  BY DEF Having
<1> DEFINE begun == plan.started \/ (c.repair # {} /\ c.ctx = "official")
<1>4. Preamble(plan, c) = [plan EXCEPT !.rows = new, !.started = begun]
  BY DEF Preamble, reset, Plans
<1> HIDE DEF new, granted
<1>5. Loosens(rows, new, scope)
  <2> SUFFICES ASSUME NEW i \in DOMAIN rows
               PROVE  /\ new[i].prov = rows[i].prov /\ new[i].dep = rows[i].dep
                      /\ \/ new[i].st = rows[i].st
                         \/ /\ new[i].st = "PENDING"
                            /\ rows[i].st \in Repairable \cup {"WAITING_FOR_HUMAN_APPROVAL"}
                            /\ rows[i].st = "FAILED" => i \in scope
                      /\ i \in scope /\ rows[i].st \in Repairable => new[i].st = "PENDING"
    BY <1>1, <1>2 DEF Loosens, Marks, SameShape
  <2>1. i \in DOMAIN reset /\ new[i].prov = reset[i].prov /\ new[i].dep = reset[i].dep
    BY <1>1, <1>2 DEF Loosens, Marks, SameShape
  <2>2. /\ reset[i].prov = rows[i].prov /\ reset[i].dep = rows[i].dep
        /\ \/ reset[i].st = rows[i].st
           \/ /\ reset[i].st = "PENDING"
              /\ rows[i].st \in Repairable \cup {"WAITING_FOR_HUMAN_APPROVAL"}
              /\ rows[i].st = "FAILED" => i \in scope
        /\ i \in scope /\ rows[i].st \in Repairable => reset[i].st = "PENDING"
    BY <1>1 DEF Loosens, SameShape
  <2>3. CASE i \in granted
    BY <1>2, <1>3, <2>1, <2>2, <2>3 DEF Marks, Repairable
  <2>4. CASE i \notin granted
    BY <1>2, <2>1, <2>2, <2>4 DEF Marks
  <2> QED
    BY <2>3, <2>4
<1>6. new \in Tables
  BY <1>2 DEF Marks
<1>7. begun \in BOOLEAN
  BY Zenon DEF Plans
<1> HIDE DEF begun
<1> QED
  BY <1>4, <1>5, <1>6, <1>7 DEF Plans

LEMMA RepairScopeIsWide ==
  ASSUME NEW rows, IsFiniteSet(DOMAIN rows), NEW i \in DOMAIN rows,
         rows[i].st \in {"FAILED", "CLASSIFIED_FAILURE"},
         compute_repair_scope(rows, i, rows[i].prov)[1] # "MACRO_REPLAN"
  PROVE  /\ compute_repair_scope(rows, i, rows[i].prov)[2] \subseteq DOMAIN rows
         /\ Wide(rows, compute_repair_scope(rows, i, rows[i].prov)[2])
<1> DEFINE below == Downstream(rows, {i})
           scoped == compute_repair_scope(rows, i, rows[i].prov)
<1>1. below \subseteq DOMAIN rows
  BY DownstreamFacts
<1>2. Wide(rows, below)
  BY <1>1, DownstreamOfDownstream DEF Wide
<1>3. rows[i].prov # "assumption" \/ below = {i} => Wide(rows, {i})
  BY DEF Wide, Blames
<1>4. \/ scoped[2] = below
      \/ scoped[2] = {i} /\ (rows[i].prov # "assumption" \/ below = {i})
  BY DEF compute_repair_scope
<1> QED
  BY <1>1, <1>2, <1>3, <1>4

\* A call starts from the durable plan, or from one that differs in its counts.
SameStatus(rows, new) ==
  /\ new \in Tables /\ SameShape(rows, new)
  /\ \A i \in DOMAIN rows : new[i].st = rows[i].st /\ new[i].prov = rows[i].prov

LEMMA BeginKept ==
  ASSUME OneCaller, IInv, NEW p \in Procs, pc[p] = "idle", proposals' = proposals,
         NEW c, NEW plan \in Plans, Begin(p, c, plan), plan.status = db.status,
         SameStatus(db.rows, plan.rows),
         c.repair \subseteq DOMAIN db.rows, Wide(db.rows, c.repair)
  PROVE  IInv' /\ VerifiedKept
<1> DEFINE kept(w) == /\ w \in Plans /\ w.status = db.status
                      /\ Follows(db.rows, w.rows)
                      /\ \A i \in DOMAIN db.rows : w.rows[i].st \in {db.rows[i].st, "PENDING"}
<1>1. kept(plan)
  <2>1. Keeps(db.rows, plan.rows)
    BY DEF SameStatus, Keeps
  <2>2. Answers(db.rows, plan.rows)
    BY DEF SameStatus, Answers, Blames
  <2> QED
    BY <2>1, <2>2 DEF Follows, SameStatus
<1>2. kept(Preamble(plan, c))
  <2>1. DOMAIN plan.rows = DOMAIN db.rows
    BY DEF SameStatus, SameShape
  <2>2. PICK w : /\ w = Preamble(plan, c) /\ w \in Plans /\ w.status = plan.status
                 /\ Loosens(plan.rows, w.rows, c.repair)
    BY <2>1, PreambleLoosens
  <2>3. Loosens(db.rows, w.rows, c.repair)
    BY <2>1, <2>2 DEF Loosens, SameStatus, SameShape
  <2>4. Follows(db.rows, w.rows)
    BY <2>3, LoosensFollows
  <2> QED
    BY <2>2, <2>3, <2>4 DEF Loosens
<1>3. PICK w : /\ kept(w) /\ Update(p, w) /\ UNCHANGED <<todo, run, base, after>>
               /\ Goto(p, "linear_load") \/ Goto(p, "schedule")
  BY <1>1, <1>2 DEF Begin
<1>4. /\ db' = w /\ DbOK' /\ VerifiedKept /\ DOMAIN db'.rows = DOMAIN db.rows
  BY <1>3, DbWritten DEF IInv, Update
<1>5. /\ pc' \in [Procs -> Places] /\ pc'[p] \in {"linear_load", "schedule"}
      /\ mem' \in [Procs -> Plans] /\ mem'[p] = w
  BY <1>3 DEF IInv, FramesOK, Update, Goto, Places
<1>6. FramesOK'
  BY <1>3, <1>5 DEF IInv, FramesOK
<1>7. todo[p] \subseteq {i \in DOMAIN db.rows : db.rows[i].st \notin {"VERIFIED", "FAILED"}}
  BY DEF IInv, Placed
<1>8. todo'[p] \subseteq {i \in DOMAIN db'.rows : db'.rows[i].st \notin {"VERIFIED", "FAILED"}}
  BY <1>3, <1>4, <1>7
<1>9. Placed(p)'
  BY <1>4, <1>5, <1>8 DEF Placed
<1> QED
  BY <1>4, <1>6, <1>9 DEF IInv, OneCaller

LEMMA ExecuteGoalKept ==
  ASSUME OneCaller, IInv, NEW p \in Procs, execute_goal(p) \/ resume_after_approval(p)
  PROVE  IInv' /\ VerifiedKept
<1>1. PICK c : /\ c.repair = {} /\ Begin(p, c, db) /\ pc[p] = "idle" /\ proposals' = proposals
  BY DEF execute_goal, resume_after_approval
<1>2. db \in Plans /\ SameStatus(db.rows, db.rows) /\ Wide(db.rows, c.repair)
  BY <1>1 DEF IInv, DbOK, Plans, SameStatus, SameShape, Wide
<1> QED
  BY <1>1, <1>2, BeginKept

LEMMA NothingMoved ==
  ASSUME OneCaller, IInv, UNCHANGED <<db, mem, pc, Frame, proposals>>
  PROVE  IInv' /\ VerifiedKept
BY DEF IInv, DbOK, FramesOK, Placed, Finishing, Closing, Frame, VerifiedKept, Having

LEMMA RepairKept ==
  ASSUME OneCaller, IInv, NEW p \in Procs, repair_after_failure(p)
  PROVE  IInv' /\ VerifiedKept
<1>0. pc[p] = "idle" /\ proposals' = proposals
  BY DEF repair_after_failure
<1>1. PICK ctx \in Contexts, i \in Having(db.rows, {"FAILED", "CLASSIFIED_FAILURE"}),
           typed, refused \in BOOLEAN :
       LET scoped == compute_repair_scope(db.rows, i, db.rows[i].prov)
           scope == EscalatedScope(scoped[1], typed)
           counted == [k \in DOMAIN db.rows |->
             IF k \in scoped[2] THEN [db.rows[k] EXCEPT !.cnt = @ + 1] ELSE db.rows[k]]
       IN \/ UNCHANGED <<db, mem, pc, Frame>>
          \/ /\ mem' = [mem EXCEPT ![p] = db] /\ Goto(p, "replan")
             /\ base' = [base EXCEPT ![p] = db] /\ after' = [after EXCEPT ![p] = "repair"]
             /\ run' = [run EXCEPT ![p] = i] /\ UNCHANGED <<db, todo, call>>
          \/ /\ scope # "MACRO_REPLAN"
             /\ Begin(p, [ctx |-> ctx, grant |-> {}, repair |-> scoped[2]],
                           [db EXCEPT !.rows = counted])
  BY Zenon DEF repair_after_failure
<1> DEFINE scoped == compute_repair_scope(db.rows, i, db.rows[i].prov)
           counted == [k \in DOMAIN db.rows |->
             IF k \in scoped[2] THEN [db.rows[k] EXCEPT !.cnt = @ + 1] ELSE db.rows[k]]
<1>2. i \in DOMAIN db.rows /\ db.rows[i].st \in {"FAILED", "CLASSIFIED_FAILURE"}
  BY DEF Having
<1>3. CASE UNCHANGED <<db, mem, pc, Frame>>
  BY <1>0, <1>3, NothingMoved
<1>4. CASE /\ mem' = [mem EXCEPT ![p] = db] /\ Goto(p, "replan")
           /\ base' = [base EXCEPT ![p] = db] /\ after' = [after EXCEPT ![p] = "repair"]
           /\ run' = [run EXCEPT ![p] = i] /\ UNCHANGED <<db, todo, call>>
  <2>1. DbOK' /\ VerifiedKept /\ db \in Plans
    BY <1>0, <1>4 DEF IInv, DbOK, VerifiedKept, Having
  <2>2. i \in Nat
    BY <1>2, <2>1, TablesAre DEF Plans
  <2>3. FramesOK' /\ pc'[p] = "replan" /\ run'[p] = i /\ after'[p] = "repair" /\ base'[p] = db
    BY <1>4, <2>1, <2>2 DEF IInv, FramesOK, Goto, Places
  <2>4. todo[p] \subseteq {j \in DOMAIN db.rows : db.rows[j].st \notin {"VERIFIED", "FAILED"}}
    BY DEF IInv, Placed
  <2>5. todo[p] = {}
    BY <1>0 DEF IInv, Placed
  <2>6. Placed(p)'
    BY <1>2, <1>4, <2>3, <2>4, <2>5 DEF Placed
  <2> QED
    BY <2>1, <2>3, <2>6 DEF IInv, OneCaller
<1>5. CASE /\ EscalatedScope(scoped[1], typed) # "MACRO_REPLAN"
           /\ Begin(p, [ctx |-> ctx, grant |-> {}, repair |-> scoped[2]],
                       [db EXCEPT !.rows = counted])
  <2> DEFINE c == [ctx |-> ctx, grant |-> {}, repair |-> scoped[2]]
             plan == [db EXCEPT !.rows = counted]
  <2>1. scoped[1] # "MACRO_REPLAN"
    BY <1>5 DEF EscalatedScope
  <2>2. db \in Plans /\ proposals + 1 \in Nat /\ IsFiniteSet(DOMAIN db.rows)
    BY TableIsFinite DEF IInv, DbOK, RowsOK
  <2>3. c.repair \subseteq DOMAIN db.rows /\ Wide(db.rows, c.repair)
    BY <1>2, <2>1, <2>2, RepairScopeIsWide
  <2>4. db.rows \in [DOMAIN db.rows -> Row] /\ DOMAIN db.rows \subseteq Nat
    BY <2>2, TablesAre DEF Plans
  <2> HIDE DEF scoped
  <2>5. ASSUME NEW k \in DOMAIN db.rows
        PROVE  /\ counted[k] \in Row /\ counted[k].dep = db.rows[k].dep
               /\ counted[k].st = db.rows[k].st /\ counted[k].prov = db.rows[k].prov
    <3> DEFINE n == db.rows[k].cnt + 1
               row == [db.rows[k] EXCEPT !.cnt = n]
    <3>1. n \in Nat
      BY <2>4 DEF Row
    <3>2. counted[k] = row \/ counted[k] = db.rows[k]
      BY <2>4 DEF Row
    <3> HIDE DEF n
    <3>3. /\ row \in Row /\ row.dep = db.rows[k].dep
          /\ row.st = db.rows[k].st /\ row.prov = db.rows[k].prov
      BY <2>4, <3>1 DEF Row
    <3> QED
      BY <2>4, <3>2, <3>3
  <2>6. counted \in [DOMAIN db.rows -> Row] /\ DOMAIN counted = DOMAIN db.rows
    BY <2>5
  <2> HIDE DEF counted
  <2>7. SameStatus(db.rows, counted)
    BY <2>4, <2>5, <2>6, TablesAre DEF SameStatus, SameShape
  <2>8. plan \in Plans /\ plan.status = db.status /\ plan.rows = counted
    BY <2>2, <2>7 DEF Plans, SameStatus
  <2>9. Begin(p, c, plan)
    BY <1>5
  <2> HIDE DEF plan, c
  <2> QED
    BY <1>0, <2>3, <2>7, <2>8, <2>9, BeginKept
<1> QED
  BY <1>1, <1>3, <1>4, <1>5, Zenon

(***************************************************************************)
(* The loops                                                               *)
(***************************************************************************)
LEMMA Scheduled ==
  ASSUME NEW rows
  PROVE  /\ Schedule(rows).ready \subseteq DOMAIN rows
         /\ Schedule(rows).blocked \subseteq DOMAIN rows
         /\ Schedule(rows).ready \cap Schedule(rows).blocked = {}
         /\ \A i \in Schedule(rows).ready \cup Schedule(rows).blocked :
              rows[i].st \notin {"VERIFIED", "FAILED"}
BY DEF Schedule, Having, TerminalVerified, FailedOrBlocked

LEMMA Eligible ==
  ASSUME NEW rows, NEW i, NEW met,
         evaluate_step_eligibility(rows, i, met) = "all_conditions_met"
  PROVE  \A d \in rows[i].dep : rows[d].st = "VERIFIED"
<1>1. Unmet(rows, i) = {}
  BY DEF evaluate_step_eligibility
<1> QED
  BY <1>1 DEF Unmet, Having

\* The blocked steps of a table that a loop has just scheduled.
LEMMA BlockedFollows ==
  ASSUME NEW rows \in Tables
  PROVE  /\ Marks(rows, WithAll(rows, Schedule(rows).blocked, "BLOCKED"),
                  Schedule(rows).blocked, "BLOCKED")
         /\ Follows(rows, WithAll(rows, Schedule(rows).blocked, "BLOCKED"))
<1> DEFINE blocked == Schedule(rows).blocked
           new == WithAll(rows, blocked, "BLOCKED")
<1>1. blocked \subseteq DOMAIN rows /\ \A i \in blocked : rows[i].st \notin {"VERIFIED", "FAILED"}
  BY Scheduled
<1>2. "BLOCKED" \in PlanStepStatus /\ "BLOCKED" \notin Working \cup {"STALE"}
  BY DEF PlanStepStatus, Working
<1> HIDE DEF blocked
<1>3. Marks(rows, new, blocked, "BLOCKED")
  BY <1>1, <1>2, WithAllMarks
<1> HIDE DEF new
<1>4. Follows(rows, new)
  BY <1>1, <1>2, <1>3, MarksFollows
<1> QED
  BY <1>3, <1>4 DEF new, blocked

LEMMA ScheduleStepsKept ==
  ASSUME OneCaller, IInv, NEW p \in Procs, ScheduleSteps(p)
  PROVE  IInv' /\ VerifiedKept
<1> DEFINE rows == db.rows
           s == Schedule(rows)
           new == WithAll(rows, s.blocked, "BLOCKED")
           plan == [db EXCEPT !.rows = new]
<1>1. db \in Plans /\ rows \in Tables
  BY DEF IInv, DbOK, Plans
<1>2. Marks(rows, new, s.blocked, "BLOCKED") /\ Follows(rows, new)
  BY <1>1, BlockedFollows
<1>3. /\ Update(p, plan) /\ todo' = [todo EXCEPT ![p] = s.ready] /\ Goto(p, "dispatch")
      /\ UNCHANGED <<run, base, after, proposals>>
  BY DEF ScheduleSteps
<1>4. /\ s.ready \subseteq DOMAIN rows /\ s.ready \cap s.blocked = {}
      /\ \A i \in s.ready : rows[i].st \notin {"VERIFIED", "FAILED"}
  BY Scheduled
<1> HIDE DEF new, s
<1>5. plan \in Plans /\ plan.rows = new /\ plan.status = db.status
  BY <1>1, <1>2 DEF Plans, Marks
<1> HIDE DEF plan
<1>6. /\ db' = plan /\ DbOK' /\ VerifiedKept /\ DOMAIN db'.rows = DOMAIN rows
  BY <1>2, <1>3, <1>5, DbWritten DEF IInv, Update
<1>7. rows \in [DOMAIN rows -> Row] /\ DOMAIN rows \subseteq Nat
  BY <1>1, TablesAre
<1>8. /\ FramesOK' /\ pc'[p] = "dispatch" /\ mem'[p] = plan /\ todo'[p] = s.ready
  BY <1>3, <1>4, <1>5, <1>7 DEF IInv, FramesOK, Update, Goto, Places
<1>9. \A i \in s.ready : new[i] = rows[i]
  BY <1>2, <1>4 DEF Marks
<1>10. s.ready \subseteq {i \in DOMAIN db'.rows : db'.rows[i].st \notin {"VERIFIED", "FAILED"}}
  BY <1>4, <1>5, <1>6, <1>9
<1>11. Placed(p)'
  BY <1>6, <1>8, <1>10 DEF Placed
<1> QED
  BY <1>6, <1>8, <1>11 DEF IInv, OneCaller

\* A loop takes the step i from its list and writes what becomes of it.
LEMMA TakenKept ==
  ASSUME OneCaller, IInv, NEW p \in Procs, pc[p] \in {"dispatch", "linear"},
         NEW i \in todo[p], todo' = [todo EXCEPT ![p] = @ \ {i}],
         NEW plan \in Plans, Update(p, plan), UNCHANGED <<base, after, proposals>>,
         plan.status \in {db.status, "WAITING_FOR_HUMAN_APPROVAL"},
         \/ /\ UNCHANGED <<pc, run>>
            /\ \/ plan.rows = db.rows
               \/ \E s \in {"WAITING_FOR_HUMAN_APPROVAL", "PRECONDITION_FAILED", "BLOCKED"} :
                    Edits(db.rows, plan.rows, i, s)
         \/ /\ Goto(p, "running") /\ run' = [run EXCEPT ![p] = i]
            /\ Edits(db.rows, plan.rows, i, "RUNNING")
            /\ \A d \in db.rows[i].dep : db.rows[d].st = "VERIFIED"
  PROVE  IInv' /\ VerifiedKept
<1>1. i \in DOMAIN db.rows /\ db.rows[i].st \notin {"VERIFIED", "FAILED"}
  BY DEF IInv, Placed
<1>2. Follows(db.rows, plan.rows)
  <2>1. CASE plan.rows = db.rows
    BY <2>1 DEF Follows, Keeps, Answers, SameShape, Plans
  <2>2. CASE \E s \in {"WAITING_FOR_HUMAN_APPROVAL", "PRECONDITION_FAILED", "BLOCKED"} :
               Edits(db.rows, plan.rows, i, s)
    BY <1>1, <2>2, OnlyFollows DEF Edits, Working
  <2>3. CASE /\ Edits(db.rows, plan.rows, i, "RUNNING")
             /\ \A d \in db.rows[i].dep : db.rows[d].st = "VERIFIED"
    BY <1>1, <2>3, OnlyFollows DEF Edits
  <2> QED
    BY <2>1, <2>2, <2>3
<1>3. /\ db' = plan /\ DbOK' /\ VerifiedKept /\ DOMAIN db'.rows = DOMAIN db.rows
  BY <1>2, DbWritten DEF IInv, Update
<1>4. i \in Nat
  BY DEF IInv, FramesOK
<1>5. /\ mem' \in [Procs -> Plans] /\ mem'[p] = plan
      /\ todo' \in [Procs -> SUBSET Nat] /\ todo'[p] = todo[p] \ {i}
      /\ pc' \in [Procs -> Places] /\ run' \in [Procs -> Nat]
      /\ \/ pc'[p] \in {"dispatch", "linear"}
         \/ pc'[p] = "running" /\ run'[p] = i /\ plan.rows[i].st = "RUNNING"
  BY <1>4 DEF IInv, FramesOK, Update, Goto, Places, Edits
<1>6. FramesOK'
  BY <1>5 DEF IInv, FramesOK
<1>7. \A j \in DOMAIN db.rows \ {i} : plan.rows[j] = db.rows[j]
  BY DEF Edits, Only
<1>8. todo[p] \subseteq {j \in DOMAIN db.rows : db.rows[j].st \notin {"VERIFIED", "FAILED"}}
  BY DEF IInv, Placed
<1>9. todo'[p] \subseteq {j \in DOMAIN db'.rows : db'.rows[j].st \notin {"VERIFIED", "FAILED"}}
  BY <1>3, <1>5, <1>7, <1>8
<1>10. Placed(p)'
  BY <1>1, <1>3, <1>5, <1>9 DEF Placed
<1> QED
  BY <1>3, <1>6, <1>10 DEF IInv, OneCaller

LEMMA DispatchKept ==
  ASSUME OneCaller, IInv, NEW p \in Procs, Dispatch(p)
  PROVE  IInv' /\ VerifiedKept
<1> DEFINE i == Min(todo[p])
           rows == db.rows
<1>1. pc[p] = "dispatch" /\ mem[p] = db /\ i \in todo[p]
  BY MinIsMember DEF Dispatch, IInv, FramesOK, Placed
<1>2. i \in DOMAIN rows /\ db \in Plans /\ rows \in Tables
  BY <1>1 DEF IInv, Placed, DbOK, Plans
<1>3. PICK met \in BOOLEAN :
        /\ todo' = [todo EXCEPT ![p] = @ \ {i}]
        /\ \/ /\ Update(p, [SetRows(p, With(mem[p].rows, i, "WAITING_FOR_HUMAN_APPROVAL"))
                              EXCEPT !.status = "WAITING_FOR_HUMAN_APPROVAL"])
              /\ UNCHANGED <<pc, run>>
           \/ /\ Update(p, SetRows(p,
                   IF evaluate_step_eligibility(rows, i, met) = "precondition_failed"
                   THEN With(mem[p].rows, i, "PRECONDITION_FAILED") ELSE mem[p].rows))
              /\ UNCHANGED <<pc, run>>
           \/ /\ evaluate_step_eligibility(rows, i, met) = "all_conditions_met"
              /\ Update(p, SetRows(p, With(mem[p].rows, i, "RUNNING")))
              /\ run' = [run EXCEPT ![p] = i] /\ Goto(p, "running")
  BY DEF Dispatch
<1>4. UNCHANGED <<base, after, proposals>>
  BY DEF Dispatch
<1> HIDE DEF i
<1>5. ASSUME NEW s \in PlanStepStatus
      PROVE  Edits(rows, With(rows, i, s), i, s) /\ With(rows, i, s) \in Tables
  BY <1>2, RowEdits DEF Edits, Only
<1>6. {"WAITING_FOR_HUMAN_APPROVAL", "PRECONDITION_FAILED", "RUNNING"} \subseteq PlanStepStatus
  BY DEF PlanStepStatus
<1>7. CASE /\ Update(p, [SetRows(p, With(mem[p].rows, i, "WAITING_FOR_HUMAN_APPROVAL"))
                              EXCEPT !.status = "WAITING_FOR_HUMAN_APPROVAL"])
           /\ UNCHANGED <<pc, run>>
  <2> DEFINE new == With(rows, i, "WAITING_FOR_HUMAN_APPROVAL")
             plan == [db EXCEPT !.rows = new, !.status = "WAITING_FOR_HUMAN_APPROVAL"]
  <2>1. Edits(rows, new, i, "WAITING_FOR_HUMAN_APPROVAL") /\ new \in Tables
    BY <1>5, <1>6
  <2>2. Update(p, plan)
    BY <1>1, <1>7 DEF SetRows
  <2> HIDE DEF new
  <2>3. /\ plan \in Plans /\ plan.status = "WAITING_FOR_HUMAN_APPROVAL" /\ plan.rows = new
    BY <1>2, <2>1 DEF Plans, PlanStatus
  <2> HIDE DEF plan
  <2> QED
    BY <1>1, <1>3, <1>4, <1>7, <2>1, <2>2, <2>3, TakenKept
<1>8. CASE /\ Update(p, SetRows(p,
                   IF evaluate_step_eligibility(rows, i, met) = "precondition_failed"
                   THEN With(mem[p].rows, i, "PRECONDITION_FAILED") ELSE mem[p].rows))
           /\ UNCHANGED <<pc, run>>
  <2> DEFINE failed == With(rows, i, "PRECONDITION_FAILED")
             new == IF evaluate_step_eligibility(rows, i, met) = "precondition_failed"
                    THEN failed ELSE rows
             plan == [db EXCEPT !.rows = new]
  <2>1. Edits(rows, failed, i, "PRECONDITION_FAILED") /\ failed \in Tables
    BY <1>5, <1>6
  <2>2. Update(p, plan)
    BY <1>1, <1>8 DEF SetRows
  <2> HIDE DEF failed
  <2>3. new \in Tables /\ (new = rows \/ Edits(rows, new, i, "PRECONDITION_FAILED"))
    BY <1>2, <2>1
  <2> HIDE DEF new
  <2>4. /\ plan \in Plans /\ plan.status = db.status /\ plan.rows = new
    BY <1>2, <2>3 DEF Plans
  <2> HIDE DEF plan
  <2> QED
    BY <1>1, <1>3, <1>4, <1>8, <2>2, <2>3, <2>4, TakenKept
<1>9. CASE /\ evaluate_step_eligibility(rows, i, met) = "all_conditions_met"
           /\ Update(p, SetRows(p, With(mem[p].rows, i, "RUNNING")))
           /\ run' = [run EXCEPT ![p] = i] /\ Goto(p, "running")
  <2> DEFINE new == With(rows, i, "RUNNING")
             plan == [db EXCEPT !.rows = new]
  <2>1. Edits(rows, new, i, "RUNNING") /\ new \in Tables
    BY <1>5, <1>6
  <2>2. Update(p, plan)
    BY <1>1, <1>9 DEF SetRows
  <2> HIDE DEF new
  <2>3. /\ plan \in Plans /\ plan.status = db.status /\ plan.rows = new
    BY <1>2, <2>1 DEF Plans
  <2>4. \A d \in rows[i].dep : rows[d].st = "VERIFIED"
    BY <1>9, Eligible
  <2> HIDE DEF plan
  <2> QED
    BY <1>1, <1>3, <1>4, <1>9, <2>1, <2>2, <2>3, <2>4, TakenKept
<1> QED
  BY <1>3, <1>7, <1>8, <1>9

LEMMA LinearStepKept ==
  ASSUME OneCaller, IInv, NEW p \in Procs, LinearStep(p)
  PROVE  IInv' /\ VerifiedKept
<1> DEFINE i == Min(todo[p])
           rows == db.rows
           why == evaluate_step_eligibility(rows, i, FALSE)
<1>1. pc[p] = "linear" /\ mem[p] = db /\ i \in todo[p] /\ proposals' = proposals
  BY MinIsMember DEF LinearStep, IInv, FramesOK, Placed
<1>2. /\ i \in DOMAIN rows /\ db \in Plans /\ rows \in Tables
      /\ rows[i].st \notin {"VERIFIED", "FAILED"}
  BY <1>1 DEF IInv, Placed, DbOK, Plans
<1>3. \/ \E s \in {"PRECONDITION_FAILED", "BLOCKED"} :
           /\ Update(p, SetRows(p, With(mem[p].rows, i, s)))
           /\ todo' = [todo EXCEPT ![p] = @ \ {i}]
           /\ UNCHANGED <<pc, run, call, base, after>>
      \/ ReturnWith(p, [SetRows(p, With(mem[p].rows, i, "WAITING_FOR_HUMAN_APPROVAL"))
                          EXCEPT !.status = "WAITING_FOR_HUMAN_APPROVAL"])
      \/ /\ why = "all_conditions_met"
         /\ Update(p, SetRows(p, With(mem[p].rows, i, "RUNNING")))
         /\ todo' = [todo EXCEPT ![p] = @ \ {i}]
         /\ run' = [run EXCEPT ![p] = i] /\ Goto(p, "running") /\ UNCHANGED <<call, base, after>>
  BY <1>1 DEF LinearStep
<1> HIDE DEF i
<1>4. ASSUME NEW s \in PlanStepStatus
      PROVE  Edits(rows, With(rows, i, s), i, s) /\ With(rows, i, s) \in Tables
  BY <1>2, RowEdits DEF Edits, Only
<1>5. {"WAITING_FOR_HUMAN_APPROVAL", "PRECONDITION_FAILED", "RUNNING", "BLOCKED"} \subseteq PlanStepStatus
  BY DEF PlanStepStatus
<1>6. ASSUME NEW s \in {"PRECONDITION_FAILED", "BLOCKED"},
             Update(p, SetRows(p, With(mem[p].rows, i, s))),
             todo' = [todo EXCEPT ![p] = @ \ {i}],
             UNCHANGED <<pc, run, call, base, after>>
      PROVE  IInv' /\ VerifiedKept
  <2> DEFINE new == With(rows, i, s)
             plan == [db EXCEPT !.rows = new]
  <2>1. Edits(rows, new, i, s) /\ new \in Tables
    BY <1>4, <1>5
  <2>2. Update(p, plan)
    BY <1>1, <1>6 DEF SetRows
  <2> HIDE DEF new
  <2>3. /\ plan \in Plans /\ plan.status = db.status /\ plan.rows = new
    BY <1>2, <2>1 DEF Plans
  <2> HIDE DEF plan
  <2> QED
    BY <1>1, <1>6, <2>1, <2>2, <2>3, TakenKept
<1>7. CASE ReturnWith(p, [SetRows(p, With(mem[p].rows, i, "WAITING_FOR_HUMAN_APPROVAL"))
                            EXCEPT !.status = "WAITING_FOR_HUMAN_APPROVAL"])
  <2> DEFINE new == With(rows, i, "WAITING_FOR_HUMAN_APPROVAL")
             plan == [db EXCEPT !.rows = new, !.status = "WAITING_FOR_HUMAN_APPROVAL"]
  <2>1. Edits(rows, new, i, "WAITING_FOR_HUMAN_APPROVAL") /\ new \in Tables
    BY <1>4, <1>5
  <2>2. ReturnWith(p, plan)
    BY <1>1, <1>7 DEF SetRows
  <2> HIDE DEF new
  <2>3. /\ plan \in Plans /\ plan.status = "WAITING_FOR_HUMAN_APPROVAL" /\ plan.rows = new
    BY <1>2, <2>1 DEF Plans, PlanStatus
  <2>4. Follows(rows, new)
    BY <1>2, <2>1, OnlyFollows DEF Edits, Working
  <2> HIDE DEF plan
  <2> QED
    BY <1>1, <2>2, <2>3, <2>4, ReturnWithKept
<1>8. CASE /\ why = "all_conditions_met"
           /\ Update(p, SetRows(p, With(mem[p].rows, i, "RUNNING")))
           /\ todo' = [todo EXCEPT ![p] = @ \ {i}]
           /\ run' = [run EXCEPT ![p] = i] /\ Goto(p, "running") /\ UNCHANGED <<call, base, after>>
  <2> DEFINE new == With(rows, i, "RUNNING")
             plan == [db EXCEPT !.rows = new]
  <2>1. Edits(rows, new, i, "RUNNING") /\ new \in Tables
    BY <1>4, <1>5
  <2>2. Update(p, plan)
    BY <1>1, <1>8 DEF SetRows
  <2> HIDE DEF new
  <2>3. /\ plan \in Plans /\ plan.status = db.status /\ plan.rows = new
    BY <1>2, <2>1 DEF Plans
  <2>4. \A d \in rows[i].dep : rows[d].st = "VERIFIED"
    BY <1>8, Eligible
  <2> HIDE DEF plan
  <2> QED
    BY <1>1, <1>8, <2>1, <2>2, <2>3, <2>4, TakenKept
<1> QED
  BY <1>3, <1>6, <1>7, <1>8

\* The loop of a LINEAR plan lists what it will try.
LEMMA LinearLoadKept ==
  ASSUME OneCaller, IInv, NEW p \in Procs, LinearLoad(p)
  PROVE  IInv' /\ VerifiedKept
<1> DEFINE listed == Having(db.rows, {"PENDING", "RUNNING", "WAITING_FOR_HUMAN_APPROVAL"})
<1>1. DbOK' /\ VerifiedKept /\ db' = db /\ db \in Plans
  BY DEF LinearLoad, IInv, DbOK, VerifiedKept, Having
<1>2. db.rows \in [DOMAIN db.rows -> Row] /\ DOMAIN db.rows \subseteq Nat
  BY <1>1, TablesAre DEF Plans
<1>3. listed \subseteq {i \in DOMAIN db.rows : db.rows[i].st \notin {"VERIFIED", "FAILED"}}
  BY DEF Having
<1>4. /\ FramesOK' /\ pc'[p] = "linear" /\ mem'[p] = db /\ todo'[p] = listed
  BY <1>1, <1>2, <1>3 DEF LinearLoad, IInv, FramesOK, Goto, Places
<1>5. Placed(p)'
  BY <1>1, <1>3, <1>4 DEF Placed
<1> QED
  BY <1>1, <1>4, <1>5 DEF IInv, OneCaller

\* Completion: when every step is VERIFIED or STALE, no STALE one is excused, so
\* the steps that cover the graph are VERIFIED.
LEMMA DoneIsAllDone ==
  ASSUME NEW rows, Covered(rows), PlanDone(rows)
  PROVE  AllDone(rows)
<1>1. \A i \in DOMAIN rows : rows[i].st \in {"VERIFIED", "STALE"}
  BY DEF PlanDone, Having
<1>2. \A k \in DOMAIN rows : ~ Excused(rows, k)
  BY <1>1 DEF Excused, Blames
<1>3. PICK cur \in SUBSET DOMAIN rows : Covers(rows, cur)
  BY DEF Covered
<1> QED
  BY <1>1, <1>2, <1>3 DEF Covers, AllDone

LEMMA LinearEndKept ==
  ASSUME OneCaller, IInv, NEW p \in Procs, LinearEnd(p)
  PROVE  IInv' /\ VerifiedKept
<1> DEFINE status == IF PlanDone(db.rows) THEN "COMPLETED"
                     ELSE IF Having(db.rows, {"WAITING_FOR_VERIFICATION"}) # {}
                     THEN "WAITING_FOR_VERIFICATION" ELSE "FAILED"
           plan == [db EXCEPT !.status = status]
<1>1. ReturnWith(p, plan) /\ proposals' = proposals
  BY DEF LinearEnd
<1>2. db \in Plans /\ Covered(db.rows)
  BY DEF IInv, DbOK, RowsOK
<1>3. status \in PlanStatus /\ (status = "COMPLETED" => AllDone(db.rows))
  BY <1>2, DoneIsAllDone DEF PlanStatus
<1> HIDE DEF status
<1>4. plan \in Plans /\ plan.rows = db.rows /\ plan.status = status
  BY <1>2, <1>3 DEF Plans
<1>5. Follows(db.rows, db.rows)
  BY <1>2 DEF Follows, Keeps, Answers, SameShape, Plans
<1> QED
  BY <1>1, <1>3, <1>4, <1>5, ReturnWithKept

LEMMA LoopEndKept ==
  ASSUME OneCaller, IInv, NEW p \in Procs, LoopEnd(p)
  PROVE  IInv' /\ VerifiedKept
<1> DEFINE rows == db.rows
           s == Schedule(rows)
           new == WithAll(rows, s.blocked, "BLOCKED")
<1>1. /\ pc[p] = "dispatch" /\ todo[p] = {} /\ mem[p] = db /\ proposals' = proposals
  BY DEF LoopEnd, IInv, Placed
<1>2. \/ Goto(p, "schedule") /\ UNCHANGED <<db, mem, Frame>>
      \/ \E status \in {"WAITING_FOR_HUMAN_APPROVAL", "WAITING_FOR_VERIFICATION"} :
           ReturnWith(p, [db EXCEPT !.status = status])
      \/ \E status \in {"COMPLETED", "FAILED"} :
           /\ ReturnWith(p, [SetRows(p, new) EXCEPT !.status = status])
           /\ status = "COMPLETED" => PlanDone(rows)
  BY <1>1, Zenon DEF LoopEnd
<1>3. db \in Plans /\ Covered(rows) /\ rows \in Tables
  BY DEF IInv, DbOK, RowsOK, Plans
<1>4. CASE Goto(p, "schedule") /\ UNCHANGED <<db, mem, Frame>>
  <2>1. DbOK' /\ VerifiedKept
    BY <1>1, <1>4 DEF IInv, DbOK, VerifiedKept, Having
  <2>2. FramesOK' /\ pc'[p] = "schedule"
    BY <1>4 DEF IInv, FramesOK, Goto, Places, Frame
  <2>3. Placed(p)'
    BY <1>1, <1>4, <2>2 DEF Placed, Frame
  <2> QED
    BY <2>1, <2>2, <2>3 DEF IInv, OneCaller
<1>5. ASSUME NEW status \in {"WAITING_FOR_HUMAN_APPROVAL", "WAITING_FOR_VERIFICATION"},
             ReturnWith(p, [db EXCEPT !.status = status])
      PROVE  IInv' /\ VerifiedKept
  <2> DEFINE plan == [db EXCEPT !.status = status]
  <2>1. plan \in Plans /\ plan.rows = rows /\ plan.status = status
    BY <1>3 DEF Plans, PlanStatus
  <2>2. Follows(rows, rows)
    BY <1>3 DEF Follows, Keeps, Answers, SameShape
  <2> QED
    BY <1>1, <1>5, <2>1, <2>2, ReturnWithKept
<1>6. ASSUME NEW status \in {"COMPLETED", "FAILED"}, status = "COMPLETED" => PlanDone(rows),
             ReturnWith(p, [SetRows(p, new) EXCEPT !.status = status])
      PROVE  IInv' /\ VerifiedKept
  <2> DEFINE plan == [db EXCEPT !.rows = new, !.status = status]
  <2>1. ReturnWith(p, plan)
    BY <1>1, <1>6 DEF SetRows
  <2>2. Marks(rows, new, s.blocked, "BLOCKED") /\ Follows(rows, new)
    BY <1>3, BlockedFollows
  <2> HIDE DEF new
  <2>3. plan \in Plans /\ plan.rows = new /\ plan.status = status
    BY <1>3, <2>2 DEF Plans, PlanStatus, Marks
  <2>4. AllDone(rows) => AllDone(new)
    BY <2>2 DEF AllDone, Follows, Keeps, SameShape
  <2>5. status = "COMPLETED" => AllDone(new)
    BY <1>3, <1>6, <2>4, DoneIsAllDone
  <2> HIDE DEF plan
  <2> QED
    BY <1>1, <2>1, <2>2, <2>3, <2>5, ReturnWithKept
<1> QED
  BY <1>2, <1>4, <1>5, <1>6

(***************************************************************************)
(* The end of a run                                                        *)
(***************************************************************************)
LEMMA EditedAgain ==
  ASSUME NEW rows, NEW mid, NEW new, NEW i, NEW r, NEW s, Edits(rows, mid, i, r), Edits(mid, new, i, s)
  PROVE  Edits(rows, new, i, s)
BY OnlyAgain DEF Edits

LEMMA FailedEdits ==
  ASSUME NEW rows \in Tables, NEW i \in DOMAIN rows, NEW prov \in Provenance
  PROVE  /\ Edits(rows, Failed(Finalized(rows, i), i, prov), i, "FAILED")
         /\ Failed(Finalized(rows, i), i, prov)[i].prov = prov
<1> DEFINE mid == Finalized(rows, i)
<1>1. Edits(rows, mid, i, rows[i].st)
  BY RowEdits
<1>2. mid \in Tables /\ i \in DOMAIN mid
  BY <1>1 DEF Edits, Only, SameShape
<1> HIDE DEF mid
<1>3. Edits(mid, Failed(mid, i, prov), i, "FAILED")
  BY <1>2, RowEdits
<1>4. mid[i] \in Row /\ mid \in [DOMAIN mid -> Row]
  BY <1>2, TablesAre
<1>5. Failed(mid, i, prov)[i].prov = prov
  BY <1>2, <1>4 DEF Failed, Row
<1> QED
  BY <1>1, <1>3, <1>5, EditedAgain DEF mid

LEMMA RepairedEdits ==
  ASSUME NEW rows, NEW mid, NEW i \in DOMAIN rows, NEW r, Edits(rows, mid, i, r)
  PROVE  Edits(rows, LocalRepair(mid, i), i, "PENDING")
<1>1. mid \in Tables /\ i \in DOMAIN mid
  BY DEF Edits, Only, SameShape
<1>2. Edits(mid, LocalRepair(mid, i), i, "PENDING")
  BY <1>1, RowEdits
<1> QED
  BY <1>2, EditedAgain

\* The row of the run gets its result, and the loop goes on or the call ends.
LEMMA SettledKept ==
  ASSUME OneCaller, IInv, NEW p \in Procs, pc[p] \in {"running", "claim", "replan"},
         db.rows[run[p]].st = "RUNNING", proposals' = proposals,
         NEW new, NEW s, Edits(db.rows, new, run[p], s), s # "STALE",
         s \in Working => s = "VERIFIED" \/ s = "WAITING_FOR_VERIFICATION",
         \/ NextStep(p, [db EXCEPT !.rows = new])
         \/ ReturnWith(p, [db EXCEPT !.rows = new, !.status = "FAILED"])
  PROVE  IInv' /\ VerifiedKept
<1>1. /\ run[p] \in DOMAIN db.rows \ todo[p] /\ db \in Plans
      /\ todo[p] \subseteq {i \in DOMAIN db.rows : db.rows[i].st \notin {"VERIFIED", "FAILED"}}
  BY DEF IInv, Placed, DbOK
<1>2. Follows(db.rows, new)
  BY <1>1, OnlyFollows DEF Edits, Working
<1>3. new \in Tables /\ \A i \in todo[p] : new[i] = db.rows[i]
  BY <1>1 DEF Edits, Only
<1>4. CASE NextStep(p, [db EXCEPT !.rows = new])
  <2> DEFINE plan == [db EXCEPT !.rows = new]
  <2>1. plan \in Plans /\ plan.rows = new /\ plan.status = db.status
    BY <1>1, <1>3 DEF Plans
  <2>2. NextStep(p, plan)
    BY <1>4
  <2> HIDE DEF plan
  <2> QED
    BY <1>1, <1>2, <1>3, <2>1, <2>2, NextStepKept
<1>5. CASE ReturnWith(p, [db EXCEPT !.rows = new, !.status = "FAILED"])
  <2> DEFINE plan == [db EXCEPT !.rows = new, !.status = "FAILED"]
  <2>1. plan \in Plans /\ plan.rows = new /\ plan.status = "FAILED"
    BY <1>1, <1>3 DEF Plans, PlanStatus
  <2>2. ReturnWith(p, plan)
    BY <1>5
  <2> HIDE DEF plan
  <2> QED
    BY <1>2, <2>1, <2>2, ReturnWithKept
<1> QED
  BY <1>4, <1>5

\* Nothing downstream of an unverified step is VERIFIED.
LEMMA UnverifiedBelow ==
  ASSUME NEW rows, IsFiniteSet(DOMAIN rows), Grounded(rows),
         NEW i \in DOMAIN rows, rows[i].st # "VERIFIED"
  PROVE  \A k \in Downstream(rows, {i}) : k \in DOMAIN rows /\ rows[k].st # "VERIFIED"
<1> DEFINE U == {k \in DOMAIN rows : rows[k].st # "VERIFIED"}
<1>1. Closed(rows, U)
  BY DEF Closed, Grounded, Working
<1>2. Downstream(rows, {i}) \subseteq U
  BY <1>1, DownstreamFacts
<1> QED
  BY <1>2

\* An invalid assumption: the steps below the failed one become STALE, each
\* excused by the failure.
LEMMA InvalidatedFollows ==
  ASSUME NEW rows, NEW n \in Nat, RowsOK(rows, n), NEW i \in DOMAIN rows,
         rows[i].st = "RUNNING", NEW failed, Edits(rows, failed, i, "FAILED"),
         failed[i].prov = "assumption",
         NEW new, Marks(failed, new, Downstream(failed, {i}) \ {i}, "STALE")
  PROVE  Follows(rows, new) /\ \A j \in DOMAIN rows \ {i} : new[j].st \in {rows[j].st, "STALE"}
<1> DEFINE below == Downstream(rows, {i})
<1>1. IsFiniteSet(DOMAIN rows) /\ Grounded(rows)
  BY TableIsFinite DEF RowsOK
<1>2. SameShape(rows, failed) /\ \A j \in DOMAIN rows \ {i} : failed[j] = rows[j]
  BY DEF Edits, Only
<1>3. Downstream(failed, {i}) = below
  BY <1>1, <1>2, SameDownstream
<1>4. \A k \in below : k \in DOMAIN rows /\ rows[k].st # "VERIFIED"
  BY <1>1, UnverifiedBelow
<1> HIDE DEF below
<1>5. /\ new \in Tables /\ SameShape(rows, new)
      /\ \A k \in below \ {i} : new[k].st = "STALE"
      /\ \A k \in DOMAIN rows \ (below \ {i}) : new[k] = failed[k]
  BY <1>2, <1>3 DEF Marks, SameShape
<1>6. /\ new[i] = failed[i] /\ new[i].st = "FAILED"
      /\ \A k \in DOMAIN rows \ (below \cup {i}) : new[k] = rows[k]
  BY <1>2, <1>5 DEF Edits
<1>7. \A j \in DOMAIN rows \ {i} : new[j].st \in {rows[j].st, "STALE"}
  BY <1>5, <1>6
<1>8. Keeps(rows, new)
  <2>1. ASSUME NEW j \in DOMAIN rows, rows[j].st = "VERIFIED" PROVE new[j].st = "VERIFIED"
    <3>1. j \notin below /\ j # i
      BY <1>4, <2>1
    <3> QED
      BY <1>6, <2>1, <3>1
  <2>2. ASSUME NEW j \in DOMAIN rows, new[j].st \in Working PROVE rows[j].st \in Working
    BY <1>6, <1>7, <2>2 DEF Working
  <2> QED
    BY <1>5, <2>1, <2>2 DEF Keeps
<1>9. ASSUME NEW k \in DOMAIN rows, new[k].st = "STALE", k \in below
      PROVE  Excused(new, k)
  <2>1. Blames(new, i)
    BY <1>6 DEF Blames
  <2>2. k \in Downstream(new, {i})
    BY <1>1, <1>5, <1>9, SameDownstream DEF below
  <2> QED
    BY <1>5, <2>1, <2>2 DEF Excused, SameShape
<1>10. ASSUME NEW k \in DOMAIN rows, new[k].st = "STALE", k \notin below,
              NEW c \in DOMAIN rows, Blames(rows, c), k \in Downstream(rows, {c})
       PROVE  Blames(new, c)
  <2>1. c \notin below
    BY <1>1, <1>10, DownstreamOfDownstream DEF below
  <2>2. c # i
    BY <1>10 DEF Blames
  <2> QED
    BY <1>6, <1>10, <2>1, <2>2 DEF Blames
<1>11. ASSUME NEW k \in DOMAIN rows, new[k].st = "STALE", k \notin below
       PROVE  rows[k].st = "STALE"
  BY <1>6, <1>11
<1>12. Answers(rows, new)
  BY <1>9, <1>10, <1>11 DEF Answers
<1> QED
  BY <1>7, <1>8, <1>12 DEF Follows

LEMMA RunFailsKept ==
  ASSUME OneCaller, IInv, NEW p \in Procs, RunFails(p)
  PROVE  IInv' /\ VerifiedKept
<1> DEFINE rows == db.rows
           i == run[p]
<1>1. /\ pc[p] = "running" /\ mem[p] = db /\ rows[i].st = "RUNNING" /\ i \in DOMAIN rows \ todo[p]
      /\ db \in Plans /\ rows \in Tables /\ proposals' = proposals
      /\ RowsOK(rows, proposals + 1) /\ proposals + 1 \in Nat
  BY DEF RunFails, IInv, Placed, DbOK, Plans
<1>2. PICK prov \in Provenance \ {"none"}, ev \in {{}} \cup {{e} : e \in RunEvidence},
           granted \in BOOLEAN :
       LET failed == Failed(Finalized(mem[p].rows, i), i, prov)
           scoped == compute_repair_scope(failed, i, prov)
       IN  IF mode = "LINEAR" THEN Escalate(p, SetRows(p, failed), ev)
           ELSE IF Context(p) = "official"
           THEN ReturnWith(p, [SetRows(p, failed) EXCEPT !.status = "FAILED"])
           ELSE IF scoped[1] = "AFFECTED_SUBGRAPH"
           THEN NextStep(p, SetRows(p, invalidate_affected_subgraph(failed, scoped[2] \ {i})))
           ELSE IF scoped[1] = "LOCAL" /\ CanRepair(failed, i, granted)
           THEN NextStep(p, SetRows(p, LocalRepair(failed, i)))
           ELSE Escalate(p, SetRows(p, failed), ev)
  BY Zenon DEF RunFails
<1> DEFINE failed == Failed(Finalized(rows, i), i, prov)
           scoped == compute_repair_scope(failed, i, prov)
           plan == [db EXCEPT !.rows = failed]
           stale == invalidate_affected_subgraph(failed, scoped[2] \ {i})
           again == LocalRepair(failed, i)
<1>3. Edits(rows, failed, i, "FAILED") /\ failed[i].prov = prov
  BY <1>1, FailedEdits
<1>4. plan = Closing(p, prov) /\ plan = SetRows(p, failed)
  BY <1>1 DEF Closing, SetRows
<1>5. \/ Escalate(p, plan, ev)
      \/ ReturnWith(p, [db EXCEPT !.rows = failed, !.status = "FAILED"])
      \/ scoped[1] = "AFFECTED_SUBGRAPH" /\ NextStep(p, [db EXCEPT !.rows = stale])
      \/ NextStep(p, [db EXCEPT !.rows = again])
  BY <1>1, <1>2 DEF SetRows
<1>6. \/ AskPlanner(p, plan, "failed")
      \/ NextStep(p, plan)
      \/ ReturnWith(p, [db EXCEPT !.rows = failed, !.status = "FAILED"])
      \/ scoped[1] = "AFFECTED_SUBGRAPH" /\ NextStep(p, [db EXCEPT !.rows = stale])
      \/ NextStep(p, [db EXCEPT !.rows = again])
  BY <1>5 DEF Escalate
<1>7. scoped[1] = "AFFECTED_SUBGRAPH" =>
        prov = "assumption" /\ scoped[2] = Downstream(failed, {i})
  BY DEF compute_repair_scope
<1>8. Edits(rows, again, i, "PENDING")
  BY <1>1, <1>3, RepairedEdits
<1>9. failed \in Tables /\ i \in DOMAIN failed
  BY <1>1, <1>3 DEF Edits, Only, SameShape
<1> HIDE DEF failed, again
<1>10. CASE AskPlanner(p, plan, "failed")
  <2>1. plan \in Plans
    BY <1>1, <1>9 DEF Plans
  <2> QED
    BY <1>1, <1>4, <1>10, <2>1, AskPlannerKept
<1>11. CASE NextStep(p, plan) \/ ReturnWith(p, [db EXCEPT !.rows = failed, !.status = "FAILED"])
  <2>1. "FAILED" # "STALE" /\ "FAILED" \notin Working
    BY DEF Working
  <2> QED
    BY <1>1, <1>3, <1>11, <2>1, SettledKept
<1>12. CASE NextStep(p, [db EXCEPT !.rows = again])
  <2>1. "PENDING" # "STALE" /\ "PENDING" \notin Working
    BY DEF Working
  <2> QED
    BY <1>1, <1>8, <1>12, <2>1, SettledKept
<1>13. CASE scoped[1] = "AFFECTED_SUBGRAPH" /\ NextStep(p, [db EXCEPT !.rows = stale])
  <2> DEFINE hit == Downstream(failed, {i}) \ {i}
             next == [db EXCEPT !.rows = stale]
  <2>1. IsFiniteSet(DOMAIN failed)
    BY <1>1, <1>3, TableIsFinite DEF RowsOK, Edits, Only, SameShape
  <2>2. hit \in SUBSET DOMAIN failed
    BY <1>9, <2>1, DownstreamFacts
  <2>3. stale = WithAll(failed, hit, "STALE") /\ "STALE" \in PlanStepStatus
    BY <1>7, <1>13 DEF invalidate_affected_subgraph, PlanStepStatus
  <2>4. Marks(failed, stale, hit, "STALE")
    BY <1>9, <2>2, <2>3, WithAllMarks
  <2> HIDE DEF stale
  <2>5. Follows(rows, stale) /\ \A j \in DOMAIN rows \ {i} : stale[j].st \in {rows[j].st, "STALE"}
    BY <1>1, <1>3, <1>7, <1>13, <2>4, InvalidatedFollows
  <2>6. next \in Plans /\ next.rows = stale /\ next.status = db.status
    BY <1>1, <2>4 DEF Plans, Marks
  <2>7. todo[p] \subseteq {j \in DOMAIN rows : rows[j].st \notin {"VERIFIED", "FAILED"}}
    BY DEF IInv, Placed
  <2>8. \A j \in todo[p] : stale[j].st \notin {"VERIFIED", "FAILED"}
    BY <1>1, <2>5, <2>7
  <2>9. NextStep(p, next)
    BY <1>13
  <2> HIDE DEF next
  <2> QED
    BY <1>1, <2>5, <2>6, <2>8, <2>9, NextStepKept
<1> QED
  BY <1>6, <1>10, <1>11, <1>12, <1>13

LEMMA FinishingIs ==
  ASSUME IInv, NEW p \in Procs, pc[p] \in {"running", "claim", "replan"}
  PROVE  /\ Finishing(p) \in Plans
         /\ Finishing(p).rows = Finalized(db.rows, run[p])
         /\ Edits(db.rows, Finishing(p).rows, run[p], db.rows[run[p]].st)
         /\ \A new : [Finishing(p) EXCEPT !.rows = new] = [db EXCEPT !.rows = new]
<1>1. db \in Plans /\ db.rows \in Tables /\ run[p] \in DOMAIN db.rows
  BY DEF IInv, DbOK, Plans, Placed
<1> DEFINE fin == Finalized(db.rows, run[p])
<1>2. Edits(db.rows, fin, run[p], db.rows[run[p]].st)
  BY <1>1, RowEdits
<1> HIDE DEF fin
<1>3. fin \in Tables
  BY <1>2 DEF Edits, Only
<1>4. [db EXCEPT !.rows = fin] \in Plans /\ [db EXCEPT !.rows = fin].rows = fin
  BY <1>1, <1>3 DEF Plans
<1>5. \A new : [[db EXCEPT !.rows = fin] EXCEPT !.rows = new] = [db EXCEPT !.rows = new]
  BY <1>1 DEF Plans
<1> QED
  BY <1>2, <1>4, <1>5 DEF Finishing, fin

LEMMA RunCompletesKept ==
  ASSUME OneCaller, IInv, NEW p \in Procs, RunCompletes(p)
  PROVE  IInv' /\ VerifiedKept
<1>1. /\ pc[p] = "running" /\ mem[p] = db /\ proposals' = proposals
      /\ db.rows[run[p]].st = "RUNNING" /\ run[p] \in DOMAIN db.rows \ todo[p]
      /\ todo[p] \subseteq {i \in DOMAIN db.rows : db.rows[i].st \notin {"VERIFIED", "FAILED"}}
  BY DEF RunCompletes, IInv, Placed
<1>2. SetRows(p, Finalized(mem[p].rows, run[p])) = Finishing(p)
  BY <1>1 DEF SetRows, Finishing
<1>3. \/ AskPlanner(p, Finishing(p), "completed")
      \/ mem' = [mem EXCEPT ![p] = Finishing(p)] /\ Goto(p, "claim") /\ UNCHANGED <<db, Frame>>
  BY <1>2 DEF RunCompletes
<1>4. Finishing(p) \in Plans
  BY <1>1, FinishingIs
<1>5. CASE AskPlanner(p, Finishing(p), "completed")
  BY <1>1, <1>4, <1>5, AskPlannerKept
<1>6. CASE mem' = [mem EXCEPT ![p] = Finishing(p)] /\ Goto(p, "claim") /\ UNCHANGED <<db, Frame>>
  <2>1. DbOK' /\ VerifiedKept
    BY <1>1, <1>6 DEF IInv, DbOK, VerifiedKept, Having
  <2>2. FramesOK' /\ pc'[p] = "claim" /\ mem'[p] = Finishing(p)
    BY <1>4, <1>6 DEF IInv, FramesOK, Goto, Places, Frame
  <2>3. Finishing(p)' = Finishing(p) /\ UNCHANGED <<db, todo, run>>
    BY <1>6 DEF Finishing, Frame
  <2>4. Placed(p)'
    BY <1>1, <2>2, <2>3 DEF Placed
  <2> QED
    BY <2>1, <2>2, <2>4 DEF IInv, OneCaller
<1> QED
  BY <1>3, <1>5, <1>6

LEMMA LineageLostKept ==
  ASSUME OneCaller, IInv, NEW p \in Procs, LineageLost(p)
  PROVE  IInv' /\ VerifiedKept
<1> DEFINE plan == [db EXCEPT !.status = "FAILED"]
<1>1. ReturnWith(p, plan) /\ proposals' = proposals /\ db \in Plans
  BY DEF LineageLost, IInv, Placed, DbOK
<1>2. plan \in Plans /\ plan.rows = db.rows /\ plan.status = "FAILED"
  BY <1>1 DEF Plans, PlanStatus
<1>3. Follows(db.rows, db.rows)
  BY <1>1 DEF Follows, Keeps, Answers, SameShape, Plans
<1> QED
  BY <1>1, <1>2, <1>3, ReturnWithKept

LEMMA ClaimKept ==
  ASSUME OneCaller, IInv, NEW p \in Procs, Claim(p)
  PROVE  IInv' /\ VerifiedKept
<1> DEFINE i == run[p]
           fin == Finishing(p).rows
<1>1. /\ pc[p] = "claim" /\ mem[p] = Finishing(p) /\ proposals' = proposals
      /\ db.rows[i].st = "RUNNING" /\ i \in DOMAIN db.rows
  BY DEF Claim, IInv, Placed
<1>2. /\ Edits(db.rows, fin, i, "RUNNING")
      /\ \A new : SetRows(p, new) = [db EXCEPT !.rows = new]
  BY <1>1, FinishingIs DEF SetRows
<1>3. PICK c \in Claims :
        \/ \E s \in {"VERIFIED", "WAITING_FOR_VERIFICATION"} : NextStep(p, SetRows(p, With(fin, i, s)))
        \/ NextStep(p, SetRows(p, Rejected(fin, i, c)))
        \/ ReturnWith(p, [SetRows(p, Rejected(fin, i, c)) EXCEPT !.status = "FAILED"])
        \/ NextStep(p, SetRows(p, LocalRepair(Rejected(fin, i, c), i)))
  <2>1. PICK c \in Claims, granted \in BOOLEAN :
         LET rejected == Rejected(fin, i, c)
         IN  IF ~HasVerifier \/ (Context(p) = "external" /\ mode # "LINEAR")
             THEN NextStep(p, SetRows(p, With(fin, i, "WAITING_FOR_VERIFICATION")))
             ELSE IF verify(c) = "accepted" THEN NextStep(p, SetRows(p, With(fin, i, "VERIFIED")))
             ELSE IF mode = "LINEAR" THEN NextStep(p, SetRows(p, rejected))
             ELSE IF Context(p) = "official"
             THEN ReturnWith(p, [SetRows(p, rejected) EXCEPT !.status = "FAILED"])
             ELSE IF verify(c) = "rejected" /\ CanRepair(rejected, i, granted)
             THEN NextStep(p, SetRows(p, LocalRepair(rejected, i)))
             ELSE NextStep(p, SetRows(p, rejected))
    BY <1>1, Zenon DEF Claim
  <2> QED
    BY <2>1, Zenon
<1> HIDE DEF fin
<1>4. fin \in Tables /\ i \in DOMAIN fin
  BY <1>1, <1>2 DEF Edits, Only, SameShape
<1>5. ASSUME NEW s \in {"VERIFIED", "WAITING_FOR_VERIFICATION"},
             NextStep(p, SetRows(p, With(fin, i, s)))
      PROVE  IInv' /\ VerifiedKept
  <2>1. Edits(fin, With(fin, i, s), i, s)
    BY <1>4, RowEdits DEF PlanStepStatus
  <2>2. Edits(db.rows, With(fin, i, s), i, s)
    BY <1>2, <2>1, EditedAgain
  <2>3. NextStep(p, [db EXCEPT !.rows = With(fin, i, s)])
    BY <1>2, <1>5
  <2> QED
    BY <1>1, <2>2, <2>3, SettledKept
<1> DEFINE rejected == Rejected(fin, i, c)
           again == LocalRepair(rejected, i)
<1>6. Edits(db.rows, rejected, i, "CLASSIFIED_FAILURE")
  <2>1. Edits(fin, rejected, i, "CLASSIFIED_FAILURE")
    BY <1>4, RowEdits
  <2> QED
    BY <1>2, <2>1, EditedAgain
<1>7. Edits(db.rows, again, i, "PENDING")
  BY <1>1, <1>6, RepairedEdits
<1> HIDE DEF again
<1>8. CASE \/ NextStep(p, SetRows(p, rejected))
           \/ ReturnWith(p, [SetRows(p, rejected) EXCEPT !.status = "FAILED"])
  <2> HIDE DEF rejected
  <2>1. "CLASSIFIED_FAILURE" # "STALE" /\ "CLASSIFIED_FAILURE" \notin Working
    BY DEF Working
  <2>2. \/ NextStep(p, [db EXCEPT !.rows = rejected])
        \/ ReturnWith(p, [db EXCEPT !.rows = rejected, !.status = "FAILED"])
    BY <1>2, <1>8
  <2> QED
    BY <1>1, <1>6, <2>1, <2>2, SettledKept
<1>9. CASE NextStep(p, SetRows(p, again))
  <2>1. "PENDING" # "STALE" /\ "PENDING" \notin Working
    BY DEF Working
  <2>2. NextStep(p, [db EXCEPT !.rows = again])
    BY <1>2, <1>9
  <2> QED
    BY <1>1, <1>7, <2>1, <2>2, SettledKept
<1> QED
  BY <1>3, <1>5, <1>8, <1>9 DEF again

(***************************************************************************)
(* A replan                                                                *)
(***************************************************************************)
LEMMA OriginalIsStep ==
  ASSUME NEW i \in Nat \ {0}, Steps # {}
  PROVE  Original(i) \in Steps
<1>1. N \in Nat \ {0} /\ Steps = 1 .. N
  BY Sizes
<1>2. (i - 1) % N \in 0 .. N - 1
  BY <1>1
<1> QED
  BY <1>1, <1>2 DEF Original, N

LEMMA FreshIds ==
  ASSUME proposals \in Nat
  PROVE  /\ (proposals + 1) * N \in Nat /\ (proposals + 2) * N = (proposals + 1) * N + N
         /\ \A s \in Steps : /\ FreshId(s) \in ((proposals + 1) * N + 1) .. (proposals + 2) * N
                             /\ Original(FreshId(s)) = s
<1>1. N \in Nat /\ Steps = 1 .. N
  BY Sizes
<1>2. (proposals + 1) * N \in Nat /\ (proposals + 2) * N = (proposals + 1) * N + N
  BY <1>1
<1> DEFINE M == (proposals + 1) * N
<1>3. ASSUME NEW s \in Steps
      PROVE  FreshId(s) = s + M /\ Original(FreshId(s)) = s
  BY OriginalOf DEF FreshId, N
<1> HIDE DEF M
<1>4. \A s \in Steps : s + M \in (M + 1) .. (M + N)
  BY <1>1, <1>2 DEF M
<1> QED
  BY <1>2, <1>3, <1>4 DEF M

Kept(kept, s) == \E k \in kept : Original(k) = s
Ids(kept, reused) == {id_remap(kept, reused, s) : s \in Steps}
NewRowOf(kept, reused, i) ==
  NewRow({id_remap(kept, reused, d) : d \in Graph[Original(i)].dep}, Graph[Original(i)].pre)
NewRows(kept, reused) ==
  [i \in Ids(kept, reused) |->
     IF i \in kept THEN [NewRowOf(kept, reused, i) EXCEPT !.st = "VERIFIED"]
     ELSE NewRowOf(kept, reused, i)]

\* The merged id of a proposed step stands for that step: a kept row's when a
\* row of it is kept, else one the proposal uses again, else a new one.
LEMMA Remapped ==
  ASSUME proposals \in Nat, NEW kept, NEW reused, NEW s \in Steps
  PROVE  /\ Original(id_remap(kept, reused, s)) = s
         /\ Kept(kept, s) => id_remap(kept, reused, s) \in kept
         /\ id_remap(kept, reused, s) \in kept \cup reused \cup {FreshId(s)}
<1>1. CASE Kept(kept, s)
  BY <1>1 DEF Kept, id_remap, RowFor
<1>2. CASE ~ Kept(kept, s)
  <2>1. id_remap(kept, reused, s) = RowFor(reused, s, FreshId(s))
    BY <1>2 DEF Kept, id_remap, RowFor
  <2>2. CASE \E k \in reused : Original(k) = s
    BY <1>2, <2>1, <2>2 DEF RowFor
  <2>3. CASE ~ \E k \in reused : Original(k) = s
    BY <1>2, <2>1, <2>3, FreshIds DEF RowFor
  <2> QED
    BY <2>2, <2>3
<1> QED
  BY <1>1, <1>2

LEMMA KeptIds ==
  ASSUME proposals \in Nat, NEW kept \in SUBSET (1 .. (proposals + 1) * N), NEW reused,
         OnePerTask(kept), Steps # {}
  PROVE  kept \subseteq Ids(kept, reused)
<1> SUFFICES ASSUME NEW k \in kept PROVE k \in Ids(kept, reused)
  OBVIOUS
<1>1. (proposals + 1) * N \in Nat
  BY FreshIds
<1>2. Original(k) \in Steps
  BY <1>1, OriginalIsStep
<1> DEFINE r == id_remap(kept, reused, Original(k))
<1>3. Kept(kept, Original(k))
  BY DEF Kept
<1>4. r \in kept /\ Original(r) = Original(k)
  BY <1>2, <1>3, Remapped
<1> HIDE DEF r
<1>5. r = k
  BY <1>4 DEF OnePerTask
<1> QED
  BY <1>2, <1>5 DEF Ids, r

LEMMA NewRowsAre ==
  ASSUME proposals \in Nat, NEW kept \in SUBSET (1 .. (proposals + 1) * N),
         NEW reused \in SUBSET (1 .. (proposals + 1) * N), Steps # {}
  PROVE  /\ NewRows(kept, reused) \in Tables /\ DOMAIN NewRows(kept, reused) = Ids(kept, reused)
         /\ Ids(kept, reused) \subseteq 1 .. (proposals + 2) * N
         /\ \A i \in Ids(kept, reused) :
              /\ Original(i) \in Steps
              /\ NewRows(kept, reused)[i].dep
                   = {id_remap(kept, reused, d) : d \in Graph[Original(i)].dep}
              /\ NewRows(kept, reused)[i].st = IF i \in kept THEN "VERIFIED" ELSE "PENDING"
<1>1. Ids(kept, reused) \subseteq 1 .. (proposals + 2) * N
  <2> DEFINE M == (proposals + 1) * N
             L == (proposals + 2) * N
  <2>1. M \in Nat /\ L = M + N /\ N \in Nat /\ \A s \in Steps : FreshId(s) \in (M + 1) .. L
    BY FreshIds, Sizes
  <2> HIDE DEF M, L
  <2>2. kept \cup reused \subseteq 1 .. M
    BY DEF M
  <2>3. ASSUME NEW i \in Ids(kept, reused) PROVE i \in 1 .. L
    <3>1. PICK s \in Steps : i \in kept \cup reused \cup {FreshId(s)}
      BY Remapped DEF Ids
    <3>2. i \in 1 .. M \/ i \in (M + 1) .. L
      BY <2>1, <2>2, <3>1
    <3> QED
      BY <2>1, <3>2
  <2> QED
    BY <2>3 DEF L
<1>2. \A i \in Ids(kept, reused) : i \in Nat \ {0}
  BY <1>1
<1>3. ASSUME NEW i \in Ids(kept, reused)
      PROVE  /\ Original(i) \in Steps
             /\ NewRows(kept, reused)[i] \in Row
             /\ NewRows(kept, reused)[i].dep
                  = {id_remap(kept, reused, d) : d \in Graph[Original(i)].dep}
             /\ NewRows(kept, reused)[i].st = IF i \in kept THEN "VERIFIED" ELSE "PENDING"
  <2> DEFINE deps == {id_remap(kept, reused, d) : d \in Graph[Original(i)].dep}
             pre == Graph[Original(i)].pre
             plain == NewRow(deps, pre)
  <2>1. Original(i) \in Steps
    BY <1>2, OriginalIsStep
  <2>2. \A d \in Graph[Original(i)].dep : d \in Steps
    BY <2>1, PlanAssumption DEF Steps
  <2>3. deps \subseteq Nat
    BY <1>2, <2>2 DEF Ids
  <2>4. pre \in {"none", "runtime", "static"}
    BY <2>1, PlanAssumption DEF Steps
  <2> HIDE DEF deps, pre
  <2>5. /\ plain \in Row /\ plain.dep = deps /\ plain.st = "PENDING"
        /\ [plain EXCEPT !.st = "VERIFIED"] \in Row
        /\ [plain EXCEPT !.st = "VERIFIED"].dep = deps
        /\ [plain EXCEPT !.st = "VERIFIED"].st = "VERIFIED"
    BY <2>3, <2>4 DEF NewRow, Row, PlanStepStatus, Provenance
  <2>6. NewRows(kept, reused)[i] = IF i \in kept THEN [plain EXCEPT !.st = "VERIFIED"] ELSE plain
    BY DEF NewRows, NewRowOf, deps, pre
  <2> HIDE DEF plain
  <2> QED
    BY <2>1, <2>5, <2>6 DEF deps
<1>4. /\ DOMAIN NewRows(kept, reused) = Ids(kept, reused)
      /\ NewRows(kept, reused) \in [Ids(kept, reused) -> Row]
  BY <1>3 DEF NewRows
<1>5. NewRows(kept, reused) \in Tables
  BY <1>2, <1>4, TablesAre
<1> QED
  BY <1>1, <1>3, <1>4, <1>5

\* Everything downstream of unverified nodes is unverified.
LEMMA NothingVerifiedBelow ==
  ASSUME NEW rows, IsFiniteSet(DOMAIN rows), Grounded(rows), NEW nodes \in SUBSET DOMAIN rows,
         \A i \in nodes : rows[i].st # "VERIFIED"
  PROVE  \A k \in Downstream(rows, nodes) : k \in DOMAIN rows /\ rows[k].st # "VERIFIED"
<1> DEFINE U == {k \in DOMAIN rows : rows[k].st # "VERIFIED"}
<1>1. Closed(rows, U)
  BY DEF Closed, Grounded, Working
<1>2. Downstream(rows, nodes) \subseteq U
  BY <1>1, DownstreamFacts
<1> QED
  BY <1>2

\* The table once an accepted replan is written: the revised plan, and the rows
\* that it leaves out as they were.
LEMMA RevisedOK ==
  ASSUME VerifiedIdsStand, proposals \in Nat, NEW rows, RowsOK(rows, proposals + 1),
         NEW nodes \in SUBSET DOMAIN rows, \A i \in nodes : rows[i].st # "VERIFIED", nodes # {},
         NEW kept \in SUBSET Having(rows, TerminalVerified), Keepable(rows, kept),
         NEW reused \in SUBSET Having(rows, ReusedIds)
  PROVE  /\ Revised(rows, nodes, kept, reused) \in Tables
         /\ RowsOK(Over(Revised(rows, nodes, kept, reused), rows), proposals + 2)
         /\ \A i \in DOMAIN rows : rows[i].st = "VERIFIED" =>
              Over(Revised(rows, nodes, kept, reused), rows)[i].st = "VERIFIED"
         /\ DOMAIN rows \subseteq DOMAIN Over(Revised(rows, nodes, kept, reused), rows)
<1>1. /\ TableOK(rows, proposals + 1) /\ Grounded(rows) /\ rows \in Tables
      /\ IsFiniteSet(DOMAIN rows) /\ DOMAIN rows \subseteq 1 .. (proposals + 1) * N
  <2>1. proposals + 1 \in Nat /\ TableOK(rows, proposals + 1) /\ Grounded(rows)
    BY DEF RowsOK
  <2>2. IsFiniteSet(DOMAIN rows)
    BY <2>1, TableIsFinite
  <2> QED
    BY <2>1, <2>2 DEF TableOK
<1>2. Steps # {}
  <2> SUFFICES ASSUME N = 0 PROVE FALSE
    <3>1. Steps = 1 .. N /\ N \in Nat
      BY Sizes
    <3> HIDE DEF N
    <3> QED
      BY <3>1
  <2>1. (proposals + 1) * N = 0
    BY Sizes
  <2> QED
    BY <1>1, <2>1
<1> DEFINE gone == Superseded(rows, nodes, kept, reused)
           old == WithAll(rows, gone, "STALE")
           fresh == NewRows(kept, reused)
           ids == Ids(kept, reused)
           left == DOMAIN rows \ (kept \cup reused)
           plan == Revised(rows, nodes, kept, reused)
           new == Over(plan, rows)
<1>3. /\ kept \subseteq DOMAIN rows /\ reused \subseteq DOMAIN rows
      /\ \A i \in kept : rows[i].st = "VERIFIED"
      /\ \A i \in reused : rows[i].st # "VERIFIED"
  BY DEF Having, TerminalVerified, VerifiedIdsStand
<1>4. \A i \in gone : i \in DOMAIN rows /\ rows[i].st # "VERIFIED"
  <2>1. \A k \in Downstream(rows, nodes) : k \in DOMAIN rows /\ rows[k].st # "VERIFIED"
    BY <1>1, NothingVerifiedBelow
  <2> QED
    BY <2>1 DEF Superseded, Having, TerminalVerified
<1>5. \A i \in left : i \notin gone => rows[i].st = "VERIFIED"
  BY DEF Superseded, Having, TerminalVerified
<1>6. Marks(rows, old, gone, "STALE")
  BY <1>1, <1>4, WithAllMarks DEF PlanStepStatus
<1>7. /\ fresh \in Tables /\ DOMAIN fresh = ids
      /\ ids \subseteq 1 .. (proposals + 2) * N
      /\ \A i \in ids :
           /\ Original(i) \in Steps
           /\ fresh[i].dep = {id_remap(kept, reused, d) : d \in Graph[Original(i)].dep}
           /\ fresh[i].st = IF i \in kept THEN "VERIFIED" ELSE "PENDING"
  BY <1>1, <1>2, <1>3, NewRowsAre
<1>8. plan = Over(fresh, [i \in left |-> old[i]])
  BY DEF Revised, NewRows, NewRowOf, Ids
<1>9. \A s \in Steps : /\ Original(id_remap(kept, reused, s)) = s
                       /\ id_remap(kept, reused, s) \in ids
                       /\ Kept(kept, s) => id_remap(kept, reused, s) \in kept
  BY Remapped DEF Ids
<1>10. kept \subseteq ids
  BY <1>1, <1>2, <1>3, KeptIds DEF Keepable
<1>11. \A i \in kept : rows[i].dep \subseteq kept
  <2> SUFFICES ASSUME NEW i \in kept, NEW d \in rows[i].dep PROVE d \in kept
    OBVIOUS
  <2>1. d \in DOMAIN rows /\ rows[d].st = "VERIFIED"
    BY <1>1, <1>3 DEF Grounded, TableOK, Working
  <2> QED
    BY <2>1 DEF Keepable, Having, TerminalVerified
<1>12. \A i \in Steps : Graph[i].dep \subseteq Steps
  BY PlanAssumption DEF Steps
<1>13. \A i \in DOMAIN rows : rows[i].st = "VERIFIED" => i \in kept \/ i \notin ids
  <2> SUFFICES ASSUME NEW i \in DOMAIN rows, rows[i].st = "VERIFIED", i \notin kept, i \in ids
               PROVE  FALSE
    OBVIOUS
  <2> DEFINE M == (proposals + 1) * N
             L == (proposals + 2) * N
  <2>1. M \in Nat /\ \A s \in Steps : FreshId(s) \in (M + 1) .. L
    BY FreshIds
  <2>2. i \in 1 .. M
    BY <1>1
  <2>3. \E s \in Steps : i \in kept \cup reused \cup {FreshId(s)}
    BY Remapped DEF Ids
  <2> HIDE DEF M, L
  <2>4. \A s \in Steps : i # FreshId(s)
    BY <2>1, <2>2
  <2> QED
    BY <1>3, <2>3, <2>4
<1> HIDE DEF new, plan, fresh, old, gone, ids
<1>14. /\ DOMAIN old = DOMAIN rows /\ old \in Tables
       /\ \A i \in DOMAIN rows : old[i].dep = rows[i].dep
  BY <1>6 DEF Marks, SameShape
<1>15. /\ DOMAIN plan = ids \cup left
       /\ \A i \in ids : plan[i] = fresh[i]
       /\ \A i \in left \ ids : plan[i] = old[i]
       /\ plan = [i \in DOMAIN plan |-> plan[i]]
  <2> DEFINE kin == [i \in left |-> old[i]]
  <2>1. DOMAIN kin = left /\ \A i \in left : kin[i] = old[i]
    OBVIOUS
  <2>2. fresh = [i \in DOMAIN fresh |-> fresh[i]]
    BY <1>7, TablesAre
  <2>3. plan = Over(fresh, kin)
    BY <1>8
  <2> HIDE DEF kin
  <2>4. CASE left \subseteq ids
    <3>1. plan = fresh
      BY <1>7, <2>1, <2>3, <2>4 DEF Over
    <3> QED
      BY <1>7, <2>2, <2>4, <3>1
  <2>5. CASE ~ (left \subseteq ids)
    <3>1. plan = [i \in ids \cup left |-> IF i \in ids THEN fresh[i] ELSE kin[i]]
      BY <1>7, <2>1, <2>3, <2>5 DEF Over
    <3> QED
      BY <2>1, <3>1
  <2> QED
    BY <2>4, <2>5
<1>16. /\ DOMAIN new = ids \cup DOMAIN rows
       /\ \A i \in ids : new[i] = fresh[i]
       /\ \A i \in left \ ids : new[i] = old[i]
       /\ \A i \in DOMAIN rows \ (ids \cup left) : new[i] = rows[i]
       /\ new = [i \in DOMAIN new |-> new[i]]
  BY <1>15 DEF Over, new
<1>17. plan \in Tables /\ new \in Tables
  <2>1. /\ fresh \in [ids -> Row] /\ ids \subseteq Nat
        /\ old \in [DOMAIN rows -> Row] /\ DOMAIN rows \subseteq Nat
        /\ rows \in [DOMAIN rows -> Row]
    BY <1>1, <1>7, <1>14, TablesAre
  <2>2. \A i \in DOMAIN plan : plan[i] \in Row
    BY <1>15, <2>1
  <2>3. \A i \in DOMAIN new : new[i] \in Row
    BY <1>16, <2>1
  <2> QED
    BY <1>15, <1>16, <2>1, <2>2, <2>3, TablesAre
<1>18. \A i \in DOMAIN rows : rows[i].st = "VERIFIED" => new[i].st = "VERIFIED"
  <2> SUFFICES ASSUME NEW i \in DOMAIN rows, rows[i].st = "VERIFIED"
               PROVE  new[i].st = "VERIFIED"
    OBVIOUS
  <2>1. CASE i \in kept
    BY <1>7, <1>10, <1>16, <2>1
  <2>2. CASE i \notin kept
    <3>1. i \in left \ ids /\ i \notin gone
      BY <1>3, <1>4, <1>13, <2>2
    <3>2. old[i] = rows[i]
      BY <1>6, <3>1 DEF Marks
    <3> QED
      BY <1>16, <3>1, <3>2
  <2> QED
    BY <2>1, <2>2
<1>19. ASSUME NEW i \in DOMAIN new
       PROVE  /\ new[i].dep \subseteq DOMAIN new
              /\ \A s \in Graph[Original(i)].dep : \E d \in new[i].dep : Original(d) = s
              /\ new[i].st \in Working => \A d \in new[i].dep : new[d].st = "VERIFIED"
  <2>1. CASE i \in ids
    <3>1. /\ new[i].dep = {id_remap(kept, reused, d) : d \in Graph[Original(i)].dep}
          /\ Graph[Original(i)].dep \subseteq Steps
      BY <1>7, <1>12, <1>16, <2>1
    <3>2. /\ new[i].dep \subseteq DOMAIN new
          /\ \A s \in Graph[Original(i)].dep : \E d \in new[i].dep : Original(d) = s
      BY <1>9, <1>16, <3>1
    <3>3. ASSUME new[i].st \in Working PROVE \A d \in new[i].dep : new[d].st = "VERIFIED"
      <4>1. i \in kept
        BY <1>7, <1>16, <2>1, <3>3 DEF Working
      <4>2. \A s \in Graph[Original(i)].dep : Kept(kept, s)
        BY <1>1, <1>3, <1>11, <4>1 DEF TableOK, Kept
      <4>3. \A d \in new[i].dep : d \in kept
        BY <1>9, <3>1, <4>2
      <4> QED
        BY <1>3, <1>18, <4>3
    <3> QED
      BY <3>2, <3>3
  <2>2. CASE i \notin ids
    <3>1. i \in DOMAIN rows /\ new[i] \in {old[i], rows[i]} /\ new[i].dep = rows[i].dep
      BY <1>14, <1>16, <2>2
    <3>2. /\ new[i].dep \subseteq DOMAIN new
          /\ \A s \in Graph[Original(i)].dep : \E d \in new[i].dep : Original(d) = s
      BY <1>1, <1>16, <3>1 DEF TableOK
    <3>3. ASSUME new[i].st \in Working PROVE \A d \in new[i].dep : new[d].st = "VERIFIED"
      <4>1. new[i] = rows[i]
        BY <1>6, <3>1, <3>3 DEF Marks, Working
      <4>2. \A d \in rows[i].dep : d \in DOMAIN rows /\ rows[d].st = "VERIFIED"
        BY <1>1, <3>1, <3>3, <4>1 DEF Grounded, TableOK
      <4> QED
        BY <1>18, <3>1, <4>2
    <3> QED
      BY <3>2, <3>3
  <2> QED
    BY <2>1, <2>2
<1>20. TableOK(new, proposals + 2)
  <2>1. DOMAIN rows \subseteq 1 .. (proposals + 2) * N
    <3> DEFINE M == (proposals + 1) * N
               L == (proposals + 2) * N
    <3>1. M \in Nat /\ N \in Nat /\ L = M + N /\ DOMAIN rows \subseteq 1 .. M
      BY <1>1, FreshIds, Sizes
    <3> HIDE DEF M, L
    <3>2. DOMAIN rows \subseteq 1 .. L
      BY <3>1
    <3> QED
      BY <3>2 DEF L
  <2> QED
    BY <1>7, <1>16, <1>17, <1>19, <2>1 DEF TableOK
<1>21. Grounded(new)
  BY <1>19 DEF Grounded
<1>22. Covered(new)
  <2>1. \A s \in Steps : \E i \in ids : Original(i) = s
    BY <1>9
  <2>2. \A i \in ids : new[i].st # "STALE"
    BY <1>7, <1>16
  <2>3. ids \in SUBSET DOMAIN new
    BY <1>16
  <2> QED
    BY <2>1, <2>2, <2>3 DEF Covered, Covers
<1> QED
  BY <1>16, <1>17, <1>18, <1>20, <1>21, <1>22 DEF RowsOK, new, plan

LEMMA AcceptReplanKept ==
  ASSUME OneCaller, VerifiedIdsStand, IInv, NEW p \in Procs, AcceptReplan(p)
  PROVE  IInv' /\ VerifiedKept
<1>1. /\ pc[p] = "replan" /\ base[p] = db /\ run[p] \in DOMAIN db.rows
      /\ db.rows[run[p]].st # "VERIFIED" /\ proposals' = proposals + 1
      /\ db \in Plans /\ proposals \in Nat /\ RowsOK(db.rows, proposals + 1)
  BY DEF AcceptReplan, IInv, Placed, DbOK
<1>2. PICK kept \in SUBSET Having(db.rows, TerminalVerified),
           reused \in SUBSET Having(db.rows, ReusedIds),
           named \in SUBSET Having(db.rows, {"STALE"}) :
        /\ Keepable(db.rows, kept)
        /\ LET plan == [db EXCEPT !.version = @ + 1, !.status = "RUNNING",
                                  !.rows = Revised(@, named \cup {run[p]}, kept, reused)]
           IN  \/ ReturnWith(p, plan)
               \/ /\ Update(p, plan)
                  /\ Goto(p, IF mode = "LINEAR" THEN "linear_load" ELSE "schedule")
                  /\ todo' = [todo EXCEPT ![p] = {}] /\ run' = [run EXCEPT ![p] = 0]
                  /\ base' = [base EXCEPT ![p] = FirstPlan]
                  /\ after' = [after EXCEPT ![p] = "none"]
  BY <1>1 DEF AcceptReplan
<1> DEFINE nodes == named \cup {run[p]}
           rows == Revised(db.rows, nodes, kept, reused)
           new == Over(rows, db.rows)
           version == db.version + 1
           plan == [db EXCEPT !.version = version, !.status = "RUNNING", !.rows = rows]
<1>3. /\ rows \in Tables
      /\ RowsOK(new, proposals + 2)
      /\ \A i \in DOMAIN db.rows : db.rows[i].st = "VERIFIED" => new[i].st = "VERIFIED"
      /\ new \in Tables
  <2>1. nodes \in SUBSET DOMAIN db.rows /\ nodes # {} /\ \A i \in nodes : db.rows[i].st # "VERIFIED"
    BY <1>1 DEF Having
  <2> HIDE DEF nodes
  <2>2. Keepable(db.rows, kept)
    BY <1>2
  <2> DEFINE table == db.rows
  <2>3. /\ RowsOK(table, proposals + 1) /\ nodes \in SUBSET DOMAIN table /\ nodes # {}
        /\ \A i \in nodes : table[i].st # "VERIFIED"
        /\ kept \in SUBSET Having(table, TerminalVerified) /\ Keepable(table, kept)
        /\ reused \in SUBSET Having(table, ReusedIds)
    BY <1>1, <2>1, <2>2
  <2>4. /\ rows \in Tables
        /\ RowsOK(new, proposals + 2)
        /\ \A i \in DOMAIN db.rows : db.rows[i].st = "VERIFIED" => new[i].st = "VERIFIED"
    <3> HIDE DEF table
    <3>1. /\ Revised(table, nodes, kept, reused) \in Tables
          /\ RowsOK(Over(Revised(table, nodes, kept, reused), table), proposals + 2)
          /\ \A i \in DOMAIN table : table[i].st = "VERIFIED" =>
               Over(Revised(table, nodes, kept, reused), table)[i].st = "VERIFIED"
      BY <1>1, <2>3, RevisedOK
    <3> QED
      BY <3>1 DEF rows, new, table
  <2> HIDE DEF rows, new
  <2> QED
    BY <2>4 DEF RowsOK, TableOK
<1>4. version \in Nat
  BY <1>1 DEF Plans
<1>5. \/ ReturnWith(p, plan)
      \/ /\ Update(p, plan)
         /\ Goto(p, IF mode = "LINEAR" THEN "linear_load" ELSE "schedule")
         /\ todo' = [todo EXCEPT ![p] = {}] /\ run' = [run EXCEPT ![p] = 0]
         /\ base' = [base EXCEPT ![p] = FirstPlan] /\ after' = [after EXCEPT ![p] = "none"]
  BY <1>1, <1>2 DEF Plans
<1> HIDE DEF nodes, rows, version
<1>6. plan \in Plans /\ plan.rows = rows /\ plan.status = "RUNNING"
  BY <1>1, <1>3, <1>4 DEF Plans, PlanStatus
<1> HIDE DEF plan
<1>7. db' \in Plans /\ db'.rows = new /\ db'.status = "RUNNING"
  <2>1. db' = Written(plan)
    BY <1>5 DEF ReturnWith, Update
  <2>2. db' = [plan EXCEPT !.rows = new]
    BY <1>6, <2>1 DEF Written
  <2> HIDE DEF new
  <2> QED
    BY <1>3, <1>6, <2>2 DEF Plans
<1> HIDE DEF new
<1>8. proposals' \in Nat /\ proposals' + 1 = proposals + 2
  BY <1>1
<1>9. DbOK'
  BY <1>3, <1>7, <1>8 DEF DbOK
<1>10. VerifiedKept
  BY <1>3, <1>7 DEF VerifiedKept, Having
<1>11. CASE ReturnWith(p, plan)
  <2>1. FramesOK' /\ \A q \in Procs : Placed(q)'
    BY <1>11, ReturnPlaces DEF IInv, ReturnWith
  <2> QED
    BY <1>9, <1>10, <2>1 DEF IInv
<1>12. CASE /\ Update(p, plan)
            /\ Goto(p, IF mode = "LINEAR" THEN "linear_load" ELSE "schedule")
            /\ todo' = [todo EXCEPT ![p] = {}] /\ run' = [run EXCEPT ![p] = 0]
            /\ base' = [base EXCEPT ![p] = FirstPlan] /\ after' = [after EXCEPT ![p] = "none"]
  <2>1. /\ pc' \in [Procs -> Places] /\ pc'[p] \in {"linear_load", "schedule"}
        /\ mem' \in [Procs -> Plans] /\ mem'[p] = plan
        /\ todo' \in [Procs -> SUBSET Nat] /\ todo'[p] = {}
    BY <1>6, <1>12 DEF IInv, FramesOK, Update, Goto, Places
  <2>2. FramesOK'
    BY <1>12, <2>1, FirstPlanOK DEF IInv, FramesOK
  <2>3. Placed(p)'
    BY <2>1 DEF Placed
  <2> QED
    BY <1>9, <1>10, <2>2, <2>3 DEF IInv, OneCaller
<1> QED
  BY <1>5, <1>11, <1>12

LEMMA RefuseReplanKept ==
  ASSUME OneCaller, IInv, NEW p \in Procs, RefuseReplan(p)
  PROVE  IInv' /\ VerifiedKept
<1>1. /\ pc[p] = "replan" /\ proposals' = proposals /\ run[p] \in DOMAIN db.rows \ todo[p]
      /\ todo[p] \subseteq {i \in DOMAIN db.rows : db.rows[i].st \notin {"VERIFIED", "FAILED"}}
      /\ db \in Plans /\ db.rows \in Tables
  BY DEF RefuseReplan, IInv, Placed, DbOK, Plans
<1>2. CASE after[p] = "repair" /\ Return(p) /\ UNCHANGED db
  <2>1. DbOK' /\ VerifiedKept
    BY <1>1, <1>2 DEF IInv, DbOK, VerifiedKept, Having
  <2> QED
    BY <1>2, <2>1, ReturnPlaces DEF IInv
<1>3. CASE /\ after[p] = "completed" /\ Goto(p, "claim")
           /\ base' = [base EXCEPT ![p] = FirstPlan] /\ after' = [after EXCEPT ![p] = "none"]
           /\ UNCHANGED <<db, mem, todo, run, call>>
  <2>1. DbOK' /\ VerifiedKept
    BY <1>1, <1>3 DEF IInv, DbOK, VerifiedKept, Having
  <2>2. db.rows[run[p]].st = "RUNNING" /\ mem[p] = Finishing(p)
    BY <1>1, <1>3 DEF IInv, Placed
  <2>3. FramesOK' /\ pc'[p] = "claim"
    BY <1>3, FirstPlanOK DEF IInv, FramesOK, Goto, Places
  <2>4. Finishing(p)' = Finishing(p)
    BY <1>3 DEF Finishing
  <2>5. Placed(p)'
    BY <1>1, <1>3, <2>2, <2>3, <2>4 DEF Placed
  <2> QED
    BY <2>1, <2>3, <2>5 DEF IInv, OneCaller
<1>4. ASSUME after[p] = "failed"
      PROVE  \E failed : /\ Edits(db.rows, failed, run[p], "FAILED")
                         /\ mem[p] = [db EXCEPT !.rows = failed]
                         /\ db.rows[run[p]].st = "RUNNING"
  <2>1. PICK prov \in Provenance : mem[p] = Closing(p, prov)
    BY <1>1, <1>4 DEF IInv, Placed
  <2>2. db.rows[run[p]].st = "RUNNING"
    BY <1>1, <1>4 DEF IInv, Placed
  <2> DEFINE failed == Failed(Finalized(db.rows, run[p]), run[p], prov)
  <2>3. Edits(db.rows, failed, run[p], "FAILED")
    BY <1>1, FailedEdits
  <2>4. mem[p] = [db EXCEPT !.rows = failed]
    BY <2>1 DEF Closing
  <2> QED
    BY <2>2, <2>3, <2>4
<1>5. CASE /\ after[p] = "failed"
           /\ ReturnWith(p, [mem[p] EXCEPT !.status = "FAILED"])
  <2>1. PICK failed : /\ Edits(db.rows, failed, run[p], "FAILED")
                      /\ mem[p] = [db EXCEPT !.rows = failed]
                      /\ db.rows[run[p]].st = "RUNNING"
    BY <1>4, <1>5
  <2>2. ReturnWith(p, [db EXCEPT !.rows = failed, !.status = "FAILED"])
    BY <1>5, <2>1
  <2>3. "FAILED" # "STALE" /\ "FAILED" \notin Working
    BY DEF Working
  <2> QED
    BY <1>1, <2>1, <2>2, <2>3, SettledKept
<1>6. CASE /\ after[p] = "failed"
           /\ Update(p, mem[p]) /\ Goto(p, Back) /\ run' = [run EXCEPT ![p] = 0]
           /\ base' = [base EXCEPT ![p] = FirstPlan] /\ after' = [after EXCEPT ![p] = "none"]
           /\ UNCHANGED <<todo, call>>
  <2>1. PICK failed : /\ Edits(db.rows, failed, run[p], "FAILED")
                      /\ mem[p] = [db EXCEPT !.rows = failed]
                      /\ db.rows[run[p]].st = "RUNNING"
    BY <1>4, <1>6
  <2>2. failed \in Tables /\ \A i \in todo[p] : failed[i] = db.rows[i]
    BY <1>1, <2>1 DEF Edits, Only
  <2>3. mem[p] \in Plans /\ mem[p].rows = failed /\ mem[p].status = db.status
    BY <1>1, <2>1, <2>2 DEF Plans
  <2>4. Follows(db.rows, mem[p].rows)
    BY <1>1, <2>1, <2>3, OnlyFollows DEF Edits, Working
  <2>5. /\ base' \in [Procs -> Plans]
        /\ after' \in [Procs -> {"none", "repair", "failed", "completed"}]
    BY <1>6, FirstPlanOK DEF IInv, FramesOK
  <2>6. \A i \in todo[p] : mem[p].rows[i].st \notin {"VERIFIED", "FAILED"}
    BY <1>1, <2>2, <2>3
  <2> QED
    BY <1>1, <1>6, <2>3, <2>4, <2>5, <2>6, LoopGoesOn
<1> QED
  BY <1>2, <1>3, <1>5, <1>6 DEF RefuseReplan

LEMMA CrashKept ==
  ASSUME OneCaller, IInv, NEW p \in Procs, Crash(p)
  PROVE  IInv' /\ VerifiedKept
<1>1. Return(p) /\ UNCHANGED <<db, proposals>>
  BY DEF Crash
<1>2. DbOK' /\ VerifiedKept
  BY <1>1 DEF IInv, DbOK, VerifiedKept, Having
<1> QED
  BY <1>1, <1>2, ReturnPlaces DEF IInv

(***************************************************************************)
(* The theorems                                                            *)
(***************************************************************************)
LEMMA InitOK == Init => IInv
<1> SUFFICES ASSUME Init PROVE IInv
  OBVIOUS
<1>1. DbOK
  BY FirstPlanOK DEF Init, DbOK
<1>2. FramesOK
  BY FirstPlanOK DEF Init, FramesOK, Places
<1>3. \A p \in Procs : Placed(p)
  BY DEF Init, Placed
<1> QED
  BY <1>1, <1>2, <1>3 DEF IInv

LEMMA StepOK ==
  ASSUME OneCaller, VerifiedIdsStand, IInv, [Next]_vars
  PROVE  IInv' /\ VerifiedKept
<1>1. CASE UNCHANGED vars
  BY <1>1, NothingMoved DEF vars, Frame
<1>2. ASSUME NEW p \in Procs, execute_goal(p) \/ resume_after_approval(p)
      PROVE  IInv' /\ VerifiedKept
  BY <1>2, ExecuteGoalKept
<1>3. ASSUME NEW p \in Procs, repair_after_failure(p)
      PROVE  IInv' /\ VerifiedKept
  BY <1>3, RepairKept
<1>4. ASSUME NEW p \in Procs, Step(p)
      PROVE  IInv' /\ VerifiedKept
  BY <1>4, ScheduleStepsKept, DispatchKept, RunFailsKept, RunCompletesKept, LineageLostKept,
     ClaimKept, AcceptReplanKept, RefuseReplanKept, LoopEndKept, LinearLoadKept,
     LinearStepKept, LinearEndKept DEF Step
<1>5. ASSUME NEW p \in Procs, Crash(p)
      PROVE  IInv' /\ VerifiedKept
  BY <1>5, CrashKept
<1> QED
  BY <1>1, <1>2, <1>3, <1>4, <1>5 DEF Next

\* The durable plan stays in order, and the copy a call works on is the durable
\* plan up to the row of its own run (PlanExecutionService with one caller).
THEOREM PlanInductive ==
  ASSUME OneCaller, VerifiedIdsStand
  PROVE  Spec => []IInv
<1>1. Init => IInv
  BY InitOK
<1>2. IInv /\ [Next]_vars => IInv'
  BY StepOK
<1> QED
  BY <1>1, <1>2, PTL DEF Spec

\* A step that runs, waits for its verdict or is VERIFIED rests on VERIFIED
\* dependencies, through every repair, invalidation, replan and crash, and
\* whichever other ids a proposal uses again.
THEOREM WorkIsGrounded ==
  ASSUME OneCaller, VerifiedIdsStand
  PROVE  Spec => []VerifiedGrounded
<1>1. IInv => VerifiedGrounded
  BY DEF IInv, DbOK, RowsOK, Grounded, VerifiedGrounded, Having, Working
<1> QED
  BY <1>1, PlanInductive, PTL

\* A COMPLETED plan has a VERIFIED step for every task of the graph: no step that
\* an invalid assumption made STALE is passed over.
THEOREM CompletionIsWhole ==
  ASSUME OneCaller, VerifiedIdsStand
  PROVE  Spec => []CompletedMeansDone
<1>1. IInv => CompletedMeansDone
  BY DEF IInv, DbOK, AllDone, CompletedMeansDone
<1> QED
  BY <1>1, PlanInductive, PTL

\* No repair, replan or crash takes a VERIFIED step back, when the planner
\* proposes no VERIFIED row's id for another step (MacroReplanService.consume
\* keeps the id and the verdict of what it matches, and retains the rest).
THEOREM VerdictsStand ==
  ASSUME OneCaller, VerifiedIdsStand
  PROVE  Spec => VerifiedIsForever
<1>1. IInv /\ [Next]_vars => [VerifiedKept]_vars
  BY StepOK
<1>2. VerifiedIsForever <=> [][VerifiedKept]_vars
  BY PTL DEF VerifiedIsForever, VerifiedKept
<1> QED
  BY <1>1, <1>2, PlanInductive, PTL DEF Spec

=============================================================================
