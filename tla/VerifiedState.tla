---------------------------- MODULE VerifiedState ---------------------------
(***************************************************************************)
(* The verified task state of the Phase 5 substrate.                       *)
(*                                                                         *)
(*   EvidenceLedger            src/lhas/phase5/substrate/evidence.py       *)
(*   InMemoryArtifactStore     .../substrate/artifacts.py                  *)
(*   ValidatorFeedback         .../substrate/validation.py, store.py       *)
(*   VerifiedTaskState         .../substrate/state.py                      *)
(*   TaskStateReducer          .../substrate/reducer.py                    *)
(*                                                                         *)
(* Events are appended to a ledger, a validator judges a candidate and     *)
(* names the ids of the evidence it looked at, and a commit promotes       *)
(* events with such ids to verified facts.  The caller hands the events to *)
(* the commit, which compares their ids with the verdict's and never looks *)
(* them up in the ledger.  Verdicts arrive late, more than once and in any *)
(* order.  The reducer can rebuild the state from its commits.             *)
(* A refused commit raises and changes nothing, so it is no step here.     *)
(***************************************************************************)
EXTENDS Integers, Sequences

CONSTANTS
  Candidates,   \* what a validator may be asked about
  Contents,     \* contents of artifacts
  Elsewhere,    \* events a caller may hold that this ledger does not have so
  MaxPresented, \* events handed to one commit (bounds the model)
  MaxObserved,  \* observations appended (bounds the model)
  MaxFeedbacks  \* verdicts given (bounds the model)


VARIABLES
  evidence,   \* the ledger: a sequence of events, an event's id is its place
  stored,     \* the artifact store: the contents that were put
  verdicts,   \* the feedback the validator gave, a feedback's id is its place
  verified,   \* the materialised VerifiedTaskState
  commits     \* the reducer's commit history

verifiedVars == << evidence, stored, verdicts, verified, commits >>

\* Event types with a payload a run observes or the reducer writes itself.  A
\* payload is one entry: a scalar becomes a fact, a structured value does not.
EvidenceEventTypes ==
  {"ENVIRONMENT_OBSERVED", "SIDE_EFFECT_CONFIRMED", "SIDE_EFFECT_UNCERTAIN",
   "SIDE_EFFECT_NOT_OBSERVED", "STATE_COMMITTED"}
Scalars == {1, 2}
Structured == 3
Observations ==
  { [type |-> "ENVIRONMENT_OBSERVED", value |-> v] : v \in Scalars \cup {Structured} }
NoFact == [value |-> 0, evidence |-> 0]

ASSUME VerifiedConstants ==
  /\ MaxObserved \in Nat /\ MaxFeedbacks \in Nat /\ MaxPresented \in Nat
  /\ Elsewhere \subseteq
       [id : Nat \ {0}, type : EvidenceEventTypes, value : Scalars \cup {Structured}]

InitialState ==
  [version |-> 0, facts |-> [t \in EvidenceEventTypes |-> NoFact], artifacts |-> {}]

VerifiedInit ==
  /\ evidence = << >> /\ verdicts = << >> /\ commits = << >>
  /\ stored = {}
  /\ verified = InitialState

----------------------------------------------------------------------------
(* The ledger, the artifacts and the validator.                              *)

Appended(e) == Append(evidence, e)
ObservedCount == Len(evidence) - Len(commits)

append ==
  /\ ObservedCount < MaxObserved
  /\ \E e \in Observations : evidence' = Appended(e)
  /\ UNCHANGED << stored, verdicts, verified, commits >>

\* A tool's effect is reported with its certainty, as an event of its own.
EffectEvents ==
  { [type |-> t, value |-> 1] :
      t \in {"SIDE_EFFECT_CONFIRMED", "SIDE_EFFECT_UNCERTAIN", "SIDE_EFFECT_NOT_OBSERVED"} }

effect_receipt ==
  /\ ObservedCount < MaxObserved
  /\ \E e \in EffectEvents : evidence' = Appended(e)
  /\ UNCHANGED << stored, verdicts, verified, commits >>

\* Content addressing: content that is there already is not stored again.
put ==
  /\ \E c \in Contents : stored' = stored \cup {c}
  /\ UNCHANGED << evidence, verdicts, verified, commits >>

exists(c) == c \in stored

\* What a caller can hand to a commit: events of the ledger, and others, such as
\* those of another run, of an id no ledger has, or a copy with another payload.
InLedger(i) == [id |-> i, type |-> evidence[i].type, value |-> evidence[i].value]
Presentable == { InLedger(i) : i \in DOMAIN evidence } \cup Elsewhere
EvidenceIds == { e.id : e \in Presentable }

\* A verdict names the ids of the events it rests on.  What a validator that timed out says
\* of the candidate is not its decision.
FeedbackOutcomes ==
  { [status |-> "SUCCESS", decision |-> "ACCEPT"], [status |-> "SUCCESS", decision |-> "REJECT"],
    [status |-> "TIMEOUT", decision |-> "ACCEPT"] }

validate ==
  /\ Len(verdicts) < MaxFeedbacks
  /\ \E c \in Candidates, o \in FeedbackOutcomes, refs \in SUBSET EvidenceIds :
       verdicts' = Append(verdicts, [candidate |-> c, outcome |-> o, refs |-> refs])
  /\ UNCHANGED << evidence, stored, verified, commits >>

is_actionable(f) == f.outcome = [status |-> "SUCCESS", decision |-> "ACCEPT"]

----------------------------------------------------------------------------
(* The commit.                                                               *)

CommittedFeedbackIds == { commits[i].feedback : i \in DOMAIN commits }
CommittedCandidateIds == { verdicts[f].candidate : f \in CommittedFeedbackIds }

\* A broken form: only the verdict is remembered, so a second verdict on the
\* same candidate is committed again.
PromotableOnce(f) == f \notin CommittedFeedbackIds
Promotable(f) ==
  /\ f \notin CommittedFeedbackIds
  /\ verdicts[f].candidate \notin CommittedCandidateIds

\* The events presented that carry a scalar become facts.  The caller lists them,
\* and of two facts of a key the later in the list counts.
IsScalar(e) == e.value \in Scalars
FactOf(e) == [value |-> e.value, evidence |-> e.id]
OfKey(presented, t) == { k \in DOMAIN presented : IsScalar(presented[k]) /\ presented[k].type = t }
LatestOf(K) == CHOOSE k \in K : \A j \in K : j <= k
NewFacts(presented) ==
  [ t \in { u \in EvidenceEventTypes : OfKey(presented, u) # {} } |->
      FactOf(presented[LatestOf(OfKey(presented, t))]) ]

\* with_commit: a later fact replaces an earlier one of the same key.
with_commit(state, c) ==
  [ version |-> state.version + 1,
    facts |-> [ t \in EvidenceEventTypes |->
                  IF t \in DOMAIN c.facts THEN c.facts[t] ELSE state.facts[t] ],
    artifacts |-> state.artifacts \cup c.artifacts ]

NewCommit(f, accepted, arts, facts) ==
  [feedback |-> f, accepted |-> accepted, artifacts |-> arts, facts |-> facts]

CommitEvent == [type |-> "STATE_COMMITTED", value |-> 1]

commit ==
  \E f \in DOMAIN verdicts, arts \in SUBSET Contents, n \in 0..MaxPresented :
    \E presented \in [1..n -> { e \in Presentable : e.id \in verdicts[f].refs }] :
    /\ Promotable(f) /\ is_actionable(verdicts[f])
    /\ \A c \in arts : exists(c)
    /\ LET accepted == { presented[k].id : k \in 1..n }
           c == NewCommit(f, accepted, arts, NewFacts(presented))
       IN  verified' = with_commit(verified, c) /\ commits' = Append(commits, c)
    /\ evidence' = Appended(CommitEvent)
    /\ UNCHANGED << stored, verdicts >>

\* rebuild_state reads the commit history and nothing else.
rebuilt[n \in 0..Len(commits)] ==
  IF n = 0 THEN InitialState ELSE with_commit(rebuilt[n - 1], commits[n])
rebuild_state == rebuilt[Len(commits)]

VerifiedNext == append \/ effect_receipt \/ put \/ validate \/ commit

VerifiedSpec == VerifiedInit /\ [][VerifiedNext]_verifiedVars

----------------------------------------------------------------------------
(* Properties.                                                               *)

\* Whatever order verdicts and commits come in, the verified state is earned:
\* the commit history alone rebuilds it and no candidate was promoted twice.
\* Behind every fact stands a commit whose verdict accepted its candidate and
\* named the id of the event that the caller presented for the fact; behind every
\* artifact one whose verdict accepted its candidate (a verdict names no
\* artifacts), and the store has it (TaskStateReducer.commit).
Accepting(c) == is_actionable(verdicts[c.feedback])
Promotes(c, t, fact) ==
  /\ t \in DOMAIN c.facts /\ c.facts[t] = fact
  /\ fact.evidence \in c.accepted \cap verdicts[c.feedback].refs
VerifiedIsEarned ==
  /\ rebuild_state = verified /\ verified.version = Len(commits)
  /\ \A i, j \in DOMAIN commits :
       verdicts[commits[i].feedback].candidate = verdicts[commits[j].feedback].candidate => i = j
  /\ \A t \in EvidenceEventTypes : verified.facts[t] # NoFact =>
       LET fact == verified.facts[t]
       IN  /\ [id |-> fact.evidence, type |-> t, value |-> fact.value] \in Presentable
           /\ \E i \in DOMAIN commits : Accepting(commits[i]) /\ Promotes(commits[i], t, fact)
  /\ \A a \in verified.artifacts :
       exists(a) /\ \E i \in DOMAIN commits : Accepting(commits[i]) /\ a \in commits[i].artifacts
=============================================================================
