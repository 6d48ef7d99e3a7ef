----------------------------- MODULE ToolCalls ------------------------------
(***************************************************************************)
(* One attempt's tool calls: the allow-listed capabilities an inner agent  *)
(* is given (inner_agent/tool_adapter.py), the contract every call passes  *)
(* (tools/contract.py over capability_registry.py), and the observer that  *)
(* tells the model when it repeats a failure and whether an edit was       *)
(* looked at before it was tested.                                         *)
(*                                                                         *)
(* Arguments are reduced to what the code tells apart: the target path and *)
(* whether they are no JSON, break the schema, lack the command prefix the *)
(* capability stands for, or are fine.                                     *)
(***************************************************************************)
EXTENDS Integers, Sequences, FiniteSets

CONSTANTS
  Paths,           \* files an edit may target
  Errors,          \* error types of a call that passed validation
  MaxKeys,         \* _MAX_SIGNATURE_KEYS
  MaxRepeat,       \* _MAX_REPEAT_COUNT
  MaxCalls         \* bound: calls of one attempt

\* A count stops at MaxRepeat, and two alike must still be told from one.
ASSUME ToolCallsAssumption ==
  MaxKeys \in Nat \ {0} /\ MaxRepeat \in Nat \ {0, 1} /\ MaxCalls \in Nat

VARIABLES
  registered,      \* backends in the ToolRegistry
  granted,         \* request.allowed_side_effect_capabilities
  obs,             \* the ToolAwareObserver
  history          \* the calls made and what the model was told of each

toolVars == << registered, granted, obs, history >>

Edits == {"workspace.edit", "workspace.edit_lines"}
Recovery == {"workspace.read", "workspace.search"}
Inspecting == {"workspace.read", "workspace.diff"}

\* The part of default_capabilities an inner agent uses: the backend each
\* capability is bound to.  git.status and cli.exec share one.
preferred_tool ==
  [cap \in Edits \cup {"workspace.read", "workspace.diff", "cli.exec", "git.status"} |->
     IF cap = "git.status" THEN "cli.exec" ELSE cap]

Capabilities == DOMAIN preferred_tool
Tools == { preferred_tool[c] : c \in Capabilities }

\* What the backend's own CapabilitySpec says.
side_effect(tool) == tool \in Edits

NoFailure == << >>
NewObserver ==
  [index |-> 0, signatures |-> << >>, lastSimilar |-> NoFailure, similar |-> 0,
   pending |-> NoFailure, editPending |-> FALSE, mutation |-> 0, inspected |-> FALSE]

ToolInit ==
  /\ registered \in { Tools, Tools \ {"cli.exec"} }
  /\ granted \in { {}, Edits }
  /\ obs = NewObserver
  /\ history = << >>

-----------------------------------------------------------------------------
(* The contract.                                                           *)

\* discover: a capability is available when its backend is registered (the
\* contract passes the concrete registry's tools as the context).
discover(cap) == preferred_tool[cap] \in registered

\* allowed_tools: unknown, unbound and ungranted capabilities are filtered.
allowed_tools ==
  { cap \in Capabilities :
      /\ discover(cap)
      /\ side_effect(preferred_tool[cap]) => cap \in granted }

\* _check_semantic_argv: capabilities that share a backend must be asked for
\* what they stand for.
PrefixHolds(cap, arg) == cap = "git.status" => arg # "other_command"

\* validate_request: the checks in order; "valid" or the error type.
validate_request(cap, arg) ==
  IF ~discover(cap) THEN "CAPABILITY_UNAVAILABLE"
  ELSE IF arg = "bad_schema" \/ ~PrefixHolds(cap, arg) THEN "INVALID_ARGUMENT"
  ELSE "valid"

\* invoke: what the model-facing result of a call may be.  Errors are the
\* backend's own, EXECUTION_FAILED for one that raises, and
\* OUTPUT_VALIDATION_FAILED for an output its schema refuses, even when the
\* backend had succeeded.
ResultsOf(cap, arg) ==
  IF validate_request(cap, arg) # "valid" THEN { validate_request(cap, arg) }
  ELSE {"ok"} \cup Errors \cup (IF cap \in Edits THEN {"changed"} ELSE {})

Failed(result) == result \notin {"ok", "changed"}

-----------------------------------------------------------------------------
(* The observer: decorate, field by field.                                 *)

Key(cap, path, arg, result) == << cap, path, arg, result >>
Remembered(o, key) == key \in DOMAIN o.signatures

Bounded(n) == IF n + 1 > MaxRepeat THEN MaxRepeat ELSE n + 1

\* How often this exact call has now failed this way; a new one is only
\* remembered while there is room, and counts as the first every time after.
Exact(o, key) == IF Remembered(o, key) THEN Bounded(o.signatures[key]) ELSE 1

Signatures(o, key) ==
  IF Remembered(o, key) THEN [o.signatures EXCEPT ![key] = Bounded(@)]
  ELSE IF Cardinality(DOMAIN o.signatures) < MaxKeys
    THEN [k \in DOMAIN o.signatures \cup {key} |->
            IF k = key THEN 1 ELSE o.signatures[k]]
  ELSE o.signatures

EditFailed(cap, result) == cap \in Edits /\ Failed(result)
Similar(cap, path, result) == << cap, path, result >>

\* Mutant: only another edit ends the run.
SimilarRunEdits(o, cap, path, result) ==
  IF EditFailed(cap, result)
    THEN << Similar(cap, path, result),
            IF o.lastSimilar = Similar(cap, path, result) THEN Bounded(o.similar) ELSE 1 >>
  ELSE IF cap \in Edits THEN << NoFailure, 0 >> ELSE << o.lastSimilar, o.similar >>

\* The run of alike edit failures and its length; every other call ends it.
SimilarRun(o, cap, path, result) ==
  IF EditFailed(cap, result)
    THEN << Similar(cap, path, result),
            IF o.lastSimilar = Similar(cap, path, result) THEN Bounded(o.similar) ELSE 1 >>
  ELSE << NoFailure, 0 >>

\* Two alike in a row ask for another strategy.
Alike(o, cap, path, result) ==
  EditFailed(cap, result) /\ SimilarRun(o, cap, path, result)[2] >= 2

\* A change starts uninspected; a later read or diff, even one that failed,
\* counts as looking at it.
Inspected(o, cap, result) ==
  IF result = "changed" THEN FALSE
  ELSE o.inspected \/ (cap \in Inspecting /\ o.mutation # 0)

\* strategy_pending: set when alike edit failures repeat, cleared by the first
\* successful edit or recovery read, which is reported as the change.
Pending(o, cap, path, result) ==
  IF Alike(o, cap, path, result) THEN Similar(cap, path, result)
  ELSE IF cap \in Recovery \/ (cap \in Edits /\ ~Failed(result)) THEN NoFailure
  ELSE o.pending

\* A successful edit clears the pending failure only with a pending strategy.
EditPending(o, cap, result) ==
  IF EditFailed(cap, result) THEN TRUE
  ELSE /\ o.editPending
       /\ ~(cap \in Edits /\ o.pending # NoFailure)
       /\ cap \notin Recovery

Decorated(o, cap, path, key, result) ==
  [index |-> o.index + 1,
   signatures |-> IF Failed(result) THEN Signatures(o, key) ELSE o.signatures,
   lastSimilar |-> SimilarRun(o, cap, path, result)[1],
   similar |-> SimilarRun(o, cap, path, result)[2],
   pending |-> Pending(o, cap, path, result),
   editPending |-> EditPending(o, cap, result),
   mutation |-> IF result = "changed" THEN o.index + 1 ELSE o.mutation,
   inspected |-> Inspected(o, cap, result)]

\* What decorate adds to the summary of this call.
Summary(o, cap, path, key, result) ==
  [required |-> \/ Failed(result) /\ Exact(o, key) >= 2
                \/ Alike(o, cap, path, result),
   changed |-> /\ o.pending # NoFailure
               /\ cap \in Recovery \/ (cap \in Edits /\ ~Failed(result)),
   verified |-> cap = "cli.exec" /\ o.mutation # 0,
   inspected |-> cap = "cli.exec" /\ o.mutation # 0 /\ o.inspected]

-----------------------------------------------------------------------------
Entry(cap, path, arg, result, summary) ==
  [cap |-> cap, path |-> path, arg |-> arg, result |-> result, told |-> summary]

\* A call through the allow list.  Arguments that are no JSON object are
\* answered before the contract or the observer sees the call, so such a call
\* leaves no trace here.
invoke(cap, path, arg) ==
  /\ Len(history) < MaxCalls
  /\ cap \in allowed_tools
  /\ \E result \in ResultsOf(cap, arg) :
       LET key == Key(cap, path, arg, result) IN
       /\ obs' = Decorated(obs, cap, path, key, result)
       /\ history' = Append(history,
            Entry(cap, path, arg, result, Summary(obs, cap, path, key, result)))
  /\ UNCHANGED << registered, granted >>

\* A capability asked for by name past the allow list (OfflineDemoBackend calls
\* the contract directly) reaches validate_request and is decorated too.
direct(cap, path, arg) ==
  /\ Len(history) < MaxCalls
  /\ cap \notin allowed_tools /\ ~discover(cap)
  /\ LET result == validate_request(cap, arg)
         key == Key(cap, path, arg, result)
     IN /\ obs' = Decorated(obs, cap, path, key, result)
        /\ history' = Append(history,
             Entry(cap, path, arg, result, Summary(obs, cap, path, key, result)))
  /\ UNCHANGED << registered, granted >>

\* The argument classes worth telling apart for each capability: an edit may
\* be tried again with another text.
Args(cap) ==
  CASE cap = "git.status" -> {"fine", "other_command"}
    [] cap = "workspace.edit" -> {"fine", "other_text"}
    [] cap = "workspace.diff" -> {"fine", "bad_schema"}
    [] OTHER -> {"fine"}

\* Only edits are told apart by their path.
PathsOf(cap) == IF cap \in Edits THEN Paths ELSE {"-"}

ToolNext ==
  \E cap \in Capabilities : \E path \in PathsOf(cap), arg \in Args(cap) :
    invoke(cap, path, arg) \/ direct(cap, path, arg)

ToolSpec == ToolInit /\ [][ToolNext]_toolVars

-----------------------------------------------------------------------------
ToolTypeOK ==
  /\ registered \subseteq Tools
  /\ obs.index \in 0..MaxCalls
  /\ Cardinality(DOMAIN obs.signatures) <= MaxKeys
  /\ obs.mutation <= obs.index

EntryKey(e) == Key(e.cap, e.path, e.arg, e.result)

\* The first MaxKeys distinct failures are the ones that get counted.
WasCounted(i) ==
  LET first == CHOOSE j \in 1..i : /\ EntryKey(history[j]) = EntryKey(history[i])
                                   /\ \A k \in 1..(j-1) : EntryKey(history[k]) # EntryKey(history[i])
  IN Cardinality({ EntryKey(history[k]) : k \in { n \in 1..(first-1) : Failed(history[n].result) } })
       < MaxKeys

\* The model is told to change its strategy exactly when it repeats a call
\* that already failed in the same way, or when its last two calls were edits
\* of one file that failed alike; nothing it does in between keeps or loses
\* that by accident.
SignalIsRight ==
  \A i \in 1..Len(history) :
    history[i].told.required <=>
      /\ Failed(history[i].result)
      /\ \/ WasCounted(i) /\ \E j \in 1..(i-1) : EntryKey(history[j]) = EntryKey(history[i])
         \/ /\ i > 1 /\ history[i].cap \in Edits
            /\ history[i-1].cap = history[i].cap
            /\ history[i-1].path = history[i].path
            /\ history[i-1].result = history[i].result

=============================================================================
