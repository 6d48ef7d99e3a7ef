-------------------------- MODULE WorkspaceSessions --------------------------
(***************************************************************************)
(* Durable workspace sessions and the staged edits made in them.           *)
(*                                                                         *)
(*   RunWorkspaceManager       lhas/workspace/registry.py                  *)
(*   DurableWorkspaceSession   lhas/workspace/session.py                   *)
(*   StagedWorkspace           lhas/workspace/staged.py                    *)
(*   workspace tools, SafeCli  lhas/workspace/tools.py, safe_cli.py        *)
(*                                                                         *)
(* A run's session is a copy of the project made file by file while the    *)
(* project may change, published by one rename, bound to the run by a row, *)
(* and opened again after a crash.  A file's content is a version; no      *)
(* version comes back once it was replaced in the source.                  *)
(***************************************************************************)
EXTENDS Naturals, FiniteSets

CONSTANTS
  Files,          \* the files of the project
  MaxVersions,    \* contents ever written (bounds the model)
  MaxFaults       \* crashes and damaged baselines (bounds the model)

ASSUME SessionConstants == IsFiniteSet(Files) /\ MaxVersions \in Nat /\ MaxFaults \in Nat

NoSession == [published |-> FALSE]
Trees == [Files -> 0..MaxVersions]

VARIABLES
  source,     \* the project's tree
  past,       \* every tree the project has had
  bound,      \* the WorkspaceSessionBinding row: none, CREATING, OPEN, COMPLETED
  session,    \* the session directory: work, baseline and the manifest's digests
  ws,         \* the process: where it is and what it holds in memory
  cmd,        \* the command the CLI tool started: none, alive
  versions,   \* contents written so far
  faults

wsVars == << source, past, bound, session, ws, cmd, versions, faults >>

Away == [pc |-> "away", todo |-> Files, copy |-> << >>, digest |-> << >>, base |-> << >>, seen |-> << >>]

WsInit ==
  /\ source = [f \in Files |-> 0] /\ past = {source}
  /\ bound = "none" /\ session = NoSession
  /\ ws = Away /\ cmd = "none" /\ versions = 0 /\ faults = 0

Fresh == versions + 1
CanWrite == versions < MaxVersions

\* Someone works on the project meanwhile.  Contents do not come back: a file
\* changed and changed back between the two reads would escape the comparison.
SourceChanges(f) ==
  /\ CanWrite
  /\ source' = [source EXCEPT ![f] = Fresh] /\ past' = past \cup {source'}
  /\ versions' = Fresh
  /\ UNCHANGED << bound, session, ws, cmd, faults >>

----------------------------------------------------------------------------
(* ensure_for_run: bind, copy, hash, publish, bind again.                    *)

Raise == ws' = Away

\* The row is written before the directory exists.
ensure_for_run ==
  /\ ws.pc = "away"
  /\ bound' = IF bound = "none" THEN "CREATING" ELSE bound
  /\ ws' = [Away EXCEPT !.pc = IF bound' = "CREATING" /\ ~session.published THEN "copy" ELSE "reopen"]
  /\ UNCHANGED << source, past, session, cmd, versions, faults >>

\* Too many or too large files, or a copy error: the build directory is removed.
CreateFails ==
  /\ ws.pc \in {"copy", "hash"}
  /\ Raise /\ UNCHANGED << source, past, bound, session, cmd, versions, faults >>

CopyFile(f) ==
  /\ ws.pc = "copy" /\ f \in ws.todo
  /\ LET copied == [g \in (Files \ ws.todo) \cup {f} |-> IF g = f THEN source[f] ELSE ws.copy[g]]
         left == ws.todo \ {f}
     IN  ws' = IF left # {} THEN [ws EXCEPT !.copy = copied, !.todo = left]
               ELSE [ws EXCEPT !.copy = copied, !.todo = Files, !.pc = "hash"]
  /\ UNCHANGED << source, past, bound, session, cmd, versions, faults >>

\* tree_sha256(source): the source is read a second time, file by file.
HashFile(f) ==
  /\ ws.pc = "hash" /\ f \in ws.todo
  /\ LET read == [g \in (Files \ ws.todo) \cup {f} |-> IF g = f THEN source[f] ELSE ws.digest[g]]
         left == ws.todo \ {f}
     IN  ws' = [ws EXCEPT !.digest = read, !.todo = left, !.pc = IF left = {} THEN "publish" ELSE "hash"]
  /\ UNCHANGED << source, past, bound, session, cmd, versions, faults >>

\* The copy stands only if the source still reads as it was copied.  The broken
\* form publishes whatever was copied.
CopyStandsAlways == TRUE
CopyStands == ws.digest = ws.copy

Publish ==
  /\ ws.pc = "publish"
  /\ IF CopyStands /\ ~session.published
     THEN /\ session' = [published |-> TRUE, work |-> ws.copy, baseline |-> ws.copy,
                         sourceHash |-> ws.digest, baselineHash |-> ws.copy]
          /\ ws' = [Away EXCEPT !.pc = "reopen"]
     ELSE Raise /\ UNCHANGED session
  /\ UNCHANGED << source, past, bound, cmd, versions, faults >>

\* reopen(): the baseline must hash to the manifest's value, and so must the
\* source; otherwise it raises and the binding stays as it is.
ReopenAllowed ==
  /\ session.published
  /\ session.baseline = session.baselineHash
  /\ source = session.sourceHash

\* What restore and diff go by is the baseline directory.
OpenedBaseline == session.baseline

Reopen ==
  /\ ws.pc = "reopen"
  /\ ws' = IF ~ReopenAllowed THEN Away
           ELSE [Away EXCEPT !.pc = "bind", !.base = OpenedBaseline, !.seen = OpenedBaseline]
  /\ UNCHANGED << source, past, bound, session, cmd, versions, faults >>

\* The row follows the directory.
BindOpen == ws.pc = "bind"

MarkOpen ==
  /\ BindOpen
  /\ bound' = IF bound = "CREATING" THEN "OPEN" ELSE bound
  /\ ws' = IF ws.pc = "bind" THEN [ws EXCEPT !.pc = "open"] ELSE ws
  /\ UNCHANGED << source, past, session, cmd, versions, faults >>

mark_completed ==
  /\ ws.pc = "open" /\ cmd = "none" /\ bound' = "COMPLETED"
  /\ Raise /\ UNCHANGED << source, past, session, cmd, versions, faults >>

----------------------------------------------------------------------------
(* The tools.                                                               *)

Open == ws.pc = "open"

\* The agent reads a file: it now knows this version's digest.
read_file(f) ==
  /\ Open /\ ws.seen[f] # session.work[f]
  /\ ws' = [ws EXCEPT !.seen[f] = session.work[f]]
  /\ UNCHANGED << source, past, bound, session, cmd, versions, faults >>

Written(f, v) == session' = [session EXCEPT !.work[f] = v]

\* The text to replace occurs once in the file as it is now, exactly or up to
\* line ends, and the result differs.  A missing or ambiguous target or no change
\* writes nothing and is a failed result.  The digest is optional here.
edit_file(f) ==
  /\ Open /\ CanWrite
  /\ Written(f, Fresh) /\ versions' = Fresh
  /\ ws' = [ws EXCEPT !.seen[f] = Fresh]
  /\ UNCHANGED << source, past, bound, cmd, faults >>

\* Line numbers mean nothing in another version: the digest is required and must
\* be that of the file.
edit_lines(f) == ws.pc = "open" /\ ws.seen[f] = session.work[f] /\ edit_file(f)

restore_file(f) ==
  /\ Open /\ session.work[f] # ws.base[f]
  /\ Written(f, ws.base[f])
  /\ UNCHANGED << source, past, bound, ws, cmd, versions, faults >>

\* The CLI tool starts an allowed command in the work tree and waits for it.
StartCommand ==
  /\ Open /\ cmd = "none"
  /\ cmd' = "alive" /\ ws' = [ws EXCEPT !.pc = "cli"]
  /\ UNCHANGED << source, past, bound, session, versions, faults >>

CommandWrites(f) ==
  /\ cmd = "alive" /\ CanWrite
  /\ Written(f, Fresh) /\ versions' = Fresh
  /\ UNCHANGED << source, past, bound, ws, cmd, faults >>

\* It ends, or its time is up or the run is cancelled and it is terminated, killed
\* if it does not react.
AfterTimeout == "none"

CommandEnds ==
  /\ ws.pc = "cli"
  /\ cmd' \in {"none", AfterTimeout}
  /\ ws' = [ws EXCEPT !.pc = "open"]
  /\ UNCHANGED << source, past, bound, session, versions, faults >>

\* A command runs in a session of its own, so it outlives a harness that dies.
OrphanEnds ==
  /\ cmd = "alive" /\ ws.pc # "cli" /\ cmd' = "none"
  /\ UNCHANGED << source, past, bound, session, ws, versions, faults >>

WsCrash ==
  /\ ws.pc # "away" /\ faults < MaxFaults
  /\ ws' = Away /\ faults' = faults + 1
  /\ UNCHANGED << source, past, bound, session, cmd, versions >>

\* The baseline directory is damaged from outside.
BaselineDamaged(f) ==
  /\ session.published /\ CanWrite /\ faults < MaxFaults /\ ws.pc = "away"
  /\ session' = [session EXCEPT !.baseline[f] = Fresh]
  /\ versions' = Fresh /\ faults' = faults + 1
  /\ UNCHANGED << source, past, bound, ws, cmd >>

WsNext ==
  \/ ensure_for_run \/ CreateFails \/ Publish \/ Reopen \/ MarkOpen \/ mark_completed
  \/ StartCommand \/ CommandEnds \/ OrphanEnds \/ WsCrash
  \/ \E f \in Files :
       \/ SourceChanges(f) \/ CopyFile(f) \/ HashFile(f) \/ read_file(f) \/ edit_file(f) \/ edit_lines(f)
       \/ restore_file(f) \/ CommandWrites(f) \/ BaselineDamaged(f)

WsSpec == WsInit /\ [][WsNext]_wsVars

----------------------------------------------------------------------------
(* Properties.                                                              *)

\* The baseline a session was published with is a tree the project really had at
\* one moment, although it is copied file by file while the project changes.
BaselineIsASnapshot == session.published => session.baselineHash \in past

WsTypeOK ==
  /\ source \in Trees /\ past \subseteq Trees /\ versions \in 0..MaxVersions
  /\ bound \in {"none", "CREATING", "OPEN", "COMPLETED"}
  /\ session.published => session.work \in Trees /\ session.baseline \in Trees
  /\ ws.pc \in {"away", "copy", "hash", "publish", "reopen", "bind", "open", "cli"}
=============================================================================
