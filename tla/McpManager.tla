----------------------------- MODULE McpManager -----------------------------
(***************************************************************************)
(* mcp/manager.py: the stdio transport to one MCP server.  The platform    *)
(* (the owner) connects and closes; callers are agents whose tool calls    *)
(* share the connection.  A connection object outlives its registration:   *)
(* a caller keeps the one it looked up, so every connection ever opened    *)
(* has its own lock, id counter, process and pipe, indexed by generation.  *)
(*                                                                         *)
(* The server process and its pipe are external: it answers the requests   *)
(* it received in any order, may send messages that answer nothing, may    *)
(* die, and may ignore SIGTERM.                                            *)
(***************************************************************************)
EXTENDS Integers, Sequences, FiniteSets

CONSTANTS
  Callers,       \* concurrent tool callers
  Owner,         \* the platform, which connects and closes
  MaxGen,        \* bound: connections opened
  MaxId,         \* bound: requests per connection
  MaxTrouble     \* bound: unasked messages, timeouts and cancellations

ASSUME McpAssumption == Owner \notin Callers /\ MaxGen \in Nat /\ MaxId \in Nat

VARIABLES
  conn,      \* _connections[name]: the registered generation, 0 when none
  tools,     \* the server's capabilities are in _tools
  gens,      \* generation -> [proc, lock, nextId, asked, pipe]
  task,      \* caller or owner -> its request in progress
  owner,     \* where connect / close stands
  trouble

mcpVars == << conn, tools, gens, task, owner, trouble >>

Tasks == Callers \cup {Owner}
Gens == 1..MaxGen
Unused == [proc |-> "none", lock |-> {}, nextId |-> 1, asked |-> {}, pipe |-> << >>]
Rest == [pc |-> "idle", gen |-> 0, id |-> 0, result |-> "none", got |-> 0]

McpInit ==
  /\ conn = 0 /\ tools = FALSE
  /\ gens = [g \in Gens |-> Unused]
  /\ task = [t \in Tasks |-> Rest]
  /\ owner = "off"
  /\ trouble = 0

-----------------------------------------------------------------------------
(* _request, up to the point where the request is on the wire.             *)

Begin(t, g) == [pc |-> "waiting", gen |-> g, id |-> 0, result |-> "none", got |-> 0]

\* The request is over: the lock of its connection is released on the way out.
Ended(t, result, got) ==
  [task[t] EXCEPT !.pc = "idle", !.result = result, !.got = got]

Released(g, t) == gens[g].lock \ {t}

\* What the owner does when one of the requests of connect ends: notify the
\* server, return the listed tools, or close and re-raise.
OwnerAfter(t, result) ==
  CASE t # Owner -> owner
    [] t = Owner /\ result = "ok" /\ owner = "initialize" -> "notify"
    [] t = Owner /\ result = "ok" /\ owner = "discover" -> "on"
    [] t = Owner /\ result = "cancelled" -> "on"
    [] OTHER -> "failed"

EndRequest(t, result, got) ==
  /\ task' = [task EXCEPT ![t] = Ended(t, result, got)]
  /\ owner' = OwnerAfter(t, result)
  /\ tools' = (tools \/ (t = Owner /\ result = "ok" /\ owner = "discover"))

\* connect: spawn, register, and send "initialize".  A name that is already
\* registered raises before anything is spawned.
connect ==
  /\ owner = "off" /\ conn = 0
  /\ \E g \in Gens :
       /\ gens[g].proc = "none" /\ \A h \in 1..(g - 1) : gens[h].proc # "none"
       /\ conn' = g
       /\ gens' = [gens EXCEPT ![g].proc = "up"]
       /\ task' = [task EXCEPT ![Owner] = Begin(Owner, g)]
  /\ owner' = "initialize"
  /\ UNCHANGED << tools, trouble >>

\* _notify, without the lock: connect goes on with tools/list, or the write times
\* out and connect closes, or connect is cancelled.
Notify ==
  /\ owner = "notify"
  /\ \/ /\ owner' = "discover" /\ UNCHANGED trouble
        /\ task' = [task EXCEPT ![Owner] = Begin(Owner, task[Owner].gen)]
     \/ /\ trouble < MaxTrouble /\ trouble' = trouble + 1
        /\ owner' \in {"failed", "on"} /\ UNCHANGED task
  /\ UNCHANGED << conn, tools, gens >>

\* call_tool looks the capability up and takes the registered connection, both
\* before its first await; an unlisted capability is a KeyError.
call_tool(c) ==
  /\ task[c].pc = "idle" /\ tools /\ conn # 0
  /\ task' = [task EXCEPT ![c] = Begin(c, conn)]
  /\ UNCHANGED << conn, tools, gens, owner, trouble >>

\* Mutant: requests are not serialised.
LockFreeAlways(t) == TRUE

LockFree(t) == gens[task[t].gen].lock = {}

\* The lock is taken and the request written; an over-long request has used
\* up its id and raises, a cancelled control raises before that.
Send(t) ==
  LET g == task[t].gen IN
  /\ task[t].pc = "waiting" /\ LockFree(t)
  /\ gens[g].nextId <= MaxId
  /\ gens' = [gens EXCEPT ![g].lock = @ \cup {t}, ![g].nextId = @ + 1,
                          ![g].asked = IF gens[g].proc = "dead" THEN @
                                       ELSE @ \cup {gens[g].nextId}]
  /\ task' = [task EXCEPT ![t].pc = "reading", ![t].id = gens[g].nextId]
  /\ UNCHANGED << conn, tools, owner, trouble >>

SendRefused(t) ==
  LET g == task[t].gen IN
  /\ task[t].pc = "waiting" /\ LockFree(t)
  /\ trouble < MaxTrouble /\ trouble' = trouble + 1
  /\ \/ gens' = gens
     \/ gens' = [gens EXCEPT ![g].nextId = @ + 1]
  /\ EndRequest(t, "refused", 0)
  /\ UNCHANGED conn

-----------------------------------------------------------------------------
(* The server (external).                                                  *)

ServerAnswers(g, kind) ==
  /\ gens[g].proc \in {"up", "dying"}
  /\ \E i \in gens[g].asked :
       gens' = [gens EXCEPT ![g].asked = @ \ {i},
                            ![g].pipe = Append(@, [id |-> i, kind |-> kind])]
  /\ UNCHANGED << conn, tools, task, owner, trouble >>

ServerNotes(g) ==
  /\ gens[g].proc \in {"up", "dying"} /\ trouble < MaxTrouble
  /\ trouble' = trouble + 1
  /\ gens' = [gens EXCEPT ![g].pipe = Append(@, [id |-> 0, kind |-> "note"])]
  /\ UNCHANGED << conn, tools, task, owner >>

ServerDies(g) ==
  /\ gens[g].proc \in {"up", "dying"}
  /\ gens' = [gens EXCEPT ![g].proc = "dead"]
  /\ UNCHANGED << conn, tools, task, owner, trouble >>

-----------------------------------------------------------------------------
(* The read loop of _request.                                              *)

IsOwn(t, m) == m.id = task[t].id

\* A line longer than the stream's limit raises, and the part of it that had
\* not arrived yet is left to be read as a line of its own.
AfterLong(pipe) == { Tail(pipe), << [id |-> 0, kind |-> "junk"] >> \o Tail(pipe) }

Read(t) ==
  LET g == task[t].gen
      m == Head(gens[g].pipe)
      unreadable == m.kind \in {"long", "junk"}
  IN
  /\ task[t].pc = "reading" /\ gens[g].pipe # << >>
  /\ \/ /\ ~unreadable /\ ~IsOwn(t, m)
        /\ gens' = [gens EXCEPT ![g].pipe = Tail(@)]
        /\ UNCHANGED << task, owner, tools >>
     \/ /\ ~unreadable /\ IsOwn(t, m)
        /\ gens' = [gens EXCEPT ![g].pipe = Tail(@), ![g].lock = Released(g, t)]
        /\ EndRequest(t, m.kind, m.id)
     \/ /\ unreadable
        /\ \E rest \in IF m.kind = "long" THEN AfterLong(gens[g].pipe)
                       ELSE { Tail(gens[g].pipe) } :
             gens' = [gens EXCEPT ![g].pipe = rest, ![g].lock = Released(g, t)]
        /\ EndRequest(t, "unreadable", 0)
  /\ UNCHANGED << conn, trouble >>

ReadEof(t) ==
  LET g == task[t].gen IN
  /\ task[t].pc = "reading" /\ gens[g].pipe = << >> /\ gens[g].proc = "dead"
  /\ gens' = [gens EXCEPT ![g].lock = Released(g, t)]
  /\ EndRequest(t, "closed", 0)
  /\ UNCHANGED << conn, trouble >>

\* MCP_TIMEOUT, the caller's deadline or its cancellation token: the process
\* is sent SIGTERM and the connection stays registered.
TimeOut(t) ==
  LET g == task[t].gen IN
  /\ task[t].pc = "reading" /\ trouble < MaxTrouble /\ trouble' = trouble + 1
  /\ gens' = [gens EXCEPT ![g].lock = Released(g, t),
                          ![g].proc = IF @ = "up" THEN "dying" ELSE @]
  /\ EndRequest(t, "timeout", 0)
  /\ UNCHANGED conn

\* The awaiting task itself is cancelled: nothing in _request or connect
\* catches it, so the process runs on and its answer will still arrive.
Cancel(t) ==
  LET g == task[t].gen IN
  /\ task[t].pc = "reading" /\ trouble < MaxTrouble /\ trouble' = trouble + 1
  /\ gens' = [gens EXCEPT ![g].lock = Released(g, t)]
  /\ EndRequest(t, "cancelled", 0)
  /\ UNCHANGED conn

-----------------------------------------------------------------------------
(* close: unregister, forget the tools, SIGTERM, wait, SIGKILL.            *)

ToolsAfterClose == FALSE

close ==
  /\ owner \in {"on", "failed"} /\ conn # 0
  /\ conn' = 0 /\ tools' = ToolsAfterClose
  /\ gens' = [gens EXCEPT ![conn].proc = IF @ = "up" THEN "dying" ELSE @]
  /\ owner' = "closing"
  /\ UNCHANGED << task, trouble >>

\* close waits for the one process it popped.
CloseEnds ==
  /\ owner = "closing"
  /\ gens' = [g \in Gens |-> IF gens[g].proc = "dying" /\ g = task[Owner].gen
                             THEN [gens[g] EXCEPT !.proc = "dead"] ELSE gens[g]]
  /\ owner' = "off"
  /\ UNCHANGED << conn, tools, task, trouble >>

Requests(t) == Send(t) \/ SendRefused(t) \/ Read(t) \/ ReadEof(t) \/ TimeOut(t) \/ Cancel(t)

McpNext ==
  \/ connect \/ Notify \/ close \/ CloseEnds
  \/ \E c \in Callers : call_tool(c)
  \/ \E t \in Tasks : Requests(t)
  \/ \E g \in Gens : \/ \E kind \in {"ok", "error", "long"} : ServerAnswers(g, kind)
                     \/ ServerNotes(g) \/ ServerDies(g)

McpSpec == McpInit /\ [][McpNext]_mcpVars

-----------------------------------------------------------------------------
McpTypeOK ==
  /\ conn \in 0..MaxGen /\ tools \in BOOLEAN
  /\ owner \in {"off", "initialize", "notify", "discover", "on", "failed", "closing"}
  /\ \A g \in Gens : /\ gens[g].proc \in {"none", "up", "dying", "dead"}
                     /\ gens[g].lock \subseteq Tasks
  /\ \A t \in Tasks : task[t].pc \in {"idle", "waiting", "reading"}

\* The read loop throws a message away only when nobody is still waiting for
\* it: the lock keeps two requests from eating each other's answers.
NoAnswerDiscarded ==
  [][ \A g \in Gens :
        LET m == Head(gens[g].pipe) IN
        gens[g].pipe # << >> /\ gens'[g].pipe = Tail(gens[g].pipe) =>
          \A t \in Tasks :
            task[t].pc = "reading" /\ task[t].gen = g /\ task[t].id = m.id
              => task'[t] # task[t] ]_mcpVars

=============================================================================
