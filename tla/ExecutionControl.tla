-------------------------- MODULE ExecutionControl --------------------------
(***************************************************************************)
(* The root deadline and cancellation contract, src/lhas/execution_control *)
(* .py: a tree of ExecutionControlTokens and the awaits that run under     *)
(* them (await_with_control).                                              *)
(*                                                                         *)
(* Everything runs on one event loop, so an action is what the code does   *)
(* between two awaits.  A token learns of its parent's end only when       *)
(* somebody looks at it (_sync_parent): looking is part of the action that *)
(* looks, and also an action of its own.                                   *)
(***************************************************************************)
EXTENDS Integers

CONSTANTS
  Ops,        \* calls of await_with_control
  MaxTokens,  \* bound: tokens in the tree; token 1 is the root
  MaxTime,    \* bound: ticks of the monotonic clock
  Jitter      \* how early asyncio.wait may wake up, in ticks

ASSUME ControlConstants ==
  MaxTokens \in Nat \ {0} /\ MaxTime \in Nat /\ Jitter \in Nat

VARIABLES
  now,       \* the monotonic clock
  tokens,    \* number of tokens created so far
  line,      \* a token and everything its chain of parents reaches
  deadline,  \* absolute_deadline
  reason,    \* _reason; Unset while _cancelled is false
  aw         \* each await: its token, operation and terminal waiter

controlVars == <<now, tokens, line, deadline, reason, aw>>
tree == <<tokens, line, deadline>>

Unset == "NONE"
DeadlineExceeded == "ROOT_DEADLINE_EXCEEDED"
Never == MaxTime + 1

AllTokens == 1..MaxTokens
Tokens == 1..tokens
Deadlines == 0..Never

Lesser(a, b) == IF a <= b THEN a ELSE b

----------------------------------------------------------------------------
(***************************************************************************)
(* Tokens.  cause stands for _reason, so that two looks can be chained.    *)
(***************************************************************************)
DeadlinePassed(t) == now >= deadline[t]

\* The parents that are terminated already, and the closest of them.
TerminatedAbove(cause, t) == {u \in line[t] \ {t} : cause[u] # Unset}

Closest(S) == CHOOSE u \in S : \A v \in S : v <= u

CheckedReasonCancelled(cause, t) ==
  IF cause[t] # Unset THEN cause[t]
  ELSE IF TerminatedAbove(cause, t) # {} THEN "PARENT_CANCELLED"
  ELSE IF \E u \in line[t] \ {t} : DeadlinePassed(u) THEN "PARENT_CANCELLED"
  ELSE IF DeadlinePassed(t) THEN DeadlineExceeded ELSE Unset

\* What check() leaves in a token: first its parents are checked.
CheckedReason(cause, t) ==
  LET above == TerminatedAbove(cause, t)
  IN  IF cause[t] # Unset THEN cause[t]
      ELSE IF above # {}
        THEN IF cause[Closest(above)] = DeadlineExceeded
               THEN DeadlineExceeded ELSE "PARENT_CANCELLED"
      ELSE IF \E u \in line[t] : DeadlinePassed(u) THEN DeadlineExceeded
      ELSE Unset

\* check() of t, which also brings every parent up to date.
Check(cause, t) ==
  [u \in AllTokens |-> IF u \in line[t] THEN CheckedReason(cause, u) ELSE cause[u]]

\* check() raises.
Terminal(t) == CheckedReason(reason, t) # Unset

\* _terminate of t: the first reason stays.
Terminate(t, why) ==
  [reason EXCEPT ![t] = IF reason[t] = Unset THEN why ELSE reason[t]]

\* A broken Notified: _notify does not go on to the children.
NotifiedOwn(cause, a) == reason[a.token] = Unset /\ cause[a.token] # Unset

\* _notify reaches the waiters below every token that was just terminated.
Notified(cause, a) ==
  \E u \in line[a.token] : reason[u] = Unset /\ cause[u] # Unset

\* The new reasons are written and the waiters below are signalled.
SignalWaiters(cause, awaits) ==
  /\ reason' = cause
  /\ aw' = [o \in Ops |->
       IF awaits[o].waiter = "registered" /\ Notified(cause, awaits[o])
         THEN [awaits[o] EXCEPT !.waiter = "signalled"] ELSE awaits[o]]

----------------------------------------------------------------------------
NoAwait == [ place |-> "unused", token |-> 1, until |-> Never, rootWins |-> FALSE,
             op |-> Unset, waiter |-> Unset, outcome |-> Unset ]

ControlInit ==
  /\ now = 0 /\ tokens = 1
  /\ line = [t \in AllTokens |-> {1, t}]
  /\ deadline \in {[t \in AllTokens |-> d] : d \in Deadlines}
  /\ reason = [t \in AllTokens |-> Unset]
  /\ aw = [o \in Ops |-> NoAwait]

Tick == now < MaxTime /\ now' = now + 1 /\ UNCHANGED <<tree, reason, aw>>

\* cancelled, terminal, check, evidence, remaining_time: somebody looks.
Look(t) == SignalWaiters(Check(reason, t), aw) /\ UNCHANGED <<now, tree>>

\* cancel() of a token, which does not look at the parents.
Cancel(t) == SignalWaiters(Terminate(t, "USER_CANCEL"), aw) /\ UNCHANGED <<now, tree>>

ChildDeadline(t, ceiling) ==
  IF ceiling = Never THEN deadline[t] ELSE Lesser(deadline[t], now + ceiling)

\* derive() of a token that is still alive.
Derive(t, ceiling) ==
  /\ tokens < MaxTokens /\ ~Terminal(t)
  /\ ceiling = Never \/ now + ceiling <= MaxTime
  /\ tokens' = tokens + 1
  /\ line' = [line EXCEPT ![tokens + 1] = line[t] \cup {tokens + 1}]
  /\ deadline' = [deadline EXCEPT ![tokens + 1] = ChildDeadline(t, ceiling)]
  /\ UNCHANGED <<now, reason, aw>>

----------------------------------------------------------------------------
(***************************************************************************)
(* await_with_control.                                                     *)
(***************************************************************************)
With(o, a) == [aw EXCEPT ![o] = a]

\* What the await ends with is decided, but the finally still has to await the
\* cancelled waiter.  An operation that outlives its grace period is detached, its
\* result consumed unseen.
Decided(t, outcome) ==
  [NoAwait EXCEPT !.place = "cleanup", !.token = t, !.outcome = outcome]

Outcome(o, outcome) == With(o, Decided(aw[o].token, outcome))

\* Already terminal: the awaitable is closed and never started, and the check raises
\* before there is anything to clean up.
Refuse(o, t) ==
  /\ aw[o].place = "unused" /\ Terminal(t)
  /\ SignalWaiters(Check(reason, t),
                   With(o, [Decided(t, "terminal") EXCEPT !.place = "over"]))
  /\ UNCHANGED <<now, tree>>

\* The smaller of the root's remaining time and the local ceiling.
Begin(o, t, ceiling) ==
  /\ aw[o].place = "unused" /\ ~Terminal(t)
  /\ ceiling = Never \/ now + ceiling <= MaxTime
  /\ aw' = With(o, [ NoAwait EXCEPT !.place = "wait", !.token = t,
              !.until = IF ceiling = Never THEN deadline[t]
                        ELSE Lesser(deadline[t], now + ceiling),
              !.rootWins = /\ deadline[t] # Never
                           /\ ceiling = Never \/ deadline[t] <= now + ceiling,
              !.op = "running", !.waiter = "created" ])
  /\ UNCHANGED <<now, tree, reason>>

\* wait_terminal before its first await, and whenever it polls a deadline.
WaiterLooks(o) ==
  /\ aw[o].place = "wait"
  /\ \/ aw[o].waiter = "created"
     \/ aw[o].waiter = "registered" /\ deadline[aw[o].token] # Never
        /\ Terminal(aw[o].token)
  /\ SignalWaiters(Check(reason, aw[o].token),
                   With(o, [aw[o] EXCEPT !.waiter =
                              IF Terminal(aw[o].token) THEN "done" ELSE "registered"]))
  /\ UNCHANGED <<now, tree>>

WaiterWakes(o) ==
  /\ aw[o].place = "wait" /\ aw[o].waiter = "signalled"
  /\ aw' = With(o, [aw[o] EXCEPT !.waiter = "done"])
  /\ UNCHANGED <<now, tree, reason>>

\* The operation ends, in time or while it is cancelled and drained.
OperationEnds(o) ==
  /\ aw[o].op = "running"
  /\ \E result \in {"ok", "error"} : aw' = With(o, [aw[o] EXCEPT !.op = result])
  /\ UNCHANGED <<now, tree, reason>>

\* asyncio.wait returns without either: the operation is cancelled and drained.
TimesOut(o) ==
  /\ aw[o].place = "wait"
  /\ aw[o].op = "running" /\ aw[o].waiter # "done"
  /\ aw[o].until # Never /\ now + Jitter >= aw[o].until
  /\ aw' = With(o, [aw[o] EXCEPT !.place = "timeout"])
  /\ UNCHANGED <<now, tree, reason>>

\* The terminal waiter is done, whatever the operation did.
TerminalWins(o) ==
  /\ aw[o].place = "wait" /\ aw[o].waiter = "done"
  /\ aw' = With(o, [aw[o] EXCEPT !.place = "terminal"])
  /\ UNCHANGED <<now, tree, reason>>

\* The surrounding task is cancelled, for instance by an await further out: while it
\* waits, or during the cleanup, where it replaces what was decided.  A drain
\* swallows it.
Interrupt(o) ==
  /\ \/ /\ aw[o].place = "wait"
        /\ aw' = With(o, [aw[o] EXCEPT !.place = "interrupt"])
     \/ aw[o].place = "cleanup" /\ aw' = Outcome(o, "interrupted")
  /\ UNCHANGED <<now, tree, reason>>

OperationFailed(o) ==
  /\ aw[o].place = "wait" /\ aw[o].op = "error" /\ aw[o].waiter # "done"
  /\ aw' = Outcome(o, "error")
  /\ UNCHANGED <<now, tree, reason>>

\* A broken Deliver: the result is taken without the last check.
DeliverUnchecked(o) ==
  /\ aw[o].place = "wait" /\ aw[o].op = "ok" /\ aw[o].waiter # "done"
  /\ aw' = Outcome(o, "result")
  /\ UNCHANGED <<now, tree, reason>>

\* The result is taken only past one more check.
Deliver(o) ==
  /\ aw[o].place = "wait" /\ aw[o].op = "ok" /\ aw[o].waiter # "done"
  /\ SignalWaiters(Check(reason, aw[o].token),
                   Outcome(o, IF Terminal(aw[o].token) THEN "terminal" ELSE "result"))
  /\ UNCHANGED <<now, tree>>

\* After the drain check() has to raise.
RaiseTerminal(o) ==
  /\ aw[o].place = "terminal"
  /\ SignalWaiters(Check(reason, aw[o].token),
                   Outcome(o, IF Terminal(aw[o].token) THEN "terminal" ELSE "assertion"))
  /\ UNCHANGED <<now, tree>>

\* The root's deadline ends the token, a component's ceiling does not.
RaiseTimeout(o) ==
  LET t == aw[o].token
      cause == Check(IF aw[o].rootWins THEN Terminate(t, DeadlineExceeded)
                     ELSE reason, t)
  IN  /\ aw[o].place = "timeout"
      /\ SignalWaiters(cause, Outcome(o, IF cause[t] # Unset THEN "terminal" ELSE "layer"))
      /\ UNCHANGED <<now, tree>>

RaiseInterrupt(o) ==
  /\ aw[o].place = "interrupt"
  /\ aw' = Outcome(o, "interrupted")
  /\ UNCHANGED <<now, tree, reason>>

\* The gather is done: what was decided leaves the await, with no further check.
Leave(o) ==
  /\ aw[o].place = "cleanup"
  /\ aw' = With(o, [aw[o] EXCEPT !.place = "over"])
  /\ UNCHANGED <<now, tree, reason>>

----------------------------------------------------------------------------
Ceilings == (1..MaxTime) \cup {Never}

\* What the event loop does for an await without anybody's help.
Settle(o) ==
  \/ WaiterLooks(o) \/ WaiterWakes(o) \/ TimesOut(o) \/ TerminalWins(o)
  \/ OperationFailed(o) \/ Deliver(o)
  \/ RaiseTerminal(o) \/ RaiseTimeout(o) \/ RaiseInterrupt(o) \/ Leave(o)

ControlNext ==
  \/ Tick
  \/ \E t \in Tokens :
       \/ Look(t) \/ Cancel(t)
       \/ \E ceiling \in Ceilings :
            Derive(t, ceiling) \/ \E o \in Ops : Begin(o, t, ceiling)
       \/ \E o \in Ops : Refuse(o, t)
  \/ \E o \in Ops : Settle(o) \/ OperationEnds(o) \/ Interrupt(o)

ControlSpec == ControlInit /\ [][ControlNext]_controlVars

\* The clock and the event loop go on; operations need never end.
ControlFairSpec ==
  ControlSpec /\ WF_controlVars(Tick) /\ \A o \in Ops : WF_controlVars(Settle(o))

----------------------------------------------------------------------------
Reasons == {Unset, DeadlineExceeded, "USER_CANCEL", "PARENT_CANCELLED"}

Await == [ place    : {"unused", "wait", "timeout", "terminal", "interrupt",
                       "cleanup", "over"},
           token    : AllTokens,
           until    : Deadlines,
           rootWins : BOOLEAN,
           op       : {Unset, "running", "ok", "error"},
           waiter   : {Unset, "created", "registered", "signalled", "done"},
           outcome  : {Unset, "result", "error", "terminal", "layer",
                       "interrupted", "assertion"} ]

ControlTypeOK ==
  /\ now \in 0..MaxTime /\ tokens \in AllTokens
  /\ line \in [AllTokens -> SUBSET AllTokens]
  /\ deadline \in [AllTokens -> Deadlines]
  /\ reason \in [AllTokens -> Reasons]
  /\ aw \in [Ops -> Await]

\* No component, attempt or child has more time than any token above it (the
\* clamp in ExecutionControlToken.__init__).
DeadlinesNest ==
  \A t \in Tokens : \A u \in line[t] : deadline[t] <= deadline[u]

\* A token blames the deadline only when it is due, and its parent only when one
\* above was cancelled (_sync_parent, _expire_if_needed, await_with_control).
BlameIsFounded ==
  \A t \in Tokens :
    /\ reason[t] = DeadlineExceeded =>
         deadline[t] # Never /\ now + Jitter >= deadline[t]
    /\ reason[t] = "PARENT_CANCELLED" =>
         \E u \in line[t] \ {t} : reason[u] \notin {Unset, DeadlineExceeded}

\* "terminal waiter returned without terminal control state" is never raised.
AssertionHolds == \A o \in Ops : aw[o].outcome # "assertion"

\* A token that nothing above has ended.
Alive(t) == \A u \in line[t] : reason[u] = Unset /\ now < deadline[u]

\* An await never settles on a result once its token or any token above it was
\* cancelled or is out of time, noticed or not, nor takes one back up that an
\* interruption replaced (the last check of await_with_control).  What was settled
\* on before may leave the await later: see ResultLeavesBeforeBoundary.
NoLateResult ==
  [][ \A o \in Ops :
        aw'[o].outcome = "result" =>
          aw[o].outcome = "result" \/ Alive(aw[o].token) ]_controlVars

\* An await settles on a component timeout only while its token lives, and leaves it
\* so: the component's own ceiling expired (ExecutionLayerTimeout).
LayerTimeoutIsLocal ==
  [][ \A o \in Ops :
        aw'[o].outcome = "layer" =>
          \/ aw[o].outcome = "layer"
          \/ /\ Alive(aw[o].token) /\ reason' = reason
             /\ now + Jitter >= aw[o].until
             /\ aw[o].until < deadline[aw[o].token] ]_controlVars

\* The docstring of await_with_control: "A late result is never returned after
\* control.check() observes a terminal boundary".  Only a check writes these two
\* reasons into a token.  It fails: a boundary observed by somebody else while the
\* finally awaits the waiter does not stop the result.
ResultLeavesBeforeBoundary ==
  [][ \A o \in Ops :
        aw[o].place # "over" /\ aw'[o].place = "over" /\ aw'[o].outcome = "result" =>
          reason[aw[o].token] \notin {DeadlineExceeded, "PARENT_CANCELLED"} ]_controlVars

\* An await ends once its time is limited or a token above it is cancelled, even
\* when its operation never does (asyncio.wait, _notify, wait_terminal).
AwaitsEnd ==
  \A o \in Ops :
    ( /\ aw[o].place = "wait"
      /\ \/ aw[o].until # Never
         \/ \E u \in line[aw[o].token] : reason[u] # Unset )
      ~> (aw[o].place = "over")
============================================================================
