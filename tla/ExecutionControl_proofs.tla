----------------------- MODULE ExecutionControl_proofs -----------------------
(***************************************************************************)
(* What holds of the control tokens for every tree, every number of awaits,*)
(* every deadline and every jitter of the event loop.                      *)
(***************************************************************************)
EXTENDS ExecutionControl, TLAPS, WellFoundedInduction

\* The chains of parents: reflexive, transitive, older tokens only.
Lines ==
  \A t \in Tokens :
    /\ t \in line[t] /\ line[t] \subseteq 1..t
    /\ \A u \in line[t] : line[u] \subseteq line[t]

\* Somebody in the chain of t has ended, or is due.
Ended(t) == \E u \in line[t] : reason[u] # Unset
Due(t) == \E u \in line[t] : reason[u] # Unset \/ now >= deadline[u]

\* What an await knows of its token.
AwaitOK(a) ==
  /\ a.token \in Tokens
  /\ a.waiter = "signalled" => Ended(a.token)
  /\ a.waiter = "done" \/ a.place = "terminal" => Due(a.token)
  /\ a.place \in {"wait", "timeout"} =>
       IF a.rootWins
         THEN a.until = deadline[a.token] /\ a.until # Never
         ELSE a.until # Never => a.until < deadline[a.token]
  /\ a.place = "timeout" => a.until # Never /\ now + Jitter >= a.until
  /\ a.outcome # Unset => a.place \in {"cleanup", "over"}
  /\ a.outcome # "assertion"

AwaitsOK == \A o \in Ops : AwaitOK(aw[o])

\* A token that is not created yet has not ended.
Unborn == \A t \in AllTokens : t \notin Tokens => reason[t] = Unset

\* Blame of a reason function, and of the tokens.
Founded(cause) ==
  \A t \in Tokens :
    /\ cause[t] = DeadlineExceeded =>
         deadline[t] # Never /\ now + Jitter >= deadline[t]
    /\ cause[t] = "PARENT_CANCELLED" =>
         \E u \in line[t] \ {t} : cause[u] \notin {Unset, DeadlineExceeded}

IInv == ControlTypeOK /\ Lines /\ DeadlinesNest /\ AwaitsOK /\ Unborn /\ Founded(reason)

----------------------------------------------------------------------------
\* A bounded, non-empty set of natural numbers has a largest element.
LEMMA ClosestExists ==
  ASSUME NEW n \in Nat, NEW S, S \subseteq 1..n, S # {}
  PROVE  Closest(S) \in S
<1> DEFINE T == {n - u : u \in S}
<1>1. T \subseteq Nat /\ T # {}
  <2>1. \A u \in S : n - u \in Nat
    OBVIOUS
  <2>2. PICK u : u \in S
    OBVIOUS
  <2>3. n - u \in T
    BY <2>2
  <2>4. QED
    BY <2>1, <2>3
<1>2. PICK x \in T : \A y \in T : ~(<<y, x>> \in OpToRel(<, Nat))
  BY <1>1, WFMin, NatLessThanWellFounded
<1>3. \A y \in T : ~(y < x)
  BY <1>1, <1>2 DEF OpToRel
<1>4. PICK u \in S : x = n - u
  OBVIOUS
<1>5. \A v \in S : v <= u
  BY <1>3, <1>4
<1>6. QED
  BY <1>5 DEF Closest

\* The tokens and their deadlines do not move.
LEMMA TokenTypes ==
  ASSUME ControlTypeOK
  PROVE  /\ Tokens \subseteq AllTokens /\ tokens \in Nat /\ now \in Nat
         /\ \A t \in AllTokens : deadline[t] \in Nat
         /\ Never \in Nat /\ now < Never
  BY ControlConstants DEF ControlTypeOK, Tokens, AllTokens, Deadlines, Never

\* A look finds nothing exactly when nothing in the chain has ended or is due.
LEMMA CheckedIff ==
  ASSUME NEW cause, NEW t, t \in line[t]
  PROVE  CheckedReason(cause, t) = Unset <=>
           \A u \in line[t] : cause[u] = Unset /\ ~(now >= deadline[u])
  BY DEF CheckedReason, TerminatedAbove, DeadlinePassed, DeadlineExceeded, Unset

\* A look keeps types, keeps every reason there is and blames with reason.
LEMMA CheckFacts ==
  ASSUME ControlTypeOK, Lines, DeadlinesNest, NEW t \in Tokens,
         NEW cause \in [AllTokens -> Reasons], Founded(cause)
  PROVE  /\ Check(cause, t) \in [AllTokens -> Reasons]
         /\ \A u \in AllTokens : cause[u] # Unset => Check(cause, t)[u] = cause[u]
         /\ \A u \in AllTokens : u \notin Tokens => Check(cause, t)[u] = cause[u]
         /\ Check(cause, t)[t] = CheckedReason(cause, t)
         /\ Founded(Check(cause, t))
<1> DEFINE new == Check(cause, t)
<1>1. t \in AllTokens /\ t \in line[t] /\ line[t] \subseteq Tokens
  BY TokenTypes DEF Lines, Tokens, ControlTypeOK
<1>2. \A u \in AllTokens : CheckedReason(cause, u) \in Reasons
  BY DEF CheckedReason, Reasons
<1>3. new \in [AllTokens -> Reasons]
  BY <1>2 DEF Check
<1>4. \A u \in AllTokens : cause[u] # Unset => new[u] = cause[u]
  BY DEF Check, CheckedReason
<1>5. ASSUME NEW u \in Tokens, new[u] # cause[u]
      PROVE  /\ u \in line[t] /\ cause[u] = Unset
             /\ new[u] = CheckedReason(cause, u)
  BY <1>5, TokenTypes DEF Check, CheckedReason
<1>6. ASSUME NEW u \in Tokens
      PROVE  TerminatedAbove(cause, u) # {} =>
               /\ Closest(TerminatedAbove(cause, u)) \in line[u] \ {u}
               /\ cause[Closest(TerminatedAbove(cause, u))] # Unset
  <2>1. TerminatedAbove(cause, u) \subseteq 1..u /\ u \in Nat
    BY DEF TerminatedAbove, Lines, Tokens
  <2>2. QED
    BY <2>1, ClosestExists DEF TerminatedAbove
<1>7. ASSUME NEW u \in Tokens, new[u] = DeadlineExceeded
      PROVE  deadline[u] # Never /\ now + Jitter >= deadline[u]
  <2>1. CASE new[u] = cause[u]
    BY <1>7, <2>1 DEF Founded
  <2>2. CASE new[u] # cause[u]
    <3>1. PICK v \in line[u] :
            deadline[v] # Never /\ now + Jitter >= deadline[v]
      <4>1. CASE TerminatedAbove(cause, u) # {}
        <5>1. cause[Closest(TerminatedAbove(cause, u))] = DeadlineExceeded
          BY <1>5, <1>7, <2>2, <4>1 DEF CheckedReason, DeadlineExceeded
        <5>2. line[u] \subseteq Tokens
          BY TokenTypes DEF Lines, Tokens
        <5>3. QED
          BY <1>6, <4>1, <5>1, <5>2 DEF Founded
      <4>2. CASE TerminatedAbove(cause, u) = {}
        <5>1. PICK v \in line[u] : now >= deadline[v]
          BY <1>5, <1>7, <2>2, <4>2
             DEF CheckedReason, DeadlinePassed, DeadlineExceeded, Unset
        <5>2. v \in AllTokens
          BY TokenTypes DEF Lines, Tokens
        <5>3. QED
          BY <5>1, <5>2, TokenTypes, ControlConstants
      <4>3. QED
        BY <4>1, <4>2
    <3>2. deadline[u] <= deadline[v] /\ v \in AllTokens
      BY TokenTypes DEF DeadlinesNest, Lines, Tokens
    <3>3. QED
      BY <3>1, <3>2, TokenTypes, ControlConstants DEF ControlTypeOK, Deadlines, Never
  <2>3. QED
    BY <2>1, <2>2
<1>8. ASSUME NEW u \in Tokens, new[u] = "PARENT_CANCELLED"
      PROVE  \E v \in line[u] \ {u} : new[v] \notin {Unset, DeadlineExceeded}
  <2>1. PICK v \in line[u] \ {u} : cause[v] \notin {Unset, DeadlineExceeded}
    <3>1. CASE new[u] = cause[u]
      BY <1>8, <3>1 DEF Founded
    <3>2. CASE new[u] # cause[u]
      <4>1. /\ TerminatedAbove(cause, u) # {}
            /\ cause[Closest(TerminatedAbove(cause, u))] # DeadlineExceeded
        BY <1>5, <1>8, <3>2 DEF CheckedReason, DeadlineExceeded, Unset
      <4>2. QED
        BY <1>6, <4>1
    <3>3. QED
      BY <3>1, <3>2
  <2>2. v \in AllTokens
    BY TokenTypes DEF Lines, Tokens
  <2>3. QED
    BY <1>4, <2>1, <2>2
<1>9. Founded(new)
  BY <1>7, <1>8 DEF Founded
<1>10. QED
  BY <1>1, <1>3, <1>4, <1>9 DEF Check
----------------------------------------------------------------------------
\* Writing one await, with nothing else, keeps the invariant.
LEMMA WriteAwait ==
  ASSUME IInv, NEW o \in Ops, NEW a \in Await, AwaitOK(a),
         aw' = With(o, a), UNCHANGED <<now, tree, reason>>
  PROVE  IInv'
<1>1. aw' \in [Ops -> Await] /\ \A p \in Ops : AwaitOK(aw'[p])
  BY DEF With, IInv, ControlTypeOK, AwaitsOK
<1>2. AwaitsOK'
  BY <1>1 DEF AwaitsOK, AwaitOK, Ended, Due, Tokens, tree
<1>3. QED
  BY <1>1, <1>2 DEF IInv, ControlTypeOK, Lines, DeadlinesNest, Unborn, Founded, Tokens,
     tree

\* Writing reasons and signalling the waiters keeps the invariant.
LEMMA WriteReasons ==
  ASSUME IInv, NEW cause \in [AllTokens -> Reasons], Founded(cause),
         \A u \in AllTokens : reason[u] # Unset => cause[u] = reason[u],
         \A u \in AllTokens : u \notin Tokens => cause[u] = Unset,
         NEW awaits \in [Ops -> Await], \A o \in Ops : AwaitOK(awaits[o]),
         SignalWaiters(cause, awaits), UNCHANGED <<now, tree>>
  PROVE  IInv'
<1>1. ControlTypeOK'
  <2>1. \A o \in Ops :
          [awaits[o] EXCEPT !.waiter = "signalled"] \in Await
    BY DEF Await
  <2>2. aw' \in [Ops -> Await]
    BY <2>1 DEF SignalWaiters
  <2>3. QED
    BY <2>2 DEF SignalWaiters, IInv, ControlTypeOK, tree
<1>2. Lines' /\ DeadlinesNest' /\ Unborn'
  BY DEF IInv, Lines, DeadlinesNest, Unborn, SignalWaiters, Tokens, tree
<1>3. Founded(reason)'
  BY DEF Founded, SignalWaiters, Tokens, tree
<1>4. ASSUME NEW o \in Ops PROVE AwaitOK(aw[o])'
  <2>1. awaits[o] \in Await /\ AwaitOK(awaits[o])
    OBVIOUS
  <2>2. /\ awaits[o].token \in Tokens
        /\ line[awaits[o].token] \subseteq AllTokens
    BY <2>1, TokenTypes DEF AwaitOK, IInv, ControlTypeOK
  <2>3. \/ aw'[o] = awaits[o]
        \/ /\ aw'[o] = [awaits[o] EXCEPT !.waiter = "signalled"]
           /\ Notified(cause, awaits[o])
    BY DEF SignalWaiters
  <2>4. /\ Ended(awaits[o].token) => Ended(awaits[o].token)'
        /\ Due(awaits[o].token) => Due(awaits[o].token)'
        /\ Notified(cause, awaits[o]) => Ended(awaits[o].token)'
    BY <2>2 DEF Ended, Due, Notified, SignalWaiters, tree
  <2>5. CASE aw'[o] = awaits[o]
    BY <2>1, <2>4, <2>5 DEF AwaitOK, Tokens, tree
  <2>6. CASE /\ aw'[o] = [awaits[o] EXCEPT !.waiter = "signalled"]
             /\ Notified(cause, awaits[o])
    <3>1. /\ aw'[o].token = awaits[o].token /\ aw'[o].waiter = "signalled"
          /\ aw'[o].place = awaits[o].place /\ aw'[o].until = awaits[o].until
          /\ aw'[o].rootWins = awaits[o].rootWins
          /\ aw'[o].outcome = awaits[o].outcome
      BY <2>1, <2>6 DEF Await
    <3>2. QED
      BY <2>1, <2>4, <2>6, <3>1 DEF AwaitOK, Tokens, tree
  <2>7. QED
    BY <2>3, <2>5, <2>6
<1>5. QED
  BY <1>1, <1>2, <1>3, <1>4 DEF IInv, AwaitsOK

\* Replacing one await in a step that also writes reasons.
LEMMA WithAwait ==
  ASSUME IInv, NEW o \in Ops, NEW a \in Await, AwaitOK(a)
  PROVE  With(o, a) \in [Ops -> Await] /\ \A p \in Ops : AwaitOK(With(o, a)[p])
  BY DEF With, IInv, ControlTypeOK, AwaitsOK

\* An await that is decided knows nothing but its outcome, in the cleanup or over.
LEMMA DecidedFacts ==
  ASSUME IInv, NEW t \in Tokens,
         NEW outcome \in {"result", "error", "terminal", "layer", "interrupted"}
  PROVE  LET a == Decided(t, outcome)
             b == [a EXCEPT !.place = "over"]
         IN  /\ a \in Await /\ AwaitOK(a) /\ a.outcome = outcome
             /\ b \in Await /\ AwaitOK(b) /\ b.outcome = outcome
<1> DEFINE a == Decided(t, outcome)
           b == [a EXCEPT !.place = "over"]
<1>1. NoAwait \in Await
  <2>1. 1 \in AllTokens /\ Never \in Deadlines
    BY ControlConstants DEF AllTokens, Deadlines, Never
  <2>2. QED
    BY <2>1 DEF NoAwait, Await
<1>2. t \in AllTokens
  BY TokenTypes DEF IInv
<1>3. a \in Await
  BY <1>1, <1>2 DEF Decided, Await
<1>4. b \in Await
  BY <1>3 DEF Await
<1>5. /\ a.token = t /\ a.place = "cleanup" /\ a.waiter = Unset /\ a.outcome = outcome
  BY DEF Decided, NoAwait
<1>6. /\ b.token = t /\ b.place = "over" /\ b.waiter = Unset /\ b.outcome = outcome
  BY <1>3, <1>5 DEF Await
<1>7. AwaitOK(a) /\ AwaitOK(b)
  BY <1>5, <1>6 DEF AwaitOK, Unset
<1>8. QED
  BY <1>3, <1>4, <1>5, <1>6, <1>7

\* The token of an await is one of the tree.
LEMMA AwaitToken ==
  ASSUME IInv, NEW o \in Ops
  PROVE  /\ aw[o] \in Await /\ AwaitOK(aw[o]) /\ aw[o].token \in Tokens
         /\ aw[o].token \in line[aw[o].token]
         /\ Terminal(aw[o].token) <=> Due(aw[o].token)
<1>1. /\ aw[o] \in Await /\ AwaitOK(aw[o]) /\ aw[o].token \in Tokens
      /\ aw[o].token \in line[aw[o].token]
  BY DEF IInv, ControlTypeOK, AwaitsOK, AwaitOK, Lines
<1>2. QED
  BY <1>1, CheckedIff DEF Terminal, Due

\* A look at a token, with or without an await that is written by it.
LEMMA LookStep ==
  ASSUME IInv, NEW t \in Tokens, NEW awaits \in [Ops -> Await],
         \A o \in Ops : AwaitOK(awaits[o]),
         SignalWaiters(Check(reason, t), awaits), UNCHANGED <<now, tree>>
  PROVE  IInv'
<1>1. reason \in [AllTokens -> Reasons] /\ Founded(reason)
  BY DEF IInv, ControlTypeOK
<1>2. QED
  BY <1>1, CheckFacts, WriteReasons DEF IInv, Unborn

\* Terminating a token with a founded reason keeps every blame founded.
LEMMA TerminateFacts ==
  ASSUME IInv, NEW t \in Tokens, NEW why \in {"USER_CANCEL", DeadlineExceeded},
         why = DeadlineExceeded => deadline[t] # Never /\ now + Jitter >= deadline[t]
  PROVE  /\ Terminate(t, why) \in [AllTokens -> Reasons]
         /\ Founded(Terminate(t, why))
         /\ \A u \in AllTokens : reason[u] # Unset =>
              Terminate(t, why)[u] = reason[u]
         /\ \A u \in AllTokens : u \notin Tokens => Terminate(t, why)[u] = Unset
         /\ Terminate(t, why)[t] # Unset
<1>1. t \in AllTokens /\ reason \in [AllTokens -> Reasons] /\ why \in Reasons
  BY TokenTypes DEF IInv, ControlTypeOK, Reasons
<1>2. ASSUME NEW u \in AllTokens
      PROVE  /\ reason[u] # Unset => Terminate(t, why)[u] = reason[u]
             /\ Terminate(t, why)[u] # reason[u] =>
                  u = t /\ Terminate(t, why)[u] = why
  BY <1>1 DEF Terminate
<1>3. ASSUME NEW u \in Tokens
      PROVE  /\ line[u] \subseteq AllTokens
             /\ u \in AllTokens
  BY TokenTypes DEF IInv, ControlTypeOK
<1>4. Founded(Terminate(t, why))
  <2>1. Founded(reason)
    BY DEF IInv
  <2>2. ASSUME NEW u \in Tokens, Terminate(t, why)[u] = DeadlineExceeded
        PROVE  deadline[u] # Never /\ now + Jitter >= deadline[u]
    BY <1>2, <1>3, <2>1, <2>2 DEF Founded
  <2>3. ASSUME NEW u \in Tokens, Terminate(t, why)[u] = "PARENT_CANCELLED"
        PROVE  \E v \in line[u] \ {u} :
                 Terminate(t, why)[v] \notin {Unset, DeadlineExceeded}
    <3>1. reason[u] = "PARENT_CANCELLED"
      BY <1>2, <1>3, <2>3 DEF DeadlineExceeded
    <3>2. QED
      BY <1>2, <1>3, <2>1, <3>1 DEF Founded
  <2>4. QED
    BY <2>2, <2>3 DEF Founded
<1>5. QED
  BY <1>1, <1>2, <1>4 DEF Terminate, DeadlineExceeded, Unset, IInv, Unborn

----------------------------------------------------------------------------
\* The clock goes on.
LEMMA TickStep == IInv /\ Tick => IInv'
<1> SUFFICES ASSUME IInv, Tick PROVE IInv'
  OBVIOUS
<1>1. ControlTypeOK' /\ now' \in Nat /\ now \in Nat /\ now <= now'
  BY ControlConstants DEF Tick, IInv, ControlTypeOK, tree
<1>2. \A t \in AllTokens : deadline[t] \in Nat
  BY TokenTypes DEF IInv
<1>3. Lines' /\ DeadlinesNest' /\ Unborn'
  BY DEF Tick, IInv, Lines, DeadlinesNest, Unborn, Tokens, tree
<1>4. Founded(reason)'
  BY <1>1, <1>2, TokenTypes, ControlConstants DEF Tick, IInv, Founded, Tokens, tree
<1>5. ASSUME NEW o \in Ops PROVE AwaitOK(aw[o])'
  <2>1. /\ AwaitOK(aw[o]) /\ aw[o].until \in Nat
        /\ line[aw[o].token] \subseteq AllTokens
    BY AwaitToken, TokenTypes, ControlConstants
       DEF IInv, ControlTypeOK, Await, Deadlines, Never
  <2>2. /\ Ended(aw[o].token)' <=> Ended(aw[o].token)
        /\ Due(aw[o].token) => Due(aw[o].token)'
    BY <1>1, <1>2, <2>1 DEF Tick, Ended, Due, tree
  <2>3. QED
    BY <1>1, <2>1, <2>2, ControlConstants DEF Tick, AwaitOK, Tokens, tree
<1>6. QED
  BY <1>1, <1>3, <1>4, <1>5 DEF IInv, AwaitsOK

\* A child is derived.
LEMMA DeriveStep ==
  ASSUME IInv, NEW t \in Tokens, NEW ceiling \in Ceilings, Derive(t, ceiling)
  PROVE  IInv'
<1> DEFINE n == tokens + 1
<1>1. /\ n \in AllTokens /\ n \notin Tokens /\ tokens' = n
      /\ Tokens' = Tokens \cup {n} /\ t \in AllTokens /\ t < n
  BY ControlConstants DEF Derive, IInv, ControlTypeOK, Tokens, AllTokens
<1>2. ChildDeadline(t, ceiling) \in Deadlines
      /\ ChildDeadline(t, ceiling) <= deadline[t]
  BY <1>1, ControlConstants
     DEF ChildDeadline, Lesser, Derive, IInv, ControlTypeOK, Deadlines, Ceilings, Never
<1>3. /\ line'[n] = line[t] \cup {n} /\ deadline'[n] = ChildDeadline(t, ceiling)
      /\ \A u \in AllTokens : u # n =>
           line'[u] = line[u] /\ deadline'[u] = deadline[u]
  BY <1>1 DEF Derive, IInv, ControlTypeOK
<1>4. \A u \in Tokens : u \in AllTokens /\ u # n /\ line[u] \subseteq Tokens
  BY <1>1, TokenTypes DEF IInv, Lines, Tokens
<1>5. ControlTypeOK'
  <2>1. line[t] \cup {n} \in SUBSET AllTokens
    BY <1>1 DEF IInv, ControlTypeOK
  <2>2. QED
    BY <1>1, <1>2, <2>1 DEF Derive, IInv, ControlTypeOK
<1>6. Lines'
  <2>1. ASSUME NEW u \in Tokens
        PROVE  /\ u \in line'[u] /\ line'[u] \subseteq 1..u
               /\ \A v \in line'[u] : line'[v] \subseteq line'[u]
    <3>1. line'[u] = line[u] /\ \A v \in line[u] : line'[v] = line[v]
      BY <1>3, <1>4
    <3>2. QED
      BY <3>1 DEF IInv, Lines
  <2>2. /\ n \in line'[n] /\ line'[n] \subseteq 1..n
        /\ \A v \in line'[n] : line'[v] \subseteq line'[n]
    <3>1. line[t] \subseteq 1..t /\ t \in Nat /\ n \in Nat
      BY ControlConstants DEF IInv, Lines, Tokens, ControlTypeOK, AllTokens
    <3>2. \A v \in line[t] : line'[v] \subseteq line[t]
      BY <1>3, <1>4 DEF IInv, Lines
    <3>3. line'[n] \subseteq 1..n
      BY <1>1, <1>3, <3>1
    <3>4. QED
      BY <1>3, <3>2, <3>3
  <2>3. QED
    BY <1>1, <2>1, <2>2 DEF Lines
<1>7. DeadlinesNest'
  <2>1. \A u \in Tokens : \A v \in line'[u] : deadline'[u] <= deadline'[v]
    BY <1>3, <1>4 DEF IInv, DeadlinesNest
  <2>2. \A v \in line'[n] : deadline'[n] <= deadline'[v]
    <3>1. \A v \in line[t] : deadline[t] <= deadline[v] /\ v \in AllTokens /\ v # n
      BY <1>4 DEF IInv, DeadlinesNest
    <3>2. /\ ChildDeadline(t, ceiling) \in Nat
          /\ \A v \in AllTokens : deadline[v] \in Nat
      BY <1>2, TokenTypes DEF IInv, Deadlines
    <3>3. QED
      BY <1>1, <1>2, <1>3, <3>1, <3>2
  <2>3. QED
    BY <1>1, <2>1, <2>2 DEF DeadlinesNest
<1>8. reason[n] = Unset
  BY <1>1 DEF IInv, Unborn
<1>9. Founded(reason)'
  <2>1. ASSUME NEW u \in Tokens
        PROVE  /\ reason'[u] = reason[u] /\ deadline'[u] = deadline[u]
               /\ line'[u] = line[u] /\ now' = now
               /\ \A v \in line[u] : reason'[v] = reason[v]
    BY <1>3, <1>4 DEF Derive
  <2>2. reason'[n] = Unset /\ reason' = reason
    BY <1>8 DEF Derive
  <2>3. QED
    BY <1>1, <2>1, <2>2 DEF Founded, IInv, DeadlineExceeded, Unset
<1>10. ASSUME NEW o \in Ops PROVE AwaitOK(aw[o])'
  <2>1. AwaitOK(aw[o]) /\ aw[o].token \in Tokens
    BY AwaitToken
  <2>2. /\ line'[aw[o].token] = line[aw[o].token]
        /\ deadline'[aw[o].token] = deadline[aw[o].token]
        /\ \A u \in line[aw[o].token] : deadline'[u] = deadline[u]
    BY <1>3, <1>4, <2>1
  <2>3. /\ Ended(aw[o].token)' <=> Ended(aw[o].token)
        /\ Due(aw[o].token)' <=> Due(aw[o].token)
    BY <2>2 DEF Derive, Ended, Due
  <2>4. QED
    BY <1>1, <2>1, <2>2, <2>3 DEF Derive, AwaitOK
<1>11. Unborn'
  BY <1>1 DEF Unborn, Derive, IInv
<1>12. QED
  BY <1>5, <1>6, <1>7, <1>9, <1>10, <1>11 DEF IInv, AwaitsOK

\* Looking, cancelling and refusing an await.
LEMMA TokenSteps ==
  ASSUME IInv, NEW t \in Tokens
  PROVE  (Look(t) \/ Cancel(t) \/ \E o \in Ops : Refuse(o, t)) => IInv'
<1>1. aw \in [Ops -> Await] /\ \A o \in Ops : AwaitOK(aw[o])
  BY DEF IInv, ControlTypeOK, AwaitsOK
<1>2. ASSUME Look(t) PROVE IInv'
  BY <1>1, <1>2, LookStep DEF Look
<1>3. ASSUME Cancel(t) PROVE IInv'
  <2>1. "USER_CANCEL" # DeadlineExceeded
    BY DEF DeadlineExceeded
  <2>2. QED
    BY <1>1, <1>3, <2>1, TerminateFacts, WriteReasons DEF Cancel
<1>4. ASSUME NEW o \in Ops, Refuse(o, t) PROVE IInv'
  <2>1. LET b == [Decided(t, "terminal") EXCEPT !.place = "over"]
        IN  b \in Await /\ AwaitOK(b)
    BY DecidedFacts
  <2>2. QED
    BY <1>4, <2>1, WithAwait, LookStep DEF Refuse
<1>5. QED
  BY <1>2, <1>3, <1>4

\* An await begins.
LEMMA BeginStep ==
  ASSUME IInv, NEW t \in Tokens, NEW ceiling \in Ceilings, NEW o \in Ops,
         Begin(o, t, ceiling)
  PROVE  IInv'
<1> DEFINE until == IF ceiling = Never THEN deadline[t]
                    ELSE Lesser(deadline[t], now + ceiling)
           wins == /\ deadline[t] # Never
                   /\ ceiling = Never \/ deadline[t] <= now + ceiling
           a == [ NoAwait EXCEPT !.place = "wait", !.token = t, !.until = until,
                    !.rootWins = wins, !.op = "running", !.waiter = "created" ]
<1>1. /\ t \in AllTokens /\ deadline[t] \in Nat /\ deadline[t] <= Never
      /\ now \in Nat /\ ceiling \in Nat /\ Never \in Nat
      /\ ceiling = Never \/ now + ceiling < Never
  BY TokenTypes, ControlConstants
     DEF Begin, IInv, ControlTypeOK, Deadlines, Ceilings, Never
<1>2. /\ until \in Deadlines
      /\ wins => until = deadline[t] /\ until # Never
      /\ ~wins /\ until # Never => until < deadline[t]
  BY <1>1 DEF Lesser, Deadlines
<1>3. wins \in BOOLEAN
  OBVIOUS
<1> HIDE DEF until, wins
<1>4. NoAwait \in Await
  <2>1. 1 \in AllTokens /\ Never \in Deadlines
    BY ControlConstants DEF AllTokens, Deadlines, Never
  <2>2. QED
    BY <2>1 DEF NoAwait, Await
<1>5. a \in Await
  BY <1>1, <1>2, <1>3, <1>4 DEF Await
<1>6. /\ a.token = t /\ a.place = "wait" /\ a.until = until
      /\ a.waiter = "created" /\ a.outcome = Unset
  BY DEF NoAwait
<1>7. a.rootWins <=> wins
  BY Zenon DEF NoAwait
<1>8. AwaitOK(a)
  BY <1>2, <1>6, <1>7 DEF AwaitOK, Unset
<1>9. aw' = With(o, a) /\ UNCHANGED <<now, tree, reason>>
  BY DEF Begin, until, wins
<1>10. QED
  BY <1>5, <1>8, <1>9, WriteAwait

\* The steps of an await that only move the await itself.
LEMMA QuietAwaitSteps ==
  ASSUME IInv, NEW o \in Ops
  PROVE  (WaiterWakes(o) \/ OperationEnds(o) \/ TimesOut(o) \/ TerminalWins(o) \/
          Interrupt(o) \/ OperationFailed(o) \/ RaiseInterrupt(o) \/ Leave(o)) => IInv'
<1>1. /\ aw[o] \in Await /\ AwaitOK(aw[o]) /\ aw[o].token \in Tokens
  BY AwaitToken
<1>2. ASSUME WaiterWakes(o) PROVE IInv'
  <2> DEFINE a == [aw[o] EXCEPT !.waiter = "done"]
  <2>1. a \in Await /\ Due(aw[o].token)
    BY <1>1, <1>2 DEF Await, WaiterWakes, AwaitOK, Ended, Due
  <2>2. AwaitOK(a)
    BY <1>1, <2>1 DEF AwaitOK, Await
  <2>3. QED
    BY <1>2, <2>1, <2>2, WriteAwait DEF WaiterWakes
<1>3. ASSUME OperationEnds(o) PROVE IInv'
  <2>1. PICK result \in {"ok", "error"} :
          aw' = With(o, [aw[o] EXCEPT !.op = result])
    BY <1>3 DEF OperationEnds
  <2> DEFINE a == [aw[o] EXCEPT !.op = result]
  <2>2. a \in Await
    BY <1>1 DEF Await
  <2>3. AwaitOK(a)
    BY <1>1 DEF AwaitOK, Await
  <2>4. QED
    BY <1>3, <2>1, <2>2, <2>3, WriteAwait DEF OperationEnds
<1>4. ASSUME TimesOut(o) PROVE IInv'
  <2> DEFINE a == [aw[o] EXCEPT !.place = "timeout"]
  <2>1. a \in Await
    BY <1>1 DEF Await
  <2>2. AwaitOK(a)
    BY <1>1, <1>4 DEF AwaitOK, Await, TimesOut, Unset
  <2>3. QED
    BY <1>4, <2>1, <2>2, WriteAwait DEF TimesOut
<1>5. ASSUME TerminalWins(o) PROVE IInv'
  <2> DEFINE a == [aw[o] EXCEPT !.place = "terminal"]
  <2>1. a \in Await
    BY <1>1 DEF Await
  <2>2. AwaitOK(a)
    BY <1>1, <1>5 DEF AwaitOK, Await, TerminalWins, Unset
  <2>3. QED
    BY <1>5, <2>1, <2>2, WriteAwait DEF TerminalWins
<1>6. ASSUME Interrupt(o) PROVE IInv'
  <2>1. CASE aw[o].place = "wait"
    <3> DEFINE a == [aw[o] EXCEPT !.place = "interrupt"]
    <3>1. a \in Await
      BY <1>1 DEF Await
    <3>2. AwaitOK(a)
      BY <1>1, <2>1 DEF AwaitOK, Await, Unset
    <3>3. QED
      BY <1>6, <2>1, <3>1, <3>2, WriteAwait DEF Interrupt
  <2>2. CASE aw[o].place = "cleanup"
    BY <1>1, <1>6, <2>2, DecidedFacts, WriteAwait DEF Interrupt, Outcome
  <2>3. QED
    BY <1>6, <2>1, <2>2 DEF Interrupt
<1>7. ASSUME OperationFailed(o) PROVE IInv'
  BY <1>1, <1>7, DecidedFacts, WriteAwait DEF OperationFailed, Outcome
<1>8. ASSUME RaiseInterrupt(o) PROVE IInv'
  BY <1>1, <1>8, DecidedFacts, WriteAwait DEF RaiseInterrupt, Outcome
<1>9. ASSUME Leave(o) PROVE IInv'
  <2> DEFINE a == [aw[o] EXCEPT !.place = "over"]
  <2>1. a \in Await
    BY <1>1 DEF Await
  <2>2. AwaitOK(a)
    BY <1>1, <1>9 DEF AwaitOK, Await, Leave, Unset
  <2>3. QED
    BY <1>9, <2>1, <2>2, WriteAwait DEF Leave
<1>10. QED
  BY <1>2, <1>3, <1>4, <1>5, <1>6, <1>7, <1>8, <1>9

\* The steps of an await that look at its token.
LEMMA LookingAwaitSteps ==
  ASSUME IInv, NEW o \in Ops
  PROVE  (WaiterLooks(o) \/ Deliver(o) \/ RaiseTerminal(o) \/ RaiseTimeout(o))
           => IInv'
<1>1. /\ aw[o] \in Await /\ AwaitOK(aw[o]) /\ aw[o].token \in Tokens
      /\ Terminal(aw[o].token) <=> Due(aw[o].token)
  BY AwaitToken
<1>2. ASSUME WaiterLooks(o) PROVE IInv'
  <2> DEFINE w == IF Terminal(aw[o].token) THEN "done" ELSE "registered"
             a == [aw[o] EXCEPT !.waiter = w]
  <2>1. w \in {"done", "registered"} /\ (w = "done" => Due(aw[o].token))
    BY <1>1
  <2> HIDE DEF w
  <2>2. a \in Await
    BY <1>1, <2>1 DEF Await
  <2>3. AwaitOK(a)
    BY <1>1, <2>1 DEF AwaitOK, Await
  <2>4. SignalWaiters(Check(reason, aw[o].token), With(o, a)) /\ UNCHANGED <<now, tree>>
    BY <1>2 DEF WaiterLooks, w
  <2>5. QED
    BY <1>1, <2>2, <2>3, <2>4, WithAwait, LookStep
<1>3. ASSUME Deliver(o) PROVE IInv'
  <2> DEFINE out == IF Terminal(aw[o].token) THEN "terminal" ELSE "result"
  <2>1. out \in {"terminal", "result"}
    OBVIOUS
  <2> HIDE DEF out
  <2>2. /\ Decided(aw[o].token, out) \in Await
        /\ AwaitOK(Decided(aw[o].token, out))
    BY <1>1, <2>1, DecidedFacts
  <2>3. /\ SignalWaiters(Check(reason, aw[o].token), With(o, Decided(aw[o].token, out)))
        /\ UNCHANGED <<now, tree>>
    BY <1>3 DEF Deliver, Outcome, out
  <2>4. QED
    BY <1>1, <2>2, <2>3, WithAwait, LookStep
<1>4. ASSUME RaiseTerminal(o) PROVE IInv'
  <2>1. Terminal(aw[o].token)
    BY <1>1, <1>4 DEF RaiseTerminal, AwaitOK
  <2>2. /\ Decided(aw[o].token, "terminal") \in Await
        /\ AwaitOK(Decided(aw[o].token, "terminal"))
    BY <1>1, DecidedFacts
  <2>3. /\ SignalWaiters(Check(reason, aw[o].token), With(o, Decided(aw[o].token, "terminal")))
        /\ UNCHANGED <<now, tree>>
    BY <1>4, <2>1 DEF RaiseTerminal, Outcome
  <2>4. QED
    BY <1>1, <2>2, <2>3, WithAwait, LookStep
<1>5. ASSUME RaiseTimeout(o) PROVE IInv'
  <2> DEFINE t == aw[o].token
             old == IF aw[o].rootWins THEN Terminate(t, DeadlineExceeded) ELSE reason
             cause == Check(old, t)
             out == IF cause[t] # Unset THEN "terminal" ELSE "layer"
  <2>1. aw[o].rootWins => deadline[t] # Never /\ now + Jitter >= deadline[t]
    BY <1>1, <1>5 DEF RaiseTimeout, AwaitOK
  <2>2. /\ old \in [AllTokens -> Reasons] /\ Founded(old)
        /\ \A u \in AllTokens : reason[u] # Unset => old[u] = reason[u]
        /\ \A u \in AllTokens : u \notin Tokens => old[u] = Unset
    BY <1>1, <2>1, TerminateFacts DEF IInv, ControlTypeOK, Unborn
  <2>3. out \in {"terminal", "layer"}
    OBVIOUS
  <2>4. /\ SignalWaiters(cause, With(o, Decided(t, out)))
        /\ UNCHANGED <<now, tree>>
    BY <1>5 DEF RaiseTimeout, Outcome
  <2> HIDE DEF old, out
  <2>5. /\ cause \in [AllTokens -> Reasons] /\ Founded(cause)
        /\ \A u \in AllTokens : reason[u] # Unset => cause[u] = reason[u]
        /\ \A u \in AllTokens : u \notin Tokens => cause[u] = Unset
    BY <1>1, <2>2, CheckFacts DEF IInv
  <2>6. Decided(t, out) \in Await /\ AwaitOK(Decided(t, out))
    BY <1>1, <2>3, DecidedFacts
  <2> HIDE DEF cause
  <2>7. QED
    BY <2>4, <2>5, <2>6, WithAwait, WriteReasons
<1>6. QED
  BY <1>2, <1>3, <1>4, <1>5
----------------------------------------------------------------------------
\* The invariant is inductive.
THEOREM ControlInductive == ControlSpec => []IInv
<1>1. ASSUME ControlInit PROVE IInv
  <2>1. PICK d \in Deadlines : deadline = [t \in AllTokens |-> d]
    BY <1>1 DEF ControlInit
  <2>2. 1 \in AllTokens /\ Tokens = {1} /\ line[1] = {1}
    BY <1>1, ControlConstants DEF ControlInit, AllTokens, Tokens
  <2>3. NoAwait \in Await
    <3>1. Never \in Deadlines
      BY ControlConstants DEF Deadlines, Never
    <3>2. QED
      BY <2>2, <3>1 DEF NoAwait, Await
  <2>4. ControlTypeOK
    BY <1>1, <2>1, <2>2, <2>3, ControlConstants DEF ControlInit, ControlTypeOK, Reasons
  <2>5. Lines /\ DeadlinesNest
    BY <2>1, <2>2, ControlConstants DEF Lines, DeadlinesNest, Deadlines, Never
  <2>6. AwaitsOK
    BY <1>1, <2>2 DEF ControlInit, AwaitsOK, AwaitOK, NoAwait, Unset
  <2>7. Unborn /\ Founded(reason)
    BY <1>1, <2>2 DEF ControlInit, Unborn, Founded, DeadlineExceeded, Unset
  <2>8. QED
    BY <2>4, <2>5, <2>6, <2>7 DEF IInv
<1>2. ASSUME IInv, [ControlNext]_controlVars PROVE IInv'
  <2>1. CASE UNCHANGED controlVars
    BY <1>2, <2>1 DEF controlVars, IInv, ControlTypeOK, Lines, DeadlinesNest, AwaitsOK, AwaitOK,
       Ended, Due, Unborn, Founded, Tokens
  <2>2. CASE ControlNext
    BY <1>2, <2>2, TickStep, DeriveStep, TokenSteps, BeginStep, QuietAwaitSteps,
       LookingAwaitSteps DEF ControlNext, Settle
  <2>3. QED
    BY <1>2, <2>1, <2>2
<1>3. QED
  BY <1>1, <1>2, PTL DEF ControlSpec

\* No token outlives a token above it, and every blame is founded; the assertion
\* at the end of await_with_control cannot fail.
THEOREM ControlSafe ==
  ControlSpec => [](ControlTypeOK /\ DeadlinesNest /\ BlameIsFounded /\ AssertionHolds)
<1>1. IInv => ControlTypeOK /\ DeadlinesNest /\ BlameIsFounded /\ AssertionHolds
  BY DEF IInv, Founded, BlameIsFounded, AwaitsOK, AwaitOK, AssertionHolds
<1>2. QED
  BY <1>1, ControlInductive, PTL

\* Signalling a waiter writes no outcome.
LEMMA SignalOutcome ==
  ASSUME NEW cause, NEW awaits \in [Ops -> Await], SignalWaiters(cause, awaits),
         NEW o \in Ops
  PROVE  aw'[o].outcome = awaits[o].outcome
<1>1. \/ aw'[o] = awaits[o]
      \/ aw'[o] = [awaits[o] EXCEPT !.waiter = "signalled"]
  BY DEF SignalWaiters
<1>2. QED
  BY <1>1 DEF Await

\* Replacing another await, or this one, and nothing else.
LEMMA WithOutcome ==
  ASSUME IInv, NEW o \in Ops, NEW p \in Ops, NEW a \in Await
  PROVE  /\ With(p, a) \in [Ops -> Await]
         /\ o = p => With(p, a)[o] = a
         /\ o # p => With(p, a)[o] = aw[o]
  BY DEF With, IInv, ControlTypeOK

\* A result and a component timeout are only written where the await is decided.
LEMMA OutcomeWrites ==
  ASSUME IInv, [ControlNext]_controlVars, NEW o \in Ops,
         aw'[o].outcome # aw[o].outcome, aw'[o].outcome \in {"result", "layer"}
  PROVE  Deliver(o) \/ RaiseTimeout(o)
<1> SUFFICES ASSUME ~Deliver(o), ~RaiseTimeout(o) PROVE FALSE
  OBVIOUS
<1>1. aw \in [Ops -> Await] /\ aw[o] \in Await
  BY DEF IInv, ControlTypeOK
<1>2. \A p \in Ops : aw[p] \in Await /\ aw[p].token \in Tokens
  BY AwaitToken
<1>3. ASSUME NEW p \in Ops, NEW t \in Tokens,
             NEW x \in {"error", "terminal", "interrupted"}
      PROVE  LET a == Decided(t, x)
                 b == [a EXCEPT !.place = "over"]
             IN  /\ With(p, a) \in [Ops -> Await]
                 /\ With(p, a)[o].outcome \in {aw[o].outcome, x}
                 /\ With(p, b) \in [Ops -> Await]
                 /\ With(p, b)[o].outcome \in {aw[o].outcome, x}
  <2> DEFINE a == Decided(t, x)
             b == [a EXCEPT !.place = "over"]
  <2>1. a \in Await /\ a.outcome = x /\ b \in Await /\ b.outcome = x
    BY DecidedFacts
  <2> HIDE DEF a, b
  <2>2. ASSUME NEW c \in Await, c.outcome = x
        PROVE  With(p, c) \in [Ops -> Await] /\ With(p, c)[o].outcome \in {aw[o].outcome, x}
    <3>1. /\ With(p, c) \in [Ops -> Await]
          /\ o = p => With(p, c)[o] = c
          /\ o # p => With(p, c)[o] = aw[o]
      BY WithOutcome
    <3>2. QED
      BY <2>2, <3>1
  <2>3. QED
    BY <2>1, <2>2 DEF a, b
<1>4. CASE UNCHANGED controlVars \/ Tick \/ \E t \in Tokens, c \in Ceilings : Derive(t, c)
  BY <1>4 DEF controlVars, Tick, Derive
<1>5. ASSUME NEW t \in Tokens, Look(t) \/ Cancel(t) PROVE FALSE
  BY <1>1, <1>5, SignalOutcome DEF Look, Cancel
<1>6. ASSUME NEW t \in Tokens, NEW p \in Ops, Refuse(p, t) PROVE FALSE
  <2> DEFINE b == [Decided(t, "terminal") EXCEPT !.place = "over"]
  <2>1. With(p, b) \in [Ops -> Await]
        /\ With(p, b)[o].outcome \in {aw[o].outcome, "terminal"}
    BY <1>3
  <2>2. SignalWaiters(Check(reason, t), With(p, b))
    BY <1>6 DEF Refuse
  <2> HIDE DEF b
  <2>3. QED
    BY <2>1, <2>2, SignalOutcome
<1>7. ASSUME NEW t \in Tokens, NEW p \in Ops, NEW c \in Ceilings, Begin(p, t, c)
      PROVE  FALSE
  <2>1. aw'[o].outcome = IF o = p THEN Unset ELSE aw[o].outcome
    BY <1>1, <1>7 DEF Begin, With, NoAwait
  <2>2. QED
    BY <2>1 DEF Unset
<1>8. ASSUME NEW p \in Ops, WaiterWakes(p) \/ OperationEnds(p) \/ TimesOut(p) \/
             TerminalWins(p) \/ Leave(p)
      PROVE  FALSE
  <2>1. aw'[o].outcome = aw[o].outcome
    BY <1>1, <1>2, <1>8 DEF WaiterWakes, OperationEnds, TimesOut, TerminalWins,
       Leave, With, Await
  <2>2. QED
    BY <2>1
<1>9. ASSUME NEW p \in Ops, OperationFailed(p) \/ RaiseInterrupt(p) \/ Interrupt(p)
      PROVE  FALSE
  <2>1. CASE Interrupt(p) /\ aw[p].place = "wait"
    <3>1. aw' = With(p, [aw[p] EXCEPT !.place = "interrupt"])
      BY <2>1 DEF Interrupt
    <3>2. aw'[o].outcome = aw[o].outcome
      BY <1>1, <1>2, <3>1 DEF With, Await
    <3>3. QED
      BY <3>2
  <2>2. CASE ~(Interrupt(p) /\ aw[p].place = "wait")
    <3>1. PICK x \in {"error", "interrupted"} : aw' = With(p, Decided(aw[p].token, x))
      BY <1>9, <2>2 DEF OperationFailed, RaiseInterrupt, Interrupt, Outcome
    <3>2. aw'[o].outcome \in {aw[o].outcome, x}
      BY <1>2, <1>3, <3>1
    <3>3. QED
      BY <3>2
  <2>3. QED
    BY <2>1, <2>2
<1>10. ASSUME NEW p \in Ops, WaiterLooks(p) PROVE FALSE
  <2>1. PICK w \in {"done", "registered"} :
          SignalWaiters(Check(reason, aw[p].token), With(p, [aw[p] EXCEPT !.waiter = w]))
    BY <1>10 DEF WaiterLooks
  <2> DEFINE a == [aw[p] EXCEPT !.waiter = w]
  <2>2. aw[p] \in Await
    BY <1>2
  <2>3. a \in Await /\ a.outcome = aw[p].outcome
    BY <2>2 DEF Await
  <2> HIDE DEF a
  <2>4. With(p, a) \in [Ops -> Await] /\ With(p, a)[o].outcome = aw[o].outcome
    <3>1. /\ With(p, a) \in [Ops -> Await]
          /\ o = p => With(p, a)[o] = a
          /\ o # p => With(p, a)[o] = aw[o]
      BY <2>3, WithOutcome
    <3>2. QED
      BY <2>3, <3>1
  <2>5. QED
    BY <2>1, <2>4, SignalOutcome DEF a
<1>11. ASSUME NEW p \in Ops, Deliver(p) \/ RaiseTerminal(p) \/ RaiseTimeout(p)
       PROVE  FALSE
  <2>1. CASE p # o
    <3>1. \/ aw'[o] = aw[o]
          \/ aw'[o] = [aw[o] EXCEPT !.waiter = "signalled"]
      BY <1>1, <1>11, <2>1
         DEF Deliver, RaiseTerminal, RaiseTimeout, Outcome, With, SignalWaiters
    <3>2. aw'[o].outcome = aw[o].outcome
      BY <1>1, <3>1 DEF Await
    <3>3. QED
      BY <3>2
  <2>2. CASE p = o
    <3>1. RaiseTerminal(o)
      BY <1>11, <2>2
    <3>2. Terminal(aw[o].token)
      BY <3>1, AwaitToken DEF RaiseTerminal, AwaitOK
    <3>3. SignalWaiters(Check(reason, aw[o].token), With(o, Decided(aw[o].token, "terminal")))
      BY <3>1, <3>2 DEF RaiseTerminal, Outcome
    <3> DEFINE a == Decided(aw[o].token, "terminal")
    <3>4. /\ With(o, a) \in [Ops -> Await]
          /\ With(o, a)[o].outcome \in {aw[o].outcome, "terminal"}
      BY <1>2, <1>3
    <3>5. SignalWaiters(Check(reason, aw[o].token), With(o, a))
      BY <3>3
    <3> HIDE DEF a
    <3>6. QED
      BY <3>4, <3>5, SignalOutcome
  <2>3. QED
    BY <2>1, <2>2
<1>12. QED
  BY <1>4, <1>5, <1>6, <1>7, <1>8, <1>9, <1>10, <1>11 DEF ControlNext, Settle

\* A token nobody ended and that is not due is alive.
LEMMA AliveIff ==
  ASSUME IInv, NEW t \in Tokens
  PROVE  CheckedReason(reason, t) = Unset <=> Alive(t)
<1>1. t \in line[t] /\ line[t] \subseteq AllTokens
  BY TokenTypes DEF IInv, Lines, ControlTypeOK
<1>2. QED
  BY <1>1, CheckedIff, TokenTypes DEF IInv, Alive

\* No await settles on a late result: every result was checked against the whole
\* chain of tokens in the step that settles on it, and no later step, neither the
\* cleanup nor an interruption of it, makes a result of something else.
THEOREM LateResultsRejected == ControlSpec => NoLateResult
<1>1. ASSUME IInv, [ControlNext]_controlVars, NEW o \in Ops, aw[o].outcome # "result",
             aw'[o].outcome = "result"
      PROVE  Alive(aw[o].token)
  <2>1. aw[o].token \in Tokens /\ aw[o] \in Await
    BY <1>1, AwaitToken
  <2>2. PICK cause, x : /\ SignalWaiters(cause, With(o, Decided(aw[o].token, x)))
                        /\ x = "result" => ~Terminal(aw[o].token)
                        /\ x \in {"result", "terminal", "layer"}
    <3>1. CASE Deliver(o)
      BY <3>1 DEF Deliver, Outcome
    <3>2. CASE RaiseTimeout(o)
      BY <3>2 DEF RaiseTimeout, Outcome
    <3>3. QED
      BY <1>1, <3>1, <3>2, OutcomeWrites
  <2>3. aw'[o].outcome = x
    <3>1. Decided(aw[o].token, x) \in Await /\ Decided(aw[o].token, x).outcome = x
      BY <1>1, <2>1, <2>2, DecidedFacts
    <3>2. QED
      BY <1>1, <2>2, <3>1, WithOutcome, SignalOutcome
  <2>4. QED
    BY <1>1, <2>1, <2>2, <2>3, AliveIff DEF Terminal
<1>2. ASSUME IInv, [ControlNext]_controlVars
      PROVE  \A o \in Ops :
               aw'[o].outcome = "result" =>
                 aw[o].outcome = "result" \/ Alive(aw[o].token)
  BY <1>1, <1>2
<1>3. QED
  BY <1>2, ControlInductive, PTL DEF ControlSpec, NoLateResult

\* An await settles on a component timeout only on a live token, past the component's
\* own ceiling, and that ends no token.
THEOREM LayerTimeoutsAreLocal == ControlSpec => LayerTimeoutIsLocal
<1>1. ASSUME IInv, [ControlNext]_controlVars, NEW o \in Ops, aw[o].outcome # "layer",
             aw'[o].outcome = "layer"
      PROVE  /\ Alive(aw[o].token) /\ reason' = reason
             /\ now + Jitter >= aw[o].until
             /\ aw[o].until < deadline[aw[o].token]
  <2> DEFINE t == aw[o].token
             old == IF aw[o].rootWins THEN Terminate(t, DeadlineExceeded) ELSE reason
             cause == Check(old, t)
  <2>1. t \in Tokens /\ aw[o] \in Await /\ AwaitOK(aw[o])
    BY <1>1, AwaitToken
  <2>2. ASSUME NEW new, NEW x \in {"result", "terminal", "layer"},
               SignalWaiters(new, With(o, Decided(t, x)))
        PROVE  x = "layer"
    <3>1. Decided(t, x) \in Await /\ Decided(t, x).outcome = x
      BY <1>1, <2>1, DecidedFacts
    <3>2. QED
      BY <1>1, <2>2, <3>1, WithOutcome, SignalOutcome
  <2>3. ~Deliver(o)
    <3>1. SUFFICES ASSUME Deliver(o) PROVE FALSE
      OBVIOUS
    <3> DEFINE x == IF Terminal(t) THEN "terminal" ELSE "result"
    <3>2. x \in {"result", "terminal"} /\ SignalWaiters(Check(reason, t), With(o, Decided(t, x)))
      BY <3>1 DEF Deliver, Outcome
    <3> HIDE DEF x
    <3>3. QED
      BY <2>2, <3>2
  <2>4. RaiseTimeout(o)
    BY <1>1, <2>3, OutcomeWrites
  <2>5. cause[t] = Unset /\ reason' = cause
    <3> DEFINE x == IF cause[t] # Unset THEN "terminal" ELSE "layer"
    <3>1. x \in {"terminal", "layer"} /\ SignalWaiters(cause, With(o, Decided(t, x)))
      BY <2>4 DEF RaiseTimeout, Outcome
    <3>2. x = "layer" => cause[t] = Unset
      OBVIOUS
    <3> HIDE DEF x, cause
    <3>3. QED
      BY <2>2, <3>1, <3>2 DEF SignalWaiters
  <2>6. /\ t \in AllTokens /\ t \in line[t] /\ line[t] \subseteq Tokens
        /\ reason \in [AllTokens -> Reasons]
    BY <1>1, <2>1, TokenTypes DEF IInv, ControlTypeOK, Lines, Tokens
  <2>7. CheckedReason(old, t) = Unset
    BY <2>5, <2>6 DEF Check
  <2>8. ~aw[o].rootWins /\ old = reason
    <3>1. Terminate(t, DeadlineExceeded)[t] # Unset
      BY <2>6 DEF Terminate, DeadlineExceeded, Unset
    <3>2. old[t] = Unset
      BY <2>6, <2>7, CheckedIff
    <3>3. QED
      BY <3>1, <3>2
  <2>9. Alive(t)
    BY <1>1, <2>1, <2>7, <2>8, AliveIff
  <2>10. reason' = reason
    <3>1. ASSUME NEW u \in line[t] PROVE CheckedReason(reason, u) = reason[u]
      <4>1. u \in Tokens /\ line[u] \subseteq line[t]
        BY <1>1, <2>1, <2>6 DEF IInv, Lines
      <4>2. Alive(u) /\ reason[u] = Unset
        BY <2>9, <4>1 DEF Alive
      <4>3. QED
        BY <1>1, <4>1, <4>2, AliveIff
    <3>2. Check(reason, t) = reason
      BY <2>6, <3>1 DEF Check
    <3>3. QED
      BY <2>5, <2>8, <3>2
  <2>11. now + Jitter >= aw[o].until /\ aw[o].until < deadline[t]
    BY <2>1, <2>4, <2>8 DEF RaiseTimeout, AwaitOK
  <2>12. QED
    BY <2>9, <2>10, <2>11
<1>2. ASSUME IInv, [ControlNext]_controlVars
      PROVE  \A o \in Ops :
               aw'[o].outcome = "layer" =>
                 \/ aw[o].outcome = "layer"
                 \/ /\ Alive(aw[o].token) /\ reason' = reason
                    /\ now + Jitter >= aw[o].until
                    /\ aw[o].until < deadline[aw[o].token]
  BY <1>1, <1>2
<1>3. QED
  BY <1>2, ControlInductive, PTL DEF ControlSpec, LayerTimeoutIsLocal

=============================================================================
