--------------------------- MODULE MCNativeKernel ---------------------------
(***************************************************************************)
(* NativeKernel for TLC.  The provider asks either for tools that stay     *)
(* inside the workspace or for a pair with effects outside it; which is    *)
(* chosen at the start.                                                    *)
(***************************************************************************)
EXTENDS NativeKernel, TLC

CONSTANTS c1, c2, c3, c4, c5, c6, c7
VARIABLE offered

Inside  == c1 :> "edit" @@ c2 :> "edit" @@ c3 :> "read"
Outside ==
  c4 :> "legacy" @@ c5 :> "unverifiable" @@ c6 :> "delegate" @@ c7 :> "idempotent"
Tools == Inside @@ Outside

OfferedInit == Init /\ offered \in {DOMAIN Inside, {c4, c6}, {c5, c7}}

Offers(Step) ==
  /\ Step /\ UNCHANGED offered
  /\ \A k \in DOMAIN todo' : todo'[k] \in offered

OfferedSpec ==
  /\ OfferedInit /\ [][Offers(Next)]_<<vars, offered>>
  /\ WF_<<vars, offered>>(Offers(Progress))
============================================================================
