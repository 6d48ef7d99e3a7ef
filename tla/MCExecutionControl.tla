------------------------- MODULE MCExecutionControl -------------------------
(***************************************************************************)
(* ExecutionControl for TLC: one await.  What others do to its tokens, Look*)
(* and Cancel do too; the theorems hold for any number of awaits.          *)
(***************************************************************************)
EXTENDS ExecutionControl

OneAwait == {"await"}
============================================================================
