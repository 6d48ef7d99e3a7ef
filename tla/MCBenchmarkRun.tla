--------------------------- MODULE MCBenchmarkRun ---------------------------
(* Instances of BenchmarkRun: a batch of two runs, with one crash. *)
EXTENDS BenchmarkRun

MCAssignments == { <<"minimal", "odys">>, <<"legacy", "aware">> }
MCIdentities == { [protocol |-> 1, model |-> 1], [protocol |-> 1, model |-> 2] }
=============================================================================
