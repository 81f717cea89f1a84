--------------------------- MODULE MCExecutionRecord ---------------------------
(* Small instances of ExecutionRecord for TLC. *)
EXTENDS ExecutionRecord, TLC

CallSymmetry == Permutations(Calls)
================================================================================
