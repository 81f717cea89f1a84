------------------------------ MODULE MCTaskQueue ------------------------------
(* Small instances of TaskQueue for TLC: two tasks, of which one may be parallel. *)
EXTENDS TaskQueue
================================================================================
