------------------------------ MODULE LiveEvidence ------------------------------
(***************************************************************************)
(* What the evidence tables promise, with no statements, constraints, status *)
(* columns or requests: a commit's evidence is put in force only while none  *)
(* is, and evidence that has been withdrawn is never in force again.         *)
(***************************************************************************)
CONSTANT Writes

VARIABLES
  live,       \* the evidence in force
  withdrawn   \* the evidence that once was

vars == <<live, withdrawn>>

Init == live = {} /\ withdrawn = {}

Register(write) ==
  /\ live = {}
  /\ write \notin withdrawn
  /\ live' = {write}
  /\ UNCHANGED withdrawn

Withdraw ==
  /\ live # {}
  /\ live' = {}
  /\ withdrawn' = withdrawn \cup live

Next == Withdraw \/ \E write \in Writes : Register(write)

Spec == Init /\ [][Next]_vars
================================================================================
