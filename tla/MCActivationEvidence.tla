-------------------------- MODULE MCActivationEvidence --------------------------
(* A small instance of ActivationEvidence for TLC. *)
EXTENDS ActivationEvidence, TLC

CONSTANTS r1, r2, e1, e2
MCRecords == {r1, r2}
MCEvidences == {e1, e2}

\* Windows that are open from the start, one of them closing early, one that opens later
\* and one that is too long.
MCContents ==
  [record : {r1}, evidence : {e1}, from : {0}, until : {1}] \cup
  [record : {r2}, evidence : {e1}, from : {0}, until : {2}] \cup
  [record : {r2}, evidence : {e2}, from : {1}, until : {2}] \cup
  [record : {r1}, evidence : {e1}, from : {0}, until : {3}]

Symmetry == Permutations(Requests) \cup Permutations(Keys)
================================================================================
