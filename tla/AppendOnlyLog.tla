----------------------------- MODULE AppendOnlyLog -----------------------------
(* What an audit chain promises: entries are only ever added, at the end, once. *)
EXTENDS Sequences

CONSTANT Entries

VARIABLE log

Init == log = <<>>

Record(e) ==
  /\ \A i \in DOMAIN log : log[i] # e
  /\ log' = Append(log, e)

Next == \E e \in Entries : Record(e)

Spec == Init /\ [][Next]_log
================================================================================
