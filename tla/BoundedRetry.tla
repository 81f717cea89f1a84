------------------------------ MODULE BoundedRetry ------------------------------
(***************************************************************************)
(* What the task queue promises, with no markers, labels, cycles or lost    *)
(* replies: the attempts at a task are accepted one after the other, there  *)
(* are never more than the allowed number, and a task is given up only when *)
(* every one of them has been accepted.                                     *)
(***************************************************************************)
EXTENDS Naturals

CONSTANTS Tasks, MaxAttempts

VARIABLES attempts, givenUp

vars == <<attempts, givenUp>>

Init == attempts = [t \in Tasks |-> {}] /\ givenUp = {}

Attempt(t) ==
  \E n \in 1 .. MaxAttempts :
    /\ attempts[t] = 1 .. (n - 1)
    /\ attempts' = [attempts EXCEPT ![t] = 1 .. n]
    /\ UNCHANGED givenUp

GiveUp(t) ==
  /\ attempts[t] = 1 .. MaxAttempts
  /\ givenUp' = givenUp \cup {t}
  /\ UNCHANGED attempts

Next == \E t \in Tasks : Attempt(t) \/ GiveUp(t)

Spec == Init /\ [][Next]_vars
================================================================================
