------------------------------- MODULE OneSuccess -------------------------------
(***************************************************************************)
(* What an idempotency scope promises, with no lease, clock or audit chain: *)
(* calls announce that they are about to act, and at most one of those that *)
(* did is ever recorded as the one that succeeded.                          *)
(***************************************************************************)
CONSTANTS
  Calls,
  NoWinner   \* not one of Calls

VARIABLES announced, winner

vars == <<announced, winner>>

Init == announced = {} /\ winner = NoWinner

Announce(c) ==
  /\ announced' = announced \cup {c}
  /\ UNCHANGED winner

Win(c) ==
  /\ winner = NoWinner
  /\ c \in announced
  /\ winner' = c
  /\ UNCHANGED announced

Next == \E c \in Calls : Announce(c) \/ Win(c)

Spec == Init /\ [][Next]_vars
================================================================================
