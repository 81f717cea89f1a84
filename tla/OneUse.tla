--------------------------------- MODULE OneUse ---------------------------------
(***************************************************************************)
(* What single-use tokens promise, with no table, clock, window or clean-up: *)
(* each is used once, by one user, and a use is never undone.                *)
(***************************************************************************)
CONSTANTS Tokens, Users

VARIABLE used   \* the uses made: pairs of a token and its user

Init == used = {}

Use(token, user) ==
  /\ \A use \in used : use[1] # token
  /\ used' = used \cup {<<token, user>>}

Next == \E token \in Tokens, user \in Users : Use(token, user)

Spec == Init /\ [][Next]_used
================================================================================
