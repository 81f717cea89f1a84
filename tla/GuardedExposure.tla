---------------------------- MODULE GuardedExposure ----------------------------
(***************************************************************************)
(* What the connector's tools promise of the workers.dev subdomain together, *)
(* with no requests, listings or calls: it is enabled only once the Worker   *)
(* is behind Access and a version activated, in whichever order, and none of *)
(* the three is taken back.                                                 *)
(***************************************************************************)
VARIABLES
  protected,   \* an application with a service-token policy is before the Worker
  activated,   \* a version derived by an activation has been deployed
  exposed      \* workers.dev is enabled

vars == <<protected, activated, exposed>>

Init == ~protected /\ ~activated /\ ~exposed

Protect == protected' /\ UNCHANGED <<activated, exposed>>

Activate == activated' /\ UNCHANGED <<protected, exposed>>

Expose == protected /\ activated /\ exposed' /\ UNCHANGED <<protected, activated>>

Next == Protect \/ Activate \/ Expose

Spec == Init /\ [][Next]_vars
================================================================================
