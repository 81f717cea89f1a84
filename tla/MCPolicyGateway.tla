---------------------------- MODULE MCPolicyGateway ----------------------------
(* A small instance of PolicyGateway for TLC: one policy matches a1 on t1 and one *)
(* on t2, two match it on t3, and the decision approves a1 on t1.              *)
EXTENDS PolicyGateway, TLC

CONSTANTS r1, r2, r3, a1, t1, t2, t3, d1

MCRequests == {r1, r2, r3}
MCActions == {a1}
MCTargets == {t1, t2, t3}
MCDecisions == {d1}
MCActionOf == [r \in MCRequests |-> a1]
MCBoundTo == d1 :> <<a1, t1>>
MCCovered == {<<a1, t1>>, <<a1, t2>>}
MCAmbiguous == {<<a1, t3>>}

RequestSymmetry == Permutations(MCRequests)
================================================================================
