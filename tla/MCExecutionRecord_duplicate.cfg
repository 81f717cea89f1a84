\* docs/policy-gateway.md:20, with no lost reply.
CONSTANTS
  Calls = {c1, c2}
  Decisions = {d1}
  Standing = Standing
  NoLease = NoLease
  Unconsumed = Unconsumed
  LeaseMs = 1
  MaxSkew = 0
  LastStart = 3
  MaxClock = 3
  LostReplies = FALSE
SPECIFICATION Spec
SYMMETRY CallSymmetry
CHECK_DEADLOCK FALSE
PROPERTIES
  CompletedLeaseBlocksEffects
