\* docs/policy-gateway.md:19, for owner exceptions.
CONSTANTS
  r1 = r1
  r2 = r2
  r3 = r3
  a1 = a1
  t1 = t1
  t2 = t2
  t3 = t3
  d1 = d1
  Requests <- MCRequests
  Actions <- MCActions
  Targets <- MCTargets
  Decisions <- MCDecisions
  ActionOf <- MCActionOf
  BoundTo <- MCBoundTo
  Covered <- MCCovered
  Ambiguous <- MCAmbiguous
  Nothing = Nothing
  MaxChanges = 1
SPECIFICATION Spec
SYMMETRY RequestSymmetry
CHECK_DEADLOCK FALSE
INVARIANTS
  EveryPassReadsKnowledge
