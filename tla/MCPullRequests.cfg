SPECIFICATION Spec
CONSTANTS
  NHeads = 2
  Runs = {r1, r2}
  MaxRequests = 2
  MaxEvents = 4
SYMMETRY Symmetry
INVARIANTS TypeOK GreenGateIsOfTheHead ProtectedHeadIsLeftAlone
PROPERTIES DispatchIsEarned StopHolds
CHECK_DEADLOCK FALSE
