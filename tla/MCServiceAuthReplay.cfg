CONSTANTS
  Messages = {m1, m2}
  Nonces = {n1, n2}
  Deliveries = {d1, d2, d3}
  NoRow = NoRow
  Window = 1
  MaxRetention = 3
  PurgeLimit = 1
  MaxSkew = 1
  LastIssued = 2
  MaxClock = 4
  LostReplies = TRUE
SPECIFICATION Spec
SYMMETRY Symmetry
CHECK_DEADLOCK FALSE
INVARIANTS
  TypeOK
  AcceptedWhileCurrent
  NoncesAreSpentRightly
PROPERTIES
  ImplementsOneUse
