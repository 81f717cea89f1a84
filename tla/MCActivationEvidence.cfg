CONSTANTS
  Requests = {q1, q2}
  r1 = r1
  r2 = r2
  e1 = e1
  e2 = e2
  Records <- MCRecords
  Evidences <- MCEvidences
  Contents <- MCContents
  Keys = {k1, k2}
  Evaluations = {v1}
  NoBody = NoBody
  NoRow = NoRow
  Window = 1
  MaxValidity = 2
  MaxClock = 2
  MaxChanges = 2
SPECIFICATION Spec
SYMMETRY Symmetry
CHECK_DEADLOCK FALSE
INVARIANTS
  TypeOK
  NothingHalfWritten
  EveryRecordVerifies
  ReadyIsFresh
PROPERTIES
  ImplementsLiveEvidence
