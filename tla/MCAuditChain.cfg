CONSTANTS
  Appends = {a1, a2, a3, a4}
  Scopes = {s1, s2}
  NoScope = NoScope
  ZeroDigest = ZeroDigest
  MaxAttempts = 2
SPECIFICATION FairSpec
CHECK_DEADLOCK FALSE
INVARIANTS
  TypeOK
  ChainIsLinked
  ReceiptProvesRow
  OutcomesAreTrue
PROPERTIES
  EveryAppendEnds
  ImplementsAppendOnlyLog
