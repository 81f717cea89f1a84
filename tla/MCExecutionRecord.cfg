\* Lost replies, late appends, crashes, skewed clocks, two calls that overlap after or within
\* a lease of several ticks; every lease granted by LastStart can run out before MaxClock.
CONSTANTS
  Calls = {c1, c2}
  Decisions = {d1}
  Standing = Standing
  NoLease = NoLease
  Unconsumed = Unconsumed
  LeaseMs = 3
  MaxSkew = 1
  LastStart = 2
  MaxClock = 6
  LostReplies = TRUE
SPECIFICATION FairSpec
CHECK_DEADLOCK FALSE
INVARIANTS
  TypeOK
  ExclusiveWithinLease
  AuditIsTrue
PROPERTIES
  ImplementsOneUse
  ImplementsOneSuccess
  ScopeIsNeverStuck
