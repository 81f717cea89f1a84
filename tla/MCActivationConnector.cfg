CONSTANTS
  Calls = {c1, c2, c3, c4}
  None = None
  NoPolicy = NoPolicy
  Reviewed = Reviewed
  Upload = Upload
  MaxOpen = 3
  MaxOwnerActs = 1
SPECIFICATION Spec
SYMMETRY Symmetry
CHECK_DEADLOCK FALSE
INVARIANTS
  TypeOK
  ReportsAreTrue
  DeployedIsReviewed
PROPERTY ImplementsGuardedExposure
