CONSTANTS
  NTasks = 2
  Parallel = {2}
  PullRequestStates = {"none", "draft", "ready"}
  MaxDispatches = 2
  RetryDelay = 1
  CycleLimit = 1
SPECIFICATION Spec
INVARIANTS
  TypeOK
  RecordsAreTrue
PROPERTIES
  RetriesAreSpaced
  ImplementsBoundedRetry
