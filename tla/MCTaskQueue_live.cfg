CONSTANTS
  NTasks = 2
  Parallel = {2}
  PullRequestStates = {"none"}
  MaxDispatches = 2
  RetryDelay = 1
  CycleLimit = 0
SPECIFICATION FairSpec
PROPERTIES
  NoTaskWaitsForEver
