CONSTANTS
  NTasks = 2
  Parallel = {2}
  PullRequestStates = {"none", "draft", "ready"}
  MaxDispatches = 1
  RetryDelay = 1
  CycleLimit = 0
SPECIFICATION Spec
INVARIANTS OneTriggerPerCycle
