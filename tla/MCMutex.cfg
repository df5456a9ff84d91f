SPECIFICATION Spec
CONSTANTS
  NumTasks = 2
  TaskPriority <- MCTaskPriority
  MAX_TIMER = 6
  DelayTimes = {1}
  Blockable = {}
  BRTOS_MAX_MUTEX = 2
  Ceilings = {0, 9, 4}
  AcquireTimes = {0, 2}
  Nested = TRUE
INVARIANT MutualExclusion
INVARIANT OwnerIsTold
INVARIANT ReadyPrioritiesHaveTasks
INVARIANT CeilingInForce
INVARIANT RunsHighestUnlessReleased
