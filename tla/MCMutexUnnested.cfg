SPECIFICATION Spec
CONSTANTS
  NumTasks = 2
  TaskPriority <- MCTaskPriority
  MAX_TIMER = 6
  DelayTimes = {1}
  Blockable = {}
  BRTOS_MAX_MUTEX = 2
  Ceilings = {8, 9}
  AcquireTimes = {0}
  Nested = FALSE
INVARIANT ReadyPrioritiesHaveTasks
