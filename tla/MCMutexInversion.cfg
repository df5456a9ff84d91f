SPECIFICATION Spec
CONSTANTS
  NumTasks = 3
  TaskPriority <- MCTaskPriority
  MAX_TIMER = 6
  DelayTimes = {1}
  Blockable = {}
  BRTOS_MAX_MUTEX = 1
  Ceilings = {9}
  AcquireTimes = {0}
  Nested = TRUE
INVARIANT NoUnboundedInversion
