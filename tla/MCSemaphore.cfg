SPECIFICATION Spec
CONSTANTS
  NumTasks = 3
  TaskPriority <- MCTaskPriority
  MAX_TIMER = 6
  DelayTimes = {1}
  Blockable = {1}
  BRTOS_MAX_SEM = 1
  SEM_MAX = 2
  InitialCounts = {0, 2}
  PendTimes = {0, 2}
  DeleteWaited = FALSE
INVARIANT WaitCountsWaiters
INVARIANT WaitersCanBeWoken
INVARIANT UnlinksOnlyLinked
 
