SPECIFICATION Spec
CONSTANTS
  NumTasks = 2
  TaskPriority <- MCTaskPriority
  MAX_TIMER = 6
  DelayTimes = {}
  Blockable = {}
  BRTOS_MAX_MBOX = 1
  PendTimes = {0, 2}
INVARIANT WokenFindMessage
