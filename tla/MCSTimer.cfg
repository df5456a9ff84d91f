SPECIFICATION STimerSpec
CONSTANTS
  NumTasks = 2
  TaskPriority <- MCTaskPriority
  MAX_TIMER = 6
  DelayTimes = {1}
  Blockable = {}
  BRTOS_MAX_TIMER = 4
  TimerTask = 2
  Clients = {1}
  SetTimes = {0, 2}
  Repeats = {0, 1}
  MaxTimers = 3
  Restart = FALSE
 
 
 
 
INVARIANT RemainingIsExact
