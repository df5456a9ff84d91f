SPECIFICATION TaskSpec
CONSTANTS
  NumTasks = 3
  TaskPriority <- MCTaskPriority
  MAX_TIMER = 5
  DelayTimes = {1}
  Blockable = {}
  BRTOS_MAX_SEM = 1
  SEM_MAX = 1
  InitialCounts = {0}
  PendTimes = {1}
  DeleteWaited = FALSE
  InstallPriorities = {5}
  Careful = TRUE
INVARIANT WellLinked
INVARIANT ReadyAreInstalled
INVARIANT RunsHighestUnlessInstalled
INVARIANT UninstalledAreUnlinked
 
