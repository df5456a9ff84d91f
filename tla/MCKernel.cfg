SPECIFICATION KernelFairSpec
CONSTANTS
  NumTasks = 2
  TaskPriority <- MCTaskPriority
  MAX_TIMER = 7
  DelayTimes = {1, 3, 4}
  Blockable = {1, 2, 3}
INVARIANT KernelTypeOK
INVARIANT SelectsHighest
INVARIANT RunsHighest
INVARIANT WaitsAreExact
INVARIANT DelayedAreLinked
PROPERTY DelayEnds
PROPERTY HighestReturns
