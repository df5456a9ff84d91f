SPECIFICATION Spec
CONSTANTS
  NumTasks = 2
  TaskPriority <- MCTaskPriority
  MAX_TIMER = 5
  DelayTimes = {}
  Blockable = {}
  Data = {d1, d2}
  BRTOS_MAX_QUEUE = 1
  NumDynamic = 1
  Num16 = 1
  Num32 = 1
  CPU_TYPE_SIZE = 2
  QUEUE_HEAP_SIZE = 4
  CreateSizes = {1}
  PendTimes = {1}
  Receivers <- MCReceivers
  MaxCreated = 2
SYMMETRY MCSymmetry
INVARIANT BuffersWellFormed
INVARIANT DataReachesReceiver
INVARIANT StorageIsDisjoint
 
PROPERTY ImplementsQueueSpec
