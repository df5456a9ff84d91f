SPECIFICATION Spec
CONSTANTS
  UMM_NUMBLOCKS = 7
  Sizes <- MCSizes
  Counts = {0, 2, 3}
INVARIANT MemoryIsTheCallers
INVARIANT ListsAgree
INVARIANT ReportsAddUp
PROPERTY ImplementsHeapSpec
