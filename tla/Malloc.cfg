\* 42 words: two blocks can use them up with the last one stuck.
SPECIFICATION Spec
CONSTANTS
  Ids = {1, 2}
  HighIds = {2}
  Sizes = {0, 2, 5, 12}
  NumTraces = 2
  MaxOps <- MCOps
  Repeats = 2
  MAX_HEAP = 42
  CHUNKSIZE = 8
  Uninit = 77
INVARIANTS HeapIsSound FaultHasCause ReplaysSucceed UtilizationIsShare RangesAreLive
PROPERTY ImplementsAllocator
CHECK_DEADLOCK FALSE
