CONSTANTS
  NR_TASKLETS = 3
  WORD = 64
  HEAP = 2
  INIT_SIZE = 9
  MRAM_LIMIT = 24
  Sizes = {1, 3}
SPECIFICATION Spec
INVARIANTS
  Accounted
  Disjoint
PROPERTY CommittedStays
CHECK_DEADLOCK FALSE
