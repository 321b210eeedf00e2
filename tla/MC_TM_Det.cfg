CONSTANTS
  NR_TASKLETS = 3
  WORD = 64
  HEAP = 2
  INIT_SIZE = 2
  MRAM_LIMIT = 22
  x = x
  y = y
  z = z
  lx = lx
  ly = ly
  lz = lz
  Addr = {x, y, z}
  Val = {0, 1, 2, 3}
  InitVal = 0
  Lock = {lx, ly, lz}
  NoLock = NoLock
  LOCK_ADDR <- OwnLocks
  R_SET_SIZE = 2
  W_SET_SIZE = 2
  Programs <- DetThree
  MaxOps = 2
  MaxClock = 30
SPECIFICATION FairSpec
INVARIANTS
  DetOrderUnlessFailed
PROPERTIES
  DetPhaseEnds
