CONSTANTS
  NR_TASKLETS = 2
  WORD = 64
  HEAP = 2
  INIT_SIZE = 2
  MRAM_LIMIT = 22
  x = x
  y = y
  z = z
  lx = lx
  ly = ly
  lz = lz
  Addr = {x, y}
  Val = {0, 1, 2}
  InitVal = 0
  Lock = {lx, ly}
  NoLock = NoLock
  LOCK_ADDR <- OwnLocks
  R_SET_SIZE = 2
  W_SET_SIZE = 2
  Programs <- TwoByTwo
  MaxOps = 2
  MaxClock = 8
SPECIFICATION Spec
INVARIANTS
  Isolation
