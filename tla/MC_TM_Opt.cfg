CONSTANTS
  NR_TASKLETS = 3
  WORD = 64
  HEAP = 2
  INIT_SIZE = 2
  MRAM_LIMIT = 26
  x = x
  y = y
  z = z
  lx = lx
  ly = ly
  lz = lz
  Addr = {x, y, z}
  Val = {0, 1, 2, 3, 4}
  InitVal = 0
  Lock = {lx, ly}
  NoLock = NoLock
  LOCK_ADDR <- SharedLock
  R_SET_SIZE = 2
  W_SET_SIZE = 2
  Programs <- OptBatches
  MaxOps = 5
  MaxClock = 10
SPECIFICATION Spec
INVARIANTS
  TypeOK
  LocksMatchWriteSets
  Opaque
  Serializable
  AllocsMatchCommits
PROPERTIES
  VersionsGrow
  AtomicWrites
