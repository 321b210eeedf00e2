CONSTANTS
  N_THREADS = 3
  N_DPUS = 2
  NR_TASKLETS = 2
  BATCH_SIZE = 1
  BUFFER_SIZE = 3
  MaxTxs = 4
  Workloads <- AllWorkloads
SPECIFICATION FairSpec
INVARIANTS
  NoTornBatch
  RunOnce
  NothingLeftBehind
  StartNeedsRoom
PROPERTY EverythingRuns
CHECK_DEADLOCK FALSE
