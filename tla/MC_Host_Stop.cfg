CONSTANTS
  N_THREADS = 3
  N_DPUS = 2
  NR_TASKLETS = 1
  BATCH_SIZE = 1
  BUFFER_SIZE = 2
  MaxTxs = 2
  Workloads <- AllWorkloads
SPECIFICATION FairSpec
PROPERTY StopReturns
CHECK_DEADLOCK FALSE
