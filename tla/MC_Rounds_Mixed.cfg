CONSTANTS
  N_DPUS = 2
  NR_TASKLETS = 2
  BATCH_SIZE = 1
  BUFFER_SIZE = 5
  MaxTxs = 4
  MaxFails = 1
  Workloads <- AllWorkloads
SPECIFICATION FairSpec
PROPERTY EverythingCommits
CHECK_DEADLOCK FALSE
