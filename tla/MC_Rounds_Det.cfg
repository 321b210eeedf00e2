CONSTANTS
  N_DPUS = 2
  NR_TASKLETS = 2
  BATCH_SIZE = 2
  BUFFER_SIZE = 5
  MaxTxs = 5
  MaxFails = 1
  Workloads <- Separate
SPECIFICATION FairSpec
INVARIANTS
  PhasesApart
  ClockKeepsUp
  ExecOrder
PROPERTY EverythingCommits
