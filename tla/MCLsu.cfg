SPECIFICATION LsuFairSpec
CONSTANTS
  NoOp = NoOp
  Workloads <- MCWorkloads
  Addr <- TwoAddr
  Data = {0, 1}
  NR_SB_ENTRIES = 4
  DEPTH_SPEC = 2
  DEPTH_COMMIT = 1
  OVERLAP = FALSE
INVARIANTS OperationsKept  MemoryInOrder CommitsOwnStore
PROPERTIES LsuProgress
