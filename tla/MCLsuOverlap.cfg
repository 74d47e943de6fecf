SPECIFICATION LsuSpec
CONSTANTS
  NoOp = NoOp
  Workloads <- OverlapWorkload
  Addr <- TwoAddr
  Data = {0, 1}
  NR_SB_ENTRIES = 4
  DEPTH_SPEC = 3
  DEPTH_COMMIT = 1
  OVERLAP = TRUE
INVARIANT AnswersExact
CHECK_DEADLOCK FALSE
