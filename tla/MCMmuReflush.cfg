CONSTANTS
  LOG_ENTRIES = 1
  NoEntry = NoEntry
  NoReq = NoReq
  Workloads <- EditOnly
  REFLUSH = TRUE
SPECIFICATION MmuSpec
INVARIANT AnswerOfOwnWalk
CHECK_DEADLOCK FALSE
