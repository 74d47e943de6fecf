CONSTANTS
  LOG_ENTRIES = 1
  NoEntry = NoEntry
  NoReq = NoReq
  Workloads <- MCWorkloads
  REFLUSH = FALSE
SPECIFICATION MmuFairSpec
INVARIANTS AnswerOfOwnWalk TlbCoherent OneHit TranslationExact
PROPERTIES LsuServed
CHECK_DEADLOCK FALSE
