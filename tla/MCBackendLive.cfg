SPECIFICATION FairSpec
CONSTANTS
  NR_ENTRIES = 4
  NR_COMMIT_PORTS = 2
  NR_WB_PORTS = 4
  Regs = {"x0"}
  X0 = "x0"
  FUs <- MCFUs
  NONE = "NONE"
  Value = {"none", "ok", "bad"}
  NoValue = "none"
  Instr <- MCInstr
  NoInstr <- MCNoInstr
  Workloads <- LiveWorkloads
  WT_DCACHE = FALSE
PROPERTIES EveryInstructionLeaves SlotStable ImplementsReorderQueue
