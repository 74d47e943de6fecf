\* The workloads of the write-through data cache.
CONSTANTS
    Workloads <- MCWorkloads
    WBUF_DEPTH = 2
    MAX_TX = 2
    REQ_DEPTH = 1
SPECIFICATION LiveSpec
INVARIANTS TxExact MemoryExact CopiesExact LoadExact OnePlace Exclusive
PROPERTIES WtProgress
