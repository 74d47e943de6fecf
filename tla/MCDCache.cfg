\* Six workloads of the data cache.
CONSTANT Workloads <- MCWorkloads
SPECIFICATION LiveSpec
INVARIANTS MemoryExact  OnePlace AmoOnEmptyCache
PROPERTIES FlushComplete DCacheProgress
