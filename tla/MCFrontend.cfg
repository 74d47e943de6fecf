\* Programs with every kind of control flow, faults, fence.i and a cache that is
\* switched on and off.
CONSTANTS
    DEPTH = 2
    HALVES = 8
    WORDS = 4
    Workloads <- MCWorkloads
SPECIFICATION FairSpec
INVARIANTS QueueBalanced  FetchFresh
PROPERTIES FetchProgress
