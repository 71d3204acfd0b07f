\* One entry in the pool and two on the heap, so that both kinds are mixed; a thread,
\* interrupts and exceptions four contexts deep; deferred calls that queue others.
CONSTANTS
    PoolSize = 1
    HeapSize = 2
    MaxCalls = 3
    MaxFaults = 2
    MaxDepth = 4
    MaxHeld = 1
    QueuesMasked = TRUE
    CallsQueue = TRUE
SPECIFICATION Spec
INVARIANTS
    LevelsBalanced
    EntriesConserved
    RunOnceInOrder
    NothingLeftOutside
PROPERTIES
    SchedulerOnlyWhenQuiet
