\* The same with fewer calls, under fairness.
CONSTANTS
    PoolSize = 1
    HeapSize = 1
    MaxCalls = 2
    MaxFaults = 1
    MaxDepth = 3
    MaxHeld = 1
    QueuesMasked = TRUE
    CallsQueue = TRUE
SPECIFICATION FairSpec
PROPERTIES
    QueuedCallsRun
    RequestIsServed
