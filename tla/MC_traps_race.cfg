\* Calls queued by code that may be interrupted.
CONSTANTS
    PoolSize = 2
    HeapSize = 0
    MaxCalls = 2
    MaxFaults = 0
    MaxDepth = 3
    MaxHeld = 1
    QueuesMasked = FALSE
    CallsQueue = FALSE
SPECIFICATION Spec
INVARIANTS
    HandlerCallable
