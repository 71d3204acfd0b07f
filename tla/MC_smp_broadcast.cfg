\* Every processor flushes the TLB of the others at once; three calls, two messages.
CONSTANTS
    NumCPU = 3
    PoolSize = 2
    MaxCalls = 1
    Kinds = {"flush"}
    MayHalt = FALSE
SPECIFICATION Spec
INVARIANTS
    NeverFollowsNull
    ExclusiveOwnership
    RefsCountOutstanding
    NoLostWakeup
PROPERTIES
    DeliverySpec
