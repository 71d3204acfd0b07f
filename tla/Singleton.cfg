\* Two threads share a processor, a third has its own.
CONSTANTS
    t1 = t1
    t2 = t2
    t3 = t3
    CPU = {{t1, t2}, {t3}}
    NoThread = NoThread
SPECIFICATION FairSpec
INVARIANTS
    CreatedOnce
    ReturnsObject
PROPERTIES
    EveryGetReturns
