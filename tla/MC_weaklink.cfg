\* Two threads own the object, a third has only a weak reference; two strong_ref each.
CONSTANTS
    Thread = {p1, p2, p3}
    Owners = {p1, p2}
    MaxCalls = 2
SPECIFICATION FairSpec
INVARIANTS
    NoUseAfterFree
    StrongMeansLive
PROPERTIES
    DestructionEnds
CHECK_DEADLOCK FALSE
