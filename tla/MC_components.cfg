\* Small instances of each: a few nodes, slots or bytes, capacities of one and two so that growing,
\* wrapping and refilling happen, and sizes just past a word or a chunk.
SPECIFICATION Spec
CONSTANTS
    NullPointer = NullPointer
    Counted = {c1, c2}
    Sole = {o1, o2}
    RefSlot = {r1, r2}
    OwnSlot = {u1, u2}
    NoAlternative = NoAlternative
    Callable = {f1, f2, f3}
    Alternative = {a1, a2}
    MaxNesting = 4
    Unfilled = Unfilled
    Buffer = {x1, x2}
    Octet = {0, 1}
    InlineCapacity = 1
    MaxSize = 3
    MaxPiece = 2
    Irq = {1, 2}
    Device = {d1, d2, d3}
    Half = 6
    Interval = 4
    MaxDelay = 3
    MaxCount = 30
    Processor = {1, 2, 3}
    Waker = {1, 2}
    MaxIdles = 2
    NoList = NoList
    Missing = Missing
    NoMetadata = NoMetadata
    Moved = Moved
    l1 = l1
    l2 = l2
    m1 = m1
INVARIANTS
    LookupsAgree
    ContentsKept
    OwnedAndReleased
    DevicesServed
PROPERTIES
    ChangesAsMeant
\* The bounded operations run out, and a structure that faulted does nothing more.
CHECK_DEADLOCK FALSE
