\* An unordered table of up to four keys in arrays of 4, 8, 12 and 16 buckets.
SPECIFICATION FairSpec
CONSTANTS
    k1 = k1
    k2 = k2
    k3 = k3
    k4 = k4
    Key = {k1, k2, k3, k4}
    Value = {1, 2}
    HashOf <- MCHashOf
    DoubleHash <- MCDoubleHash
    GoodSize <- MCGoodSize
    MaxCapacity = 16
    IsOrdered = FALSE
    NoElement = NoElement
    NoOp = NoOp
INVARIANTS
    FindsAll
    CountsRight
    ProbesEnd
PROPERTIES
    ImplementsSet
    RehashEnds
