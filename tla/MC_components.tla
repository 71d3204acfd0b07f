--------------------------- MODULE MC_components ---------------------------
(* The components of Components, the containers and the streams of AK,     *)
(* each a state machine of one object: subject says which one obj is.      *)
EXTENDS Components, Sequences

CONSTANTS NoList, Missing, NoMetadata, Moved, \* no value of another kind
          l1, l2, m1

Tree == INSTANCE RedBlackTree WITH tree <- obj, MaxNodes <- 5, MaxKey <- 3, Intrusive <- FALSE
List == INSTANCE IntrusiveList WITH links <- obj, List <- {l1, l2}, Node <- 1 .. 3, Null <- 0
Single == INSTANCE LinkedLists WITH chain <- obj, Node <- 1 .. 4, Null <- 0, Kind <- "singly"
Double == INSTANCE LinkedLists WITH chain <- obj, Node <- 1 .. 4, Null <- 0, Kind <- "doubly"
Vec == INSTANCE Vector WITH vectors <- obj, Value <- {1, 2}, InlineCapacity <- 1, MaxSize <- 3
Queue == INSTANCE Queues WITH queue <- obj, Value <- 0 .. 2, Capacity <- 4, MaxQueued <- 6
Bits == INSTANCE Bitmaps WITH bitmap <- obj, ByteBits <- 2, WordBytes <- 2, MaxBits <- 9
Tries == INSTANCE Trie WITH trie <- obj, Order <- <<1, 2>>, Metadata <- {m1}, MaxDepth <- 2
Stream == INSTANCE Streams WITH stream <- obj, ByteBits <- 2, Chunk <- 3, BufferSize <- 2, Source <- 8,
                                Room <- 7, MaxCount <- 8, MaxSent <- 12, Garbage <- 99

-----------------------------------------------------------------------------
Init ==
    \/ OwnersInit \/ DevicesInit
    \/ subject = "tree" /\ Tree!Init
    \/ subject = "list" /\ List!Init
    \/ subject = "single" /\ Single!Init
    \/ subject = "double" /\ Double!Init
    \/ subject = "vector" /\ Vec!Init
    \/ subject = "queue" /\ Queue!Init
    \/ subject = "bits" /\ Bits!Init
    \/ subject = "trie" /\ Tries!Init
    \/ subject = "stream" /\ Stream!Init

Next ==
    \/ OwnersNext \/ DevicesNext
    \/ /\ UNCHANGED subject
       /\ \/ subject = "tree" /\ Tree!Next
          \/ subject = "list" /\ List!Next
          \/ subject = "single" /\ Single!Next
          \/ subject = "double" /\ Double!Next
          \/ subject = "vector" /\ Vec!Next
          \/ subject = "queue" /\ Queue!Next
          \/ subject = "bits" /\ Bits!Next
          \/ subject = "trie" /\ Tries!Next
          \/ subject = "stream" /\ Stream!Next
Spec == Init /\ [][Next]_<<subject, obj>>

-----------------------------------------------------------------------------
\* Searching, iterating and counting agree with what was put in: red-black trees, tries, bitmaps,
\* intrusive lists.
LookupsAgree ==
    /\ subject = "tree" => Tree!IterationVisitsAll /\ Tree!SearchesAgree
    /\ subject = "trie" => Tries!WalksInTreeOrder /\ Tries!FindsInserted
    /\ subject = "bits" => Bits!RangesWritten /\ Bits!CountsBits /\ Bits!RangesFound /\ Bits!OneFound
    /\ subject = "list" => List!ListsAgree

\* Vectors, queues, heaps, buffers and streams hold and give back the values they were given, in
\* order, through every growth, shift, wrap and refill; a stream keeps the chunks there are to read.
ContentsKept ==
    /\ subject = "vector" => Vec!DoesAsMeant /\ Vec!SlotsAreContents
    /\ subject = "queue" => Queue!HoldsContents /\ Queue!HeapOrdered
    /\ subject = "buffers" => Buffers!HoldsBytes
    /\ subject = "stream" => Stream!ReadsInOrder /\ Stream!WritesInOrder /\ Stream!ChunksReleased

\* An operation on linked nodes changes what it means to and leaves every other link right.
ChangesAsMeant ==
    [][/\ subject = "tree" => Tree!InsertionBalancesStep /\ Tree!ChangesOneKeyStep
       /\ subject = "list" => List!DoesAsMeantStep
       /\ subject = "single" => Single!ChainStaysWholeStep
       /\ subject = "double" => Double!ChainStaysWholeStep]_<<subject, obj>>
=============================================================================
