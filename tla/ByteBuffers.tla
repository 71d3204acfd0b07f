---------------------------- MODULE ByteBuffers ----------------------------
(***************************************************************************)
(* AK/ByteBuffer.h and the StringBuilder above it (AK/StringBuilder.cpp):  *)
(* bytes in place while they fit, in a block of the heap when they do not. *)
(* m_inline_buffer and the pointer to the block share memory: m_inline     *)
(* says which of them is there.  `meant` is what each buffer is to hold;   *)
(* a byte nobody wrote, one past the size, and one read from memory the    *)
(* buffer no longer has, is Unset.                                         *)
(***************************************************************************)
EXTENDS Integers, Sequences, FiniteSets, SequencesExt

CONSTANTS Buffer,         \* the buffers
          Value,          \* the bytes there are: 0 is one of them
          InlineCapacity, \* inline_capacity
          MaxSize,        \* bound: bytes in a buffer
          MaxPiece,       \* bound: bytes appended at once
          Unset             \* an unwritten byte

VARIABLE buffers

Blocks == 1 .. Cardinality(Buffer) + 2
Unwritten(n) == [i \in 1 .. n |-> Unset]
\* kmalloc_good_size: blocks come in even sizes
GoodSize(n) == n + (n % 2)

\* The state is [of |-> each buffer's members, heap |-> the cells of the blocks allocated,
\* meant |-> each buffer's contents, freed |-> blocks were freed once and with their size].
InPlace == [inline |-> TRUE, size |-> 0, cells |-> Unwritten(InlineCapacity),
            block |-> 0, capacity |-> 0]
Capacity(b) == IF b.inline THEN InlineCapacity ELSE b.capacity
Data(s, b) == IF b.inline THEN b.cells ELSE s.heap[b.block]
Prefix(cells, n) == SubSeq(cells, 1, n)
Overlaid(cells, at, bytes) ==
    [i \in DOMAIN cells |-> IF i - at \in DOMAIN bytes THEN bytes[i - at] ELSE cells[i]]

Allocate(s, cells) ==
    LET block == CHOOSE k \in Blocks \ DOMAIN s.heap : TRUE
    IN  [block |-> block,
         heap |-> [k \in DOMAIN s.heap \cup {block} |-> IF k = block THEN cells ELSE s.heap[k]]]
\* kfree_sized
Free(s, b) ==
    [s EXCEPT !.heap = [k \in DOMAIN @ \ {b.block} |-> @[k]],
              !.freed = @ /\ b.block \in DOMAIN s.heap /\ Len(s.heap[b.block]) = b.capacity]
WithData(s, x, cells) ==
    IF s.of[x].inline THEN [s EXCEPT !.of[x].cells = cells]
    ELSE [s EXCEPT !.heap[s.of[x].block] = cells]

\* try_ensure_capacity_slowpath.  Mutant: what was there is not copied.
NothingCopied(s, b, n) == Unwritten(n)
CopiedTo(s, b, n) == IF b.inline THEN Overlaid(Unwritten(n), 0, Prefix(b.cells, b.size))
                     ELSE Overlaid(Unwritten(n), 0, s.heap[b.block])
EnsureCapacity(s, x, n) ==
    LET b == s.of[x]
        good == GoodSize(n)
        a == Allocate(s, CopiedTo(s, b, good))
        t == [s EXCEPT !.heap = a.heap]
        u == IF b.inline THEN t ELSE Free(t, b)
    IN  IF n <= Capacity(b) THEN s
        ELSE [u EXCEPT !.of[x] = [inline |-> FALSE, size |-> b.size, cells |-> <<>>,
                                  block |-> a.block, capacity |-> good]]

\* trim and shrink_into_inline_buffer.  Mutant: the block is kept.
BlockKept(s, b) == s
BlockFreed(s, b) == Free(s, b)
Trim(s, x, n, mayDiscard) ==
    LET b == s.of[x]
        kept == IF mayDiscard THEN <<>> ELSE Prefix(s.heap[b.block], n)
    IN  IF ~b.inline /\ n <= InlineCapacity
        THEN [BlockFreed(s, b) EXCEPT
                !.of[x] = [InPlace EXCEPT !.size = n, !.cells = Overlaid(@, 0, kept)]]
        ELSE WithData([s EXCEPT !.of[x].size = n], x,
                      Overlaid(Unwritten(Capacity(b)), 0, Prefix(Data(s, b), n)))
\* try_resize
Resized(s, x, n) ==
    IF n <= s.of[x].size THEN Trim(s, x, n, FALSE)
    ELSE [EnsureCapacity(s, x, n) EXCEPT !.of[x].size = n]
Cleared(s, x) ==
    LET b == s.of[x]
    IN  [(IF b.inline THEN s ELSE Free(s, b)) EXCEPT
            !.of[x] = InPlace]

Written(s, x, at, bytes) == WithData(s, x, Overlaid(Data(s, s.of[x]), at, bytes))
\* try_append
Appended(s, x, bytes) ==
    IF bytes = <<>> THEN s
    ELSE Written(Resized(s, x, s.of[x].size + Len(bytes)), x, s.of[x].size, bytes)
\* StringBuilder::will_append: twice what is needed, when it is not there.
WillAppend(s, x, n) ==
    LET needed == s.of[x].size + n
    IN  IF needed <= Capacity(s.of[x]) THEN s ELSE EnsureCapacity(s, x, 2 * needed)

\* move_from.  Mutant: the buffer moved from keeps its block.
BothOwn(from) == from
MovedFrom(from) == InPlace
\* ByteBuffer::copy and the assignment of its result: a buffer of its own, moved in.
Replaced(s, x, bytes) ==
    LET t == IF s.of[x].inline THEN s ELSE Free(s, s.of[x])
        fresh == [t EXCEPT !.of[x] = InPlace]
    IN  Written(Resized(fresh, x, Len(bytes)), x, 0, bytes)

Bytes(x) == Prefix(Data(buffers, buffers.of[x]), buffers.of[x].size)
Size(x) == buffers.of[x].size
Means(s, x, bytes) == [s EXCEPT !.meant[x] = bytes]

-----------------------------------------------------------------------------
Init == buffers = [of |-> [x \in Buffer |-> InPlace], heap |-> <<>>,
                   meant |-> [x \in Buffer |-> <<>>], freed |-> TRUE]

Pieces == BoundedSeq(Value, MaxPiece)

\* resize, get_bytes_for_writing
Resize(x, n) ==
    buffers' = Means(Resized(buffers, x, n), x,
                     Prefix(buffers.meant[x] \o Unwritten(MaxSize), n))
AppendPiece(x, bytes) ==
    /\ Size(x) + Len(bytes) <= MaxSize
    /\ buffers' = Means(Appended(buffers, x, bytes), x, buffers.meant[x] \o bytes)
\* StringBuilder::try_append
Build(x, bytes) ==
    /\ bytes # <<>> /\ Size(x) + Len(bytes) <= MaxSize
    /\ buffers' = Means(Appended(WillAppend(buffers, x, Len(bytes)), x, bytes), x,
                        buffers.meant[x] \o bytes)
Overwrite(x, at, bytes) ==
    /\ at + Len(bytes) <= Size(x)
    /\ buffers' = Means(Written(buffers, x, at, bytes), x, Overlaid(buffers.meant[x], at, bytes))
ZeroFill(x) ==
    LET zeroes == [i \in 1 .. Size(x) |-> 0]
    IN  buffers' = Means(Written(buffers, x, 0, zeroes), x, zeroes)
Clear(x) == buffers' = Means(Cleared(buffers, x), x, <<>>)
\* operator=(ByteBuffer const&), operator+=
Assign(x, y) ==
    LET s == IF Size(x) > Size(y) THEN Trim(buffers, x, Size(y), TRUE) ELSE Resized(buffers, x, Size(y))
    IN  x # y /\ buffers' = Means(Written(s, x, 0, Bytes(y)), x, buffers.meant[y])
\* b += b takes the position of its bytes before it grows: they are then read from the block that was freed,
\* or from under the pointer to the new one.
SourceLost(x, y) == x = y /\ Capacity(buffers.of[x]) < 2 * Size(x)
AppendBuffer(x, y) ==
    LET read(bytes) == IF SourceLost(x, y) THEN Unwritten(Size(y)) ELSE bytes
    IN  /\ Size(x) + Size(y) <= MaxSize
        /\ buffers' = Means(Appended(buffers, x, read(Bytes(y))), x, buffers.meant[x] \o read(buffers.meant[y]))
\* operator=(ByteBuffer&&)
Move(x, y) ==
    LET s == IF buffers.of[x].inline THEN buffers ELSE Free(buffers, buffers.of[x])
    IN  /\ x # y
        /\ buffers' = Means(Means([s EXCEPT !.of[x] = buffers.of[y],
                                            !.of[y] = MovedFrom(buffers.of[y])],
                                  x, buffers.meant[y]), y, <<>>)
\* x = y.slice(at, n)
Slice(x, y, at, n) ==
    /\ at + n <= Size(y)
    /\ buffers' = Means(Replaced(buffers, x, SubSeq(Bytes(y), at + 1, at + n)), x,
                        SubSeq(buffers.meant[y], at + 1, at + n))

Next ==
    \E x \in Buffer :
        \/ \E n \in 0 .. MaxSize : Resize(x, n)
        \/ \E bytes \in Pieces : AppendPiece(x, bytes) \/ Build(x, bytes)
        \/ \E at \in 0 .. MaxSize, bytes \in Pieces : Overwrite(x, at, bytes)
        \/ ZeroFill(x) \/ Clear(x)
        \/ \E y \in Buffer : Assign(x, y) \/ AppendBuffer(x, y) \/ Move(x, y)
        \/ \E y \in Buffer, at, n \in 0 .. MaxSize : Slice(x, y, at, n)
Spec == Init /\ [][Next]_buffers

-----------------------------------------------------------------------------
(* Properties                                                              *)

\* A buffer holds what was put in it, wherever its bytes have been moved to.  What was appended to itself and
\* made it grow is nothing that was put in it: ByteBuffer.h:228-231 reads it after its memory is gone.
HoldsBytes ==
    \A x \in Buffer :
        /\ Size(x) = Len(buffers.meant[x])
        /\ \A i \in 1 .. Size(x) : buffers.meant[x][i] \in {Unset, Bytes(x)[i]}
\* Not so of ByteBuffer.h:228-231: a buffer appended to itself holds its bytes twice.
AppendsItself ==
    [][\A x \in Buffer : AppendBuffer(x, x) => buffers'.meant[x] = buffers.meant[x] \o buffers.meant[x]]_buffers

\* Every block allocated has one buffer that will free it, with the size it was allocated
\* with, and every block freed had.
BlocksOwned ==
    LET outline == {x \in Buffer : ~buffers.of[x].inline}
    IN  /\ buffers.freed
        /\ \A k \in DOMAIN buffers.heap :
              Cardinality({x \in outline : buffers.of[x].block = k}) = 1
        /\ \A x \in outline : /\ buffers.of[x].block \in DOMAIN buffers.heap
                              /\ buffers.of[x].capacity = Len(buffers.heap[buffers.of[x].block])
=============================================================================
