------------------------------- MODULE Bitmaps -------------------------------
(***************************************************************************)
(* AK/BitmapView.h and AK/Bitmap.h: a bitmap searched and written by words *)
(* and bytes where it can be.  The data starts on a word, as Bitmap        *)
(* allocates it.  The widths are parameters: the code's byte has 8 bits    *)
(* and its word 8 bytes.                                                   *)
(***************************************************************************)
EXTENDS Integers, FiniteSets

CONSTANTS ByteBits, WordBytes,
          MaxBits     \* bound: the size of a bitmap

W == ByteBits * WordBytes
Least(S) == CHOOSE i \in S : \A j \in S : i <= j
Lesser(a, b) == IF a < b THEN a ELSE b
None == [found |-> FALSE, start |-> 0, length |-> 0]
Found(start, length) == [found |-> TRUE, start |-> start, length |-> length]

VARIABLE bitmap \* m_size, the set bits of m_data, which is whole bytes

Bytes(size) == (size + ByteBits - 1) \div ByteBits
Data(size) == 0 .. Bytes(size) * ByteBits - 1
Set(b, i) == i \in b.bits

-----------------------------------------------------------------------------
(* Counting and writing: first byte, bytes between, last byte              *)

\* bitmask_first_byte and bitmask_last_byte
InFirst(i, start) == i \div ByteBits = start \div ByteBits /\ i >= start
InLast(i, end) == i \div ByteBits = end \div ByteBits /\ i % ByteBits < end % ByteBits
Between(i, start, end) == start \div ByteBits < i \div ByteBits /\ i \div ByteBits < end \div ByteBits

\* Mutant: the bits of the last byte are not counted.
WithoutLast(b, start, len) ==
    {i \in Data(b.size) : InFirst(i, start) \/ Between(i, start, start + len)}
CountedBits(b, start, len) ==
    LET end == start + len
    IN  {i \in Data(b.size) :
            IF start \div ByteBits = end \div ByteBits THEN InFirst(i, start) /\ InLast(i, end)
            ELSE InFirst(i, start) \/ InLast(i, end) \/ Between(i, start, end)}
CountInRange(b, start, len, value) ==
    LET n == Cardinality({i \in CountedBits(b, start, len) : Set(b, i)})
    IN  IF len = 0 THEN 0 ELSE IF value THEN n ELSE len - n

\* set_range: within one byte the last mask is of (len + len), not (start + len).
\* Mutant: the whole bytes stay as they were.
EndsOnly(b, start, len) ==
    {i \in Data(b.size) : InFirst(i, start) \/ InLast(i, start + len)}
WrittenBits(b, start, len) ==
    LET end == start + len
    IN  {i \in Data(b.size) :
            IF start \div ByteBits = end \div ByteBits
            THEN InFirst(i, start) /\ i % ByteBits < (len + len) % ByteBits
            ELSE InFirst(i, start) \/ InLast(i, end) \/ Between(i, start, end)}

-----------------------------------------------------------------------------
(* Searching                                                               *)

Word(i) == i \div W
Byte(i) == i \div ByteBits

\* find_first: only whole bytes are looked at.
FindFirst(b, value) ==
    LET whole == {i \in Data(b.size) : Byte(i) < b.size \div ByteBits /\ Set(b, i) = value}
    IN  IF whole = {} THEN None ELSE Found(Least(whole), 1)

\* find_one_anywhere: words from the hint's on, then the whole bytes that are left; and
\* once more from the start if the hint was beyond the first byte.
FindOneAnywhere(b, value, hint) ==
    LET all == {i \in Data(b.size) : Byte(i) < b.size \div ByteBits /\ Set(b, i) = value}
        WholeWords(end) == {i \in all : Word(i) < (end * ByteBits) \div W}
        \* from the word `from` to the byte `end`, then the bytes after its words
        Pass(from, end) ==
            LET words == {i \in WholeWords(end) : Word(i) >= from}
                rest == {i \in all : Byte(i) >= WordBytes * ((end * ByteBits) \div W)}
            IN  IF words # {} THEN words ELSE rest
        first == Pass(Word(hint), b.size \div ByteBits)
        second == IF hint <= ByteBits THEN {} ELSE Pass(0, WordBytes * Word(hint))
    IN  IF first # {} THEN Found(Least(first), 1)
        ELSE IF second # {} THEN Found(Least(second), 1) ELSE None

\* find_next_range_of_unset_bits: `run` unset bits up to here, the first of them at `start`.
RECURSIVE InBucket(_, _, _, _, _, _, _), Trailing(_, _, _, _, _, _), Buckets(_, _, _, _, _, _, _)

\* The bits of a word that is neither full nor empty, from the one viewed on.
InBucket(b, k, viewed, start, run, min, max) ==
    LET left == {i \in k * W + viewed .. k * W + W - 1 : Set(b, i)}
        from == IF run = 0 THEN k * W + viewed ELSE start
        zeroes == Least(left) - (k * W + viewed)
        unset == {i \in Least(left) .. k * W + W - 1 : ~Set(b, i)}
    IN  IF viewed >= W THEN Buckets(b, k + 1, 0, start, run, min, max)
        ELSE IF left = {} THEN Buckets(b, k + 1, 0, from, run + W - viewed, min, max)
        ELSE IF run + zeroes >= min THEN Found(from, Lesser(run + zeroes, max))
        ELSE InBucket(b, k, (IF unset = {} THEN W ELSE Least(unset) - k * W), from, 0, min, max)

Trailing(b, i, start, run, min, max) ==
    IF i = b.size THEN None
    ELSE IF Set(b, i) THEN Trailing(b, i + 1, start, 0, min, max)
    ELSE LET from == IF run = 0 THEN i ELSE start
         IN  IF run + 1 >= min THEN Found(from, Lesser(run + 1, max))
             ELSE Trailing(b, i + 1, from, run + 1, min, max)

\* Mutant: a full word does not end the run before it.
RunKept(run) == run
RunAfterFullWord(run) == 0

Buckets(b, k, viewed, start, run, min, max) ==
    LET ones == {i \in k * W .. k * W + W - 1 : Set(b, i)}
        from == IF run = 0 THEN k * W ELSE start
    IN  IF k >= b.size \div W
        THEN IF run < min THEN Trailing(b, (b.size \div W) * W, start, run, min, max)
             ELSE Found(start, Lesser(run, max))
        ELSE IF Cardinality(ones) = W
        THEN IF run >= min THEN Found(start, Lesser(run, max))
             ELSE Buckets(b, k + 1, 0, start, RunAfterFullWord(run), min, max)
        ELSE IF ones = {}
        THEN IF run + W >= max THEN Found(from, max)
             ELSE Buckets(b, k + 1, 0, from, run + W, min, max)
        ELSE InBucket(b, k, viewed, start, run, min, max)

FindNextRange(b, from, min, max) ==
    IF min > max THEN None ELSE Buckets(b, from \div W, from % W, from, 0, min, max)

RECURSIVE LongestFrom(_, _, _, _)
LongestFrom(b, max, from, best) ==
    LET r == FindNextRange(b, from, best.length + 1, max)
    IN  IF r.found THEN LongestFrom(b, max, r.start + r.length, r) ELSE best
FindLongest(b, max) == LongestFrom(b, max, 0, None)
FindFirstFit(b, min) == FindNextRange(b, 0, min, min)

-----------------------------------------------------------------------------
(* Operations                                                              *)

Fill(size, value) == IF value THEN Data(size) ELSE {}
Init ==
    \E size \in 1 .. MaxBits, value \in BOOLEAN :
        bitmap = [size |-> size, bits |-> Fill(size, value)]

BitsAfter(b, start, len, value) ==
    IF len = 0 THEN b.bits
    ELSE IF value THEN b.bits \union WrittenBits(b, start, len)
    ELSE b.bits \ WrittenBits(b, start, len)
SetRange(start, len, value) ==
    /\ start < bitmap.size /\ start + len <= bitmap.size
    /\ bitmap' = [bitmap EXCEPT !.bits = BitsAfter(bitmap, start, len, value)]
Next == \E start \in 0 .. MaxBits - 1, len \in 0 .. MaxBits, value \in BOOLEAN :
            SetRange(start, len, value)
Spec == Init /\ [][Next]_bitmap

-----------------------------------------------------------------------------
(* Properties                                                              *)

\* A range that reaches into another byte is written, and nothing else is; within one byte
\* no bit outside the range changes at its front, and nothing in another byte.
RangesWritten ==
    \A start \in 0 .. bitmap.size - 1, value \in BOOLEAN : \A end \in start + 1 .. bitmap.size :
        LET after == BitsAfter(bitmap, start, end - start, value)
            range == start .. end - 1
        IN  IF Byte(start) = Byte(end)
            THEN \A i \in Data(bitmap.size) :
                    i < start \/ Byte(i) # Byte(start) => (i \in after <=> Set(bitmap, i))
            ELSE after = IF value THEN bitmap.bits \union range ELSE bitmap.bits \ range

Unset(i, n) == \A j \in i .. i + n - 1 : j < bitmap.size /\ ~Set(bitmap, j)

\* Counting by bytes counts the bits of the range.
CountsBits ==
    \A start \in 0 .. bitmap.size - 1 : \A len \in 0 .. bitmap.size - 1 - start :
        CountInRange(bitmap, start, len, TRUE)
            = Cardinality({i \in start .. start + len - 1 : Set(bitmap, i)})

\* A search for a range finds unset bits, between min and max of them, and finds nothing
\* only if there are not that many together; the first fit is the first, and no longer range
\* than the longest lies in the whole words (bits after them do not lengthen one).
RangesFound ==
    /\ \A min, max \in 1 .. bitmap.size :
          LET r == FindNextRange(bitmap, 0, min, max)
          IN  min <= max =>
              IF r.found THEN Unset(r.start, r.length) /\ min <= r.length /\ r.length <= max
              ELSE \A i \in 0 .. bitmap.size - 1 : ~Unset(i, min)
    /\ \A min \in 1 .. bitmap.size :
          LET r == FindFirstFit(bitmap, min)
          IN  r.found => \A i \in 0 .. r.start - 1 : ~Unset(i, min)
    /\ LET r == FindLongest(bitmap, MaxBits)
       IN  \A i \in 0 .. (bitmap.size \div W) * W - r.length - 1 : ~Unset(i, r.length + 1)

\* Of the whole bytes, a bit with the value is found from any hint, if there is one.
OneFound ==
    \A value \in BOOLEAN :
        LET whole == 0 .. (bitmap.size \div ByteBits) * ByteBits - 1
            some == {i \in whole : Set(bitmap, i) = value}
        IN  /\ FindFirst(bitmap, value) = IF some = {} THEN None ELSE Found(Least(some), 1)
            /\ \A hint \in 0 .. bitmap.size - 1 :
                  LET r == FindOneAnywhere(bitmap, value, hint)
                  IN  IF r.found THEN r.start \in some ELSE some = {}
=============================================================================
