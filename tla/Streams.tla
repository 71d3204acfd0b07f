------------------------------ MODULE Streams ------------------------------
(***************************************************************************)
(* AK/MemoryStream.h, BitStream.h, Buffered.h and Stream.h: bytes that go  *)
(* through chunks, through a byte taken apart into bits, and through a     *)
(* buffer.  A byte is its position among all that were there to be read,   *)
(* or were written; a bit is its position.  What an operation returns is   *)
(* `got`.  The width of a byte is a parameter: the code's has 8 bits.      *)
(* error is a stream's own, recoverable or fatal; below is the error of    *)
(* the memory stream that a bit stream reads or writes; handled says that  *)
(* an error was handled.                                                   *)
(***************************************************************************)
EXTENDS Integers, Sequences, SequencesExt

CONSTANTS ByteBits,
          Chunk,      \* chunk_size of a DuplexMemoryStream
          BufferSize, \* Size of a Buffered stream
          Source,     \* bytes there are to read
          Room,       \* bytes there is room for in an OutputMemoryStream
          MaxCount,   \* bound: bytes or bits of one operation
          MaxSent,    \* bound: bytes given to a writer
          Garbage     \* an uninitialised byte

VARIABLE stream

Lesser(a, b) == IF a < b THEN a ELSE b
Run(from, n) == [i \in 1 .. n |-> from + i - 1]
Counts == 0 .. MaxCount

Duplex == [kind |-> "duplex", chunks |-> <<>>, write |-> 0, read |-> 0, base |-> 0,
           got |-> <<>>, at |-> 0, error |-> FALSE]
BitReader(order) == [kind |-> order, offset |-> 0, next |-> -1, bit |-> 0, got |-> <<>>, at |-> 0,
                     error |-> FALSE, below |-> FALSE, handled |-> FALSE]
BitWriter == [kind |-> "bits out", out |-> <<>>, next |-> <<>>, written |-> 0,
              error |-> FALSE, below |-> FALSE, handled |-> FALSE, lost |-> FALSE]
BufferedReader == [kind |-> "buffered in", offset |-> 0, buffer |-> <<>>,
                   got |-> <<>>, at |-> 0, error |-> FALSE]
BufferedWriter == [kind |-> "buffered out", out |-> <<>>, buffer |-> <<>>, sent |-> 0,
                   error |-> FALSE, handled |-> FALSE, lost |-> FALSE]

\* handle_any_error; InputBitStream's handles the error below too, a buffered stream's error is the one below.
HandleError ==
    /\ stream.error \/ (stream.kind \in {"little", "big"} /\ stream.below)
    /\ stream' = CASE stream.kind \in {"little", "big"} ->
                       [stream EXCEPT !.error = FALSE, !.below = FALSE, !.handled = TRUE, !.got = <<>>]
                 [] stream.kind \in {"bits out", "buffered out"} -> [stream EXCEPT !.error = FALSE, !.handled = TRUE]
                 [] OTHER -> [stream EXCEPT !.error = FALSE]
\* handle_any_error of the memory stream under a bit stream
HandleBelow ==
    /\ stream.kind \in {"little", "big", "bits out"} /\ stream.below
    /\ stream' = [stream EXCEPT !.below = FALSE, !.handled = TRUE]

-----------------------------------------------------------------------------
(* DuplexMemoryStream                                                      *)

\* The chunk index and the offset in it of the nth byte that can be read.
RECURSIVE ReadFrom(_, _, _)
ReadFrom(d, n, count) ==
    IF n = count \/ d.read + n = d.write THEN <<>>
    ELSE <<d.chunks[((d.read - d.base + n) \div Chunk) + 1][((d.read + n) % Chunk) + 1]>>
             \o ReadFrom(d, n + 1, count)

\* try_discard_chunks
\* Mutant: the base stays.
BaseKept(d, n) == d.base
BaseAfter(d, n) == d.base + n * Chunk
Discarded(d) ==
    LET n == (d.read - d.base) \div Chunk
    IN  [d EXCEPT !.chunks = SubSeq(@, n + 1, Len(@)), !.base = BaseAfter(d, n)]

\* A chunk is appended whenever the write offset comes to a multiple of the chunk size.
RECURSIVE Written(_, _)
Written(d, count) ==
    LET c == IF d.write % Chunk = 0 THEN Append(d.chunks, [i \in 1 .. Chunk |-> Garbage]) ELSE d.chunks
    IN  IF count = 0 THEN d
        ELSE Written([d EXCEPT !.chunks = [c EXCEPT ![Len(c)][(d.write % Chunk) + 1] = d.write],
                               !.write = @ + 1], count - 1)
WriteDuplex(n) ==
    /\ stream.kind = "duplex" /\ stream.write + n <= Source
    /\ stream' = [Written(stream, n) EXCEPT !.got = <<>>]
DuplexRead(n) ==
    LET bytes == ReadFrom(stream, 0, n)
    IN  IF stream.error THEN [stream EXCEPT !.got = <<>>]
        ELSE [Discarded([stream EXCEPT !.read = @ + Len(bytes)]) EXCEPT !.got = bytes, !.at = stream.read]
ReadDuplex(n) == stream.kind = "duplex" /\ stream' = DuplexRead(n)
ReadDuplexOrError(n) ==
    /\ stream.kind = "duplex"
    /\ stream' = IF stream.write - stream.read < n THEN [stream EXCEPT !.error = TRUE, !.got = <<>>]
                 ELSE DuplexRead(n)
DiscardDuplex(n) ==
    /\ stream.kind = "duplex"
    /\ stream' = IF stream.write - stream.read < n THEN [stream EXCEPT !.error = TRUE, !.got = <<>>]
                 ELSE [Discarded([stream EXCEPT !.read = @ + n]) EXCEPT !.got = <<>>]

-----------------------------------------------------------------------------
(* InputBitStream over an InputMemoryStream                                *)

IsBitReader == stream.kind \in {"little", "big"}
Bits(kind, byte) ==
    [i \in 1 .. ByteBits |-> IF byte = Garbage THEN Garbage
                             ELSE byte * ByteBits + (IF kind = "little" THEN i - 1 ELSE ByteBits - i)]
Bit(s, i) == Bits(s.kind, s.next)[i + 1]
NoByte == -1

\* "m_stream >> m_next_byte": at the end it is set all the same, to an uninitialised byte.
Loaded(s) ==
    [s EXCEPT !.bit = 0,
              !.next = IF s.offset < Source THEN s.offset ELSE Garbage,
              !.below = @ \/ s.offset >= Source,
              !.offset = Lesser(@ + 1, Source)]

\* Mutant: the whole byte is taken wherever it has been read up to.
AnyByteWhole(s, left) == s.kind = "big" /\ left >= ByteBits
TakesWhole(s, left) == s.kind = "big" /\ left >= ByteBits /\ s.bit = 0

\* An error below is looked for before every bit; what was read before it is dropped.
RECURSIVE BitsRead(_, _)
BitsRead(s, left) ==
    IF left <= 0 THEN s
    ELSE IF s.below THEN [s EXCEPT !.error = TRUE, !.got = <<>>]
    ELSE IF s.next = NoByte THEN BitsRead(Loaded(s), left)
    ELSE IF TakesWhole(s, left)
    THEN BitsRead([s EXCEPT !.got = @ \o Bits(s.kind, s.next), !.next = NoByte], left - ByteBits)
    ELSE BitsRead([s EXCEPT !.got = Append(@, Bit(s, s.bit)), !.bit = @ + 1,
                            !.next = IF s.bit = ByteBits - 1 THEN NoByte ELSE @], left - 1)
\* How far the bits have been read, in the order of this stream.
Position(s) == IF s.next = NoByte THEN s.offset * ByteBits ELSE (s.offset - 1) * ByteBits + s.bit
ReadBits(n) ==
    IsBitReader /\ stream' = BitsRead([stream EXCEPT !.got = <<>>, !.at = Position(stream)], n)
AlignReader == IsBitReader /\ stream' = [stream EXCEPT !.next = NoByte, !.got = <<>>]

\* read: the byte begun is returned whole, with the bits of it that were read already.
Begun(n) == IF n >= 1 /\ stream.next # NoByte THEN 1 ELSE 0
BytesRead(n) ==
    LET more == IF stream.below THEN 0 ELSE Lesser(n - Begun(n), Source - stream.offset)
        bytes == (IF Begun(n) = 1 THEN <<stream.next>> ELSE <<>>) \o Run(stream.offset, more)
    IN  IF stream.error THEN [stream EXCEPT !.got = <<>>]
        ELSE [stream EXCEPT !.next = IF Begun(n) = 1 THEN NoByte ELSE @, !.offset = @ + more,
                            !.at = (stream.offset - Begun(n)) * ByteBits,
                            !.got = FlattenSeq([i \in DOMAIN bytes |-> Bits(stream.kind, bytes[i])])]
ReadBytes(n) == IsBitReader /\ stream' = BytesRead(n)
ReadBytesOrError(n) ==
    LET s == BytesRead(n)
    IN  IsBitReader /\ stream' = [s EXCEPT !.error = @ \/ Len(s.got) < n * ByteBits]
\* discard_or_error: the byte begun goes, whether or not there are enough to follow it.
DiscardBytes(n) ==
    LET rest == n - Begun(n)
        fails == Source - stream.offset < rest
    IN  /\ IsBitReader
        /\ stream' = [stream EXCEPT !.next = IF Begun(n) = 1 THEN NoByte ELSE @, !.got = <<>>,
                                    !.offset = IF fails THEN @ ELSE @ + rest, !.below = @ \/ fails]

-----------------------------------------------------------------------------
(* OutputBitStream over an OutputMemoryStream                              *)

\* write_or_error of bits: whole bytes, all or none of them
Put(s, bits) ==
    IF Len(s.out) + Len(bits) > Room * ByteBits THEN [s EXCEPT !.below = TRUE, !.lost = TRUE]
    ELSE [s EXCEPT !.out = @ \o bits]

\* write_bits: a byte begun is filled first; two bytes or one are written at once if they can.  Errors below
\* are looked for before every bit and pair of bytes, not before four whole ones nor after the last.
\* Mutant: the byte that was begun is thrown away.
BegunLost(s, left) == left >= ByteBits
Aligned(s, left) == s.next = <<>> /\ left >= ByteBits
RECURSIVE BitsWritten(_, _, _)
BitsWritten(s, at, left) ==
    LET k == IF left >= 2 * ByteBits THEN 2 * ByteBits ELSE ByteBits
        next == Append(s.next, at)
    IN  IF left = 0 THEN s
        ELSE IF s.below THEN [s EXCEPT !.error = TRUE, !.lost = TRUE]
        ELSE IF Aligned(s, left)
        THEN BitsWritten([Put(s, Run(at, k)) EXCEPT !.next = <<>>], at + k, left - k)
        ELSE BitsWritten(IF Len(next) = ByteBits THEN [Put(s, next) EXCEPT !.next = <<>>]
                         ELSE [s EXCEPT !.next = next], at + 1, left - 1)
Word == 4 * ByteBits
WriteBits(n) ==
    /\ stream.kind = "bits out" /\ stream.written + n <= MaxSent * ByteBits
    /\ stream' = [(IF n = Word /\ stream.next = <<>> THEN Put(stream, Run(stream.written, n))
                   ELSE BitsWritten(stream, stream.written, n)) EXCEPT !.written = @ + n]
\* align_to_byte_boundary: the rest of the byte is zeroes.
Padded(s) ==
    LET padding == (ByteBits - Len(s.next)) % ByteBits
        t == Put(s, s.next \o Run(s.written, padding))
        fails == Len(s.out) = Room * ByteBits
    IN  IF s.next = <<>> THEN s
        ELSE [t EXCEPT !.next = <<>>, !.written = @ + padding, !.error = @ \/ fails]
AlignWriter == stream.kind = "bits out" /\ stream' = Padded(stream)
\* write aligns first, and writes what there is room for; write_or_error.
BytesWritten(n) ==
    LET s == Padded(stream)
        k == Lesser(n * ByteBits, Room * ByteBits - Len(s.out))
    IN  IF stream.error THEN stream
        ELSE IF s.error THEN s
        ELSE [s EXCEPT !.out = @ \o Run(s.written, k), !.written = @ + k]
WriteBytes(n) ==
    /\ stream.kind = "bits out" /\ stream.written + (n + 1) * ByteBits <= MaxSent * ByteBits
    /\ LET s == BytesWritten(n)
           short == s.written - Padded(stream).written < n * ByteBits
       IN  stream' \in {s, [s EXCEPT !.error = @ \/ short]}

-----------------------------------------------------------------------------
(* Buffered streams                                                        *)

\* Buffered::read: from the buffer, then from the stream, then the buffer is filled again.
\* Mutant: the buffer is filled before the rest is read.
FilledFirst(s, n) ==
    LET m == Lesser(BufferSize, Source - s.offset)
        rest == Lesser(n, Source - (s.offset + m))
    IN  [s EXCEPT !.got = @ \o Run(s.offset + m, rest), !.buffer = Run(s.offset, m), !.offset = @ + m + rest]
RestRead(s, n) ==
    LET rest == Lesser(n, Source - s.offset)
        after == s.offset + rest
        m == Lesser(BufferSize, Source - after)
    IN  [s EXCEPT !.got = @ \o Run(s.offset, rest), !.buffer = Run(after, m), !.offset = after + m]
BufferedRead(s, n) ==
    LET k == Lesser(n, Len(s.buffer))
        t == [s EXCEPT !.at = @ + Len(s.got), !.got = SubSeq(s.buffer, 1, k),
                       !.buffer = SubSeq(s.buffer, k + 1, Len(s.buffer))]
    IN  IF s.error THEN [s EXCEPT !.at = @ + Len(s.got), !.got = <<>>]
        ELSE IF k < n THEN RestRead(t, n - k) ELSE t
BufferedReadOrError(s, n) ==
    LET t == BufferedRead(s, n) IN [t EXCEPT !.error = @ \/ Len(t.got) < n]
\* discard_or_error reads, a buffer at a time.
RECURSIVE BufferedDiscard(_, _)
BufferedDiscard(s, n) ==
    LET k == Lesser(n, BufferSize)
        t == BufferedReadOrError(s, k)
    IN  IF n = 0 THEN s ELSE IF t.error THEN t ELSE BufferedDiscard(t, n - k)
ReadBuffered(n) ==
    /\ stream.kind = "buffered in"
    /\ \/ stream' = BufferedRead(stream, n)
       \/ stream' = BufferedReadOrError(stream, n)
DiscardBuffered(n) == stream.kind = "buffered in" /\ stream' = BufferedDiscard(stream, n)
\* eof() fills an empty buffer.
AtEnd ==
    /\ stream.kind = "buffered in" /\ stream.buffer = <<>>
    /\ stream' = [(IF stream.error THEN stream ELSE RestRead(stream, 0)) EXCEPT !.at = @ + Len(stream.got), !.got = <<>>]

\* flush empties the buffer, written or not.
Flushed(s) ==
    LET fails == Len(s.out) + Len(s.buffer) > Room
    IN  [s EXCEPT !.out = IF fails THEN @ ELSE @ \o s.buffer, !.buffer = <<>>,
                  !.error = @ \/ fails, !.lost = @ \/ fails]
\* OutputMemoryStream::write writes what there is room for.
Direct(s, bytes) == [s EXCEPT !.out = @ \o SubSeq(bytes, 1, Lesser(Len(bytes), Room - Len(@)))]

\* Mutant: what was too much for the buffer is written, then the buffer.
DirectFirst(s, rest) == Flushed(Direct(s, rest))
FlushFirst(s, rest) == Direct(Flushed(s), rest)
RECURSIVE BufferedWrite(_, _)
BufferedWrite(s, bytes) ==
    LET k == Lesser(Len(bytes), BufferSize - Len(s.buffer))
        t == [s EXCEPT !.buffer = @ \o SubSeq(bytes, 1, k), !.sent = @ + k]
        rest == SubSeq(bytes, k + 1, Len(bytes))
        u == IF Len(rest) >= BufferSize THEN FlushFirst(t, rest) ELSE Flushed(t)
        direct == IF Len(rest) < BufferSize THEN 0
                  ELSE Lesser(Len(rest), Room - Len(Flushed(t).out))
    IN  IF s.error THEN s
        ELSE IF Len(t.buffer) < BufferSize THEN t
        ELSE BufferedWrite([u EXCEPT !.sent = @ + direct], SubSeq(rest, direct + 1, Len(rest)))
WriteBuffered(n) ==
    /\ stream.kind = "buffered out" /\ stream.sent + n <= MaxSent
    /\ stream' = BufferedWrite(stream, Run(stream.sent, n))
Flush == stream.kind = "buffered out" /\ stream' = Flushed(stream)

-----------------------------------------------------------------------------
Init == stream \in {Duplex, BitReader("little"), BitReader("big"), BitWriter,
                    BufferedReader, BufferedWriter}
Next ==
    \/ \E n \in Counts : \/ WriteDuplex(n) \/ ReadDuplex(n) \/ ReadDuplexOrError(n) \/ DiscardDuplex(n)
                         \/ ReadBits(n) \/ ReadBytes(n) \/ ReadBytesOrError(n) \/ DiscardBytes(n)
                         \/ WriteBits(n) \/ WriteBytes(n)
                         \/ ReadBuffered(n) \/ DiscardBuffered(n) \/ WriteBuffered(n)
    \/ AlignReader \/ AlignWriter \/ AtEnd \/ Flush
    \/ HandleError \/ HandleBelow
Spec == Init /\ [][Next]_stream

-----------------------------------------------------------------------------
(* Properties                                                              *)

\* What is read follows what was read before it, in order: none lost, none twice, whichever way the sizes of
\* the operations and of chunks, bytes and buffers fall together.  A byte that bits were read of is begun
\* again when whole bytes are read, and bits nobody wrote are read only of the byte that a read past the
\* end has left, once its error is handled (Stream.h:89-93).
InOrder(s) ==
    CASE s.kind \in {"duplex", "little", "buffered in"} -> s.got = Run(s.at, Len(s.got))
      [] s.kind = "big" ->
            \A i \in 1 .. Len(s.got) :
                LET p == s.at + i - 1
                IN  s.got[i] = (p \div ByteBits) * ByteBits + ByteBits - 1 - (p % ByteBits)
      [] OTHER -> TRUE
ReadsInOrder ==
    \/ InOrder(stream)
    \/ /\ IsBitReader /\ stream.handled /\ stream.offset = Source
       /\ Len(stream.got) <= ByteBits /\ \A i \in DOMAIN stream.got : stream.got[i] = Garbage
\* Not so of Stream.h:89-93: bits nobody wrote are never read.
NothingUninitialised == IsBitReader => \A i \in DOMAIN stream.got : stream.got[i] # Garbage

\* What is written is in what was written out, the byte or the buffer that is not full, in order and once;
\* it is lost only when an error said so.
Increasing(s) == \A i \in 1 .. Len(s) - 1 : s[i] < s[i + 1]
WritesInOrder ==
    /\ stream.kind = "bits out" =>
          /\ ~stream.lost => stream.out \o stream.next = Run(0, stream.written)
          /\ Increasing(stream.out \o stream.next)
          /\ stream.lost => stream.error \/ stream.below \/ stream.handled
    /\ stream.kind = "buffered out" =>
          /\ ~stream.lost => stream.out \o stream.buffer = Run(0, stream.sent)
          /\ Increasing(stream.out \o stream.buffer)
          /\ stream.lost => stream.error \/ stream.handled

\* A DuplexMemoryStream keeps the chunks that hold bytes to be read, and no others.
ChunksReleased ==
    stream.kind = "duplex" =>
        Len(stream.chunks) = (stream.write + Chunk - 1) \div Chunk - stream.read \div Chunk
=============================================================================
