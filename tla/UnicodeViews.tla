---------------------------- MODULE UnicodeViews ----------------------------
(***************************************************************************)
(* AK/UnicodeUtils.h, Utf8View.h/.cpp and Utf16View.h/.cpp: code points    *)
(* as bytes and as code units, and the views that step over them.  Bytes,  *)
(* code units and code points are their numbers; the strings tried are all *)
(* the short ones over a few of them.  An action is a call and its result. *)
(***************************************************************************)
EXTENDS Integers, Sequences, FiniteSets, SequencesExt

CONSTANTS CodePoint,  \* the code points that are encoded
          Byte,       \* the bytes the strings of a Utf8View are made of
          Unit,       \* the code units the strings of a Utf16View are made of
          MaxBytes, MaxUnits \* bounds: the lengths of the strings

VARIABLE call

Replacement == 65533        \* 0xFFFD
LastCodePoint == 1114111    \* 0x10FFFF
Supplementary == 65536
Bits(n, from, count) == (n \div 2 ^ from) % 2 ^ count
Rest(s, i) == SubSeq(s, i + 1, Len(s))

-----------------------------------------------------------------------------
(* UTF-8                                                                   *)

Continuation(c, from) == 128 + Bits(c, from, 6)
\* code_point_to_utf8.  Mutant: the two-byte form is taken up to where it would be full.
TwoBytesOver(c) ==
    CASE c <= 127 -> <<c>>
      [] c \in 128 .. 2048 -> <<192 + Bits(c, 6, 5), Continuation(c, 0)>>
      [] c \in 2049 .. 65535 -> <<224 + Bits(c, 12, 4), Continuation(c, 6), Continuation(c, 0)>>
      [] c \in 65536 .. LastCodePoint ->
            <<240 + Bits(c, 18, 3), Continuation(c, 12), Continuation(c, 6), Continuation(c, 0)>>
      [] OTHER -> <<>>
CodePointToUtf8(c) ==
    CASE c <= 127 -> <<c>>
      [] c \in 128 .. 2047 -> <<192 + Bits(c, 6, 5), Continuation(c, 0)>>
      [] c \in 2048 .. 65535 -> <<224 + Bits(c, 12, 4), Continuation(c, 6), Continuation(c, 0)>>
      [] c \in 65536 .. LastCodePoint ->
            <<240 + Bits(c, 18, 3), Continuation(c, 12), Continuation(c, 6), Continuation(c, 0)>>
      [] OTHER -> <<>>
\* StringBuilder::append_code_point
AppendCodePoint(c) == IF c > LastCodePoint THEN <<239, 191, 189>> ELSE CodePointToUtf8(c)

\* decode_first_byte: the length, or 0 where the byte makes no sense, and the value.
DecodeFirstByte(b) ==
    CASE b < 128 -> <<1, b>>
      [] b \in 192 .. 223 -> <<2, b % 32>>
      [] b \in 224 .. 239 -> <<3, b % 16>>
      [] b \in 240 .. 247 -> <<4, b % 8>>
      [] OTHER -> <<0, 0>>
Continues(b) == b \div 64 = 2
Value(s, length) == FoldLeft(LAMBDA v, b : v * 64 + (b % 64), DecodeFirstByte(s[1])[2], SubSeq(s, 2, length))

\* underlying_code_point_length_in_bytes and operator* of an iterator at the head of s.
\* Mutant: how much there is left is not looked at.
WholeOrNot(s) ==
    LET n == DecodeFirstByte(s[1])[1]
    IN  n # 0 /\ \A i \in 2 .. n : i > Len(s) \/ Continues(s[i])
WellFormedHead(s) ==
    LET n == DecodeFirstByte(s[1])[1]
    IN  n # 0 /\ n <= Len(s) /\ \A i \in 2 .. n : Continues(s[i])
UnderlyingLength(s) == IF WellFormedHead(s) THEN DecodeFirstByte(s[1])[1] ELSE 1
Deref(s) == IF WellFormedHead(s) THEN Value(s, DecodeFirstByte(s[1])[1]) ELSE Replacement
\* operator++ moves by one byte, whatever the length of the code point.
Iterated(s) == [i \in 1 .. Len(s) |-> Deref(Rest(s, i - 1))]

\* validate: whether all of s is well formed, and how many bytes of it are.
RECURSIVE Validate(_, _)
Validate(s, valid) ==
    LET n == DecodeFirstByte(s[1])[1]
    IN  IF s = <<>> THEN [valid |-> TRUE, bytes |-> valid]
        ELSE IF ~WellFormedHead(s) \/ Value(s, n) > LastCodePoint THEN [valid |-> FALSE, bytes |-> valid]
        ELSE Validate(Rest(s, n), valid + n)

-----------------------------------------------------------------------------
(* UTF-16                                                                  *)

IsHigh(u) == u \in 55296 .. 56319
IsLow(u) == u \in 56320 .. 57343
CodePointToUtf16(c) ==
    IF c < Supplementary THEN <<c>>
    ELSE <<55296 + (c - Supplementary) \div 1024, 56320 + ((c - Supplementary) % 1024)>>
DecodePair(high, low) == (high - 55296) * 1024 + (low - 56320) + Supplementary
\* length_in_code_units, operator* and operator++ at the head of u.
\* Mutant: what follows a high surrogate is taken whatever it is.
AnyPair(u) == IsHigh(u[1]) /\ Len(u) > 1
PairAhead(u) == IsHigh(u[1]) /\ Len(u) > 1 /\ IsLow(u[2])
UnitsOf(u) == IF PairAhead(u) THEN 2 ELSE 1
Deref16(u) == IF PairAhead(u) THEN DecodePair(u[1], u[2])
              ELSE IF IsHigh(u[1]) \/ IsLow(u[1]) THEN Replacement ELSE u[1]
RECURSIVE Iterated16(_), Utf8OfUnits(_)
Iterated16(u) == IF u = <<>> THEN <<>> ELSE <<Deref16(u)>> \o Iterated16(Rest(u, UnitsOf(u)))
\* to_utf8 that allows invalid code units; StringBuilder's append of a view does the same by
\* code_point_at.
CodePointAt(u) == IF PairAhead(u) THEN DecodePair(u[1], u[2]) ELSE u[1]
Utf8OfUnits(u) ==
    IF u = <<>> THEN <<>>
    ELSE AppendCodePoint(CodePointAt(u))
           \o Utf8OfUnits(Rest(u, IF CodePointAt(u) >= Supplementary THEN 2 ELSE 1))
ToUtf8(u) == FlattenSeq([i \in 1 .. Len(Iterated16(u)) |-> AppendCodePoint(Iterated16(u)[i])])

RECURSIVE CodePointOffsetOf(_, _), CodeUnitOffsetOf(_, _), Validate16(_, _)
\* The offset, which is not signed, wraps when it falls within a pair: the end is reached.
CodePointOffsetOf(u, offset) ==
    IF u = <<>> \/ offset = 0 THEN 0
    ELSE 1 + CodePointOffsetOf(Rest(u, UnitsOf(u)), IF UnitsOf(u) > offset THEN MaxUnits + 1 ELSE offset - UnitsOf(u))
CodeUnitOffsetOf(u, offset) ==
    IF u = <<>> \/ offset = 0 THEN 0 ELSE UnitsOf(u) + CodeUnitOffsetOf(Rest(u, UnitsOf(u)), offset - 1)
Validate16(u, valid) ==
    IF u = <<>> THEN [valid |-> TRUE, units |-> valid]
    ELSE IF PairAhead(u) THEN Validate16(Rest(u, 2), valid + 2)
    ELSE IF IsHigh(u[1]) \/ IsLow(u[1]) THEN [valid |-> FALSE, units |-> valid]
    ELSE Validate16(Rest(u, 1), valid + 1)
UnicodeSubstring(u, from, count) ==
    SubSeq(u, CodeUnitOffsetOf(u, from) + 1, CodeUnitOffsetOf(u, from + count))

-----------------------------------------------------------------------------
Idle == [op |-> "none"]
Init == call = Idle
Encode ==
    \E c, d \in CodePoint :
        LET bytes == AppendCodePoint(c) \o AppendCodePoint(d)
        IN  call' = [op |-> "encode", points |-> <<c, d>>, bytes |-> bytes,
                     head |-> Deref(bytes), length |-> UnderlyingLength(bytes),
                     valid |-> Validate(bytes, 0),
                     units |-> IF c > LastCodePoint \/ d > LastCodePoint THEN <<>>
                               ELSE CodePointToUtf16(c) \o CodePointToUtf16(d)]
View8 ==
    \E s \in BoundedSeq(Byte, MaxBytes) :
        call' = [op |-> "utf8", string |-> s, points |-> Iterated(s), valid |-> Validate(s, 0),
                 lengths |-> [i \in 1 .. Len(s) |-> UnderlyingLength(Rest(s, i - 1))]]
View16 ==
    \E u \in BoundedSeq(Unit, MaxUnits) :
        call' = [op |-> "utf16", string |-> u, points |-> Iterated16(u), valid |-> Validate16(u, 0),
                 utf8 |-> ToUtf8(u), invalid |-> Utf8OfUnits(u),
                 units |-> [i \in 0 .. Len(Iterated16(u)) |-> CodeUnitOffsetOf(u, i)],
                 offsets |-> [i \in 0 .. Len(u) |-> CodePointOffsetOf(u, i)],
                 halves |-> [i \in 0 .. Len(Iterated16(u)) |->
                               UnicodeSubstring(u, 0, i) \o UnicodeSubstring(u, i, Len(Iterated16(u)) - i)]]
Next == call = Idle /\ (Encode \/ View8 \/ View16)
Spec == Init /\ [][Next]_call

-----------------------------------------------------------------------------
(* Properties                                                              *)

\* What a code point was encoded as, as bytes or as code units, decodes to it, takes as much
\* as it took and is valid; encodings that follow each other do not mix.
RoundTrips ==
    call.op = "encode" =>
        LET c == call.points[1]
            seen == [i \in 1 .. 2 |-> IF call.points[i] > LastCodePoint THEN Replacement ELSE call.points[i]]
        IN  /\ call.head = seen[1] /\ call.length = Len(AppendCodePoint(c))
            /\ call.valid = [valid |-> TRUE, bytes |-> Len(call.bytes)]
            /\ \A i \in 1 .. 2 : Len(AppendCodePoint(seen[i])) =
                  CHOOSE n \in 1 .. 4 : seen[i] < <<128, 2048, 65536, 1114112>>[n]
                                        /\ (n > 1 => seen[i] >= <<128, 2048, 65536>>[n - 1])
            /\ call.units # <<>> /\ {c, call.points[2]} \cap 55296 .. 57343 = {} =>
                  Iterated16(call.units) = call.points

\* A string is valid exactly if it is a row of whole code points, and the bytes counted as
\* valid are the ones before the first that is not; no iterator looks past the end.
RECURSIVE WholeFrom(_, _)
WholeFrom(s, i) == \* the offsets at which a row of whole code points from i can be cut
    {i} \cup UNION {WholeFrom(s, i + n) : n \in {m \in 1 .. 4 :
        /\ i + m <= Len(s) /\ DecodeFirstByte(s[i + 1])[1] = m
        /\ \A j \in i + 2 .. i + m : s[j] \in 128 .. 191
        /\ Value(Rest(s, i), m) <= LastCodePoint}}
ValidityExact ==
    /\ call.op = "utf8" =>
          LET cuts == WholeFrom(call.string, 0)
          IN  /\ call.valid.valid = (Len(call.string) \in cuts)
              /\ call.valid.bytes \in cuts /\ \A k \in cuts : k <= call.valid.bytes
              /\ \A i \in DOMAIN call.lengths : i - 1 + call.lengths[i] <= Len(call.string)
              /\ \A i \in DOMAIN call.points : i - 1 \in cuts /\ i - 1 < call.valid.bytes =>
                    i - 1 + call.lengths[i] \in cuts
    /\ call.op = "utf16" =>
          LET u == call.string
              lone == {i \in DOMAIN u : \/ IsHigh(u[i]) /\ ~(i < Len(u) /\ IsLow(u[i + 1]))
                                        \/ IsLow(u[i]) /\ ~(i > 1 /\ IsHigh(u[i - 1]))}
          IN  /\ call.valid.valid = (lone = {})
              /\ lone # {} => call.valid.units = (CHOOSE i \in lone : \A j \in lone : i <= j) - 1

\* Offsets in code points and in code units are each other's inverses, and a view cut at a
\* code point is whole again when put together; a valid view is the same by either way to
\* UTF-8.
OffsetsAgree ==
    call.op = "utf16" =>
        /\ \A i \in DOMAIN call.units : /\ call.offsets[call.units[i]] = i
                                        /\ call.halves[i] = call.string
        /\ call.valid.valid => call.utf8 = call.invalid
        /\ Len(call.string) = Len(call.points) + Cardinality({i \in DOMAIN call.points : call.points[i] >= Supplementary})

\* Utf8View.cpp:190: only a code point too long for what is left is moved over "one byte"; the
\* others are moved over whole, and a valid string iterates to its code points.
IteratesCodePoints ==
    call.op = "utf8" /\ call.valid.valid =>
        Len(call.points) = Cardinality(WholeFrom(call.string, 0)) - 1
=============================================================================
