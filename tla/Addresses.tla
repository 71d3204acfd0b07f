----------------------------- MODULE Addresses -----------------------------
(***************************************************************************)
(* AK/IPv4Address, IPv6Address, MACAddress, UUID, Hex, Base64 and Endian:  *)
(* bytes that are written as text and text that becomes bytes.  A text is  *)
(* a sequence of characters: 0 .. 15 the hexadecimal digits, the others    *)
(* negative.  A Base64 character carries 3 * Unit bits and a byte 4 * Unit *)
(* there (the code's Unit is 2).  An action is a call with its result.     *)
(***************************************************************************)
EXTENDS Integers, Sequences, FiniteSets, SequencesExt, FiniteSetsExt

CONSTANTS Group,   \* values of an IPv6 group
          Octet,   \* octets of the other addresses
          MaxParts, \* bound: the parts of a text with arbitrary ones
          Unit,    \* a third of the bits of a Base64 character
          MaxBytes, \* bound: bytes of a Base64 text
          Garbage  \* what is read behind the end of a buffer

VARIABLE call

Colon == -1
Dot == -2
Blank == -3
Dash == -4
Pad == -5
Other == -6
Nothing == <<>> \* an empty Optional, or an Error

-----------------------------------------------------------------------------
(* Parts                                                                   *)

Find(s, c) == {i \in DOMAIN s : s[i] = c}
RECURSIVE SplitKeeping(_, _)
SplitKeeping(s, c) ==
    LET i == Min(Find(s, c))
    IN  IF Find(s, c) = {} THEN <<s>> ELSE <<SubSeq(s, 1, i - 1)>> \o SplitKeeping(SubSeq(s, i + 1, Len(s)), c)
\* split_view: empty parts are kept on request.
Split(s, c, keep) == SelectSeq(SplitKeeping(s, c), LAMBDA part : keep \/ part # <<>>)
Joined(parts, c) == IF parts = <<>> THEN <<>> ELSE Tail(FlattenSeq([i \in DOMAIN parts |-> <<c>> \o parts[i]]))
\* StringUtils::trim of both sides: on the right it takes off what is not blank, down to the
\* first character, so a number keeps its first digit.
RECURSIVE RightLength(_, _, _)
RightLength(s, i, length) == IF i = 0 \/ length = 0 \/ s[i + 1] = Blank THEN length ELSE RightLength(s, i - 1, length - 1)
Trimmed(s) ==
    LET solid == {i \in DOMAIN s : s[i] # Blank}
        start == IF solid = {} THEN Len(s) ELSE Min(solid) - 1
    IN  SubSeq(s, start + 1, start + RightLength(s, Len(s) - 1, Len(s) - start))
\* to_uint and convert_to_uint_from_hex, or `otherwise` where they give nothing
Number(s, base, otherwise) ==
    LET t == Trimmed(s)
    IN  IF t = <<>> \/ ~(ToSet(t) \subseteq 0 .. base - 1) THEN otherwise ELSE FoldLeft(LAMBDA n, d : n * base + d, 0, t)
RECURSIVE Digits(_, _)
Digits(n, base) == (IF n < base THEN <<>> ELSE Digits(n \div base, base)) \o <<n % base>>

-----------------------------------------------------------------------------
(* IPv4 and MAC addresses                                                  *)

\* Where each part goes: one is the last octet, two are the first two, three all but the third.
Place == <<<<4>>, <<1, 2>>, <<1, 2, 4>>, <<1, 2, 3, 4>>>>
IPv4FromString(s) ==
    LET parts == Split(s, Dot, FALSE)
        octet == [i \in 1 .. 4 |-> LET at == {k \in DOMAIN parts : Place[Len(parts)][k] = i}
                                   IN  IF at = {} THEN 0 ELSE Number(parts[Min(at)], 10, 256)]
    IN  IF Len(parts) \notin 1 .. 4 \/ \E i \in 1 .. 4 : octet[i] > 255 THEN Nothing ELSE octet
IPv4ToString(a) == Joined([i \in 1 .. 4 |-> Digits(a[i], 10)], Dot)
ToStringReversed(a) == IPv4ToString(Reverse(a))
\* netmask_from_cidr, octet by octet.  Mutant: one bit too many.
OneMore(cidr, i) == LET bits == cidr + 1 - 8 * (i - 1) IN IF bits >= 8 THEN 255 ELSE IF bits <= 0 THEN 0 ELSE 256 - 2 ^ (8 - bits)
MaskOctet(cidr, i) == LET bits == cidr - 8 * (i - 1) IN IF bits >= 8 THEN 255 ELSE IF bits <= 0 THEN 0 ELSE 256 - 2 ^ (8 - bits)
NetmaskFromCidr(cidr) == [i \in 1 .. 4 |-> MaskOctet(cidr, i)]

MacFromString(s) ==
    LET parts == Split(s, Colon, FALSE)
        octet == [i \in 1 .. 6 |-> Number(parts[i], 16, 256)]
    IN  IF Len(parts) # 6 \/ (\E i \in 1 .. 6 : octet[i] > 255) THEN Nothing ELSE octet

-----------------------------------------------------------------------------
(* IPv6 addresses: eight groups                                            *)

Zeros(a, i) == IF i > 8 \/ a[i] # 0 THEN 0 ELSE LET end == {j \in i .. 8 : a[j] # 0} IN (IF end = {} THEN 9 ELSE Min(end)) - i
\* The span of zeros to compress: its length is compared with where the best one starts.
RECURSIVE Span(_, _, _)
Span(a, i, best) == \* best: <<start, length>>, the start counted from 0, or <<>>
    LET zeros == Zeros(a, i)
    IN  IF i > 8 THEN best
        ELSE IF zeros = 0 THEN Span(a, i + 1, best)
        ELSE Span(a, i + zeros, IF best = <<>> \/ best[1] < zeros THEN <<i - 1, zeros>> ELSE best)
IsIPv4Mapped(a) == a[6] = 65535 /\ \A i \in 1 .. 5 : a[i] = 0
Octets(a) == <<a[7] \div 256, a[7] % 256, a[8] \div 256, a[8] % 256>>
FromIPv4(o) == <<0, 0, 0, 0, 0, 65535, o[1] * 256 + o[2], o[3] * 256 + o[4]>>
ColonsOf(start, length) == IF start + length >= 8 THEN <<Colon, Colon>> ELSE <<Colon>>
RECURSIVE Groups(_, _, _)
Groups(a, i, span) ==
    IF i > 8 THEN <<>>
    ELSE IF span # <<>> /\ span[1] = i - 1 THEN ColonsOf(span[1], span[2]) \o Groups(a, i + span[2], span)
    ELSE (IF i = 1 THEN <<>> ELSE <<Colon>>) \o Digits(a[i], 16) \o Groups(a, i + 1, span)
IPv6ToString(a) ==
    IF IsIPv4Mapped(a) THEN <<Colon, Colon, 15, 15, 15, 15, Colon>> \o IPv4ToString(Octets(a))
    ELSE Groups(a, 1, Span(a, 1, <<>>))

IsIPv4Prefix(parts) ==
    /\ Number(parts[Len(parts) - 1], 16, -1) = 65535
    /\ \A i \in 1 .. Len(parts) - 2 : Trimmed(parts[i]) # <<>> => Number(parts[i], 16, -1) = 0
IsEmpty(parts, i) == Trimmed(parts[i]) = <<>>
\* The loop over the parts: r is the address so far, the next group, and how many there were.
\* Mutant: two compressions are taken.
NeverTwice(r) == FALSE
AlreadyCompressed(r) == r.compressed
RECURSIVE FromParts(_, _, _)
FromParts(parts, i, r) ==
    LET solid == {j \in i .. Len(parts) : ~IsEmpty(parts, j)}
        empty == (IF solid = {} THEN Len(parts) + 1 ELSE Min(solid)) - i
        leading == i = 1
        trailing == solid = {} /\ empty > 1
        group == 8 - (Len(parts) - empty - r.have)
        value == Number(parts[i], 16, 65536)
    IN  IF i > Len(parts) THEN r.address
        ELSE IF empty > 0 THEN
            IF AlreadyCompressed(r) THEN Nothing
            ELSE IF leading /\ trailing THEN IF empty > 3 THEN Nothing ELSE [k \in 1 .. 8 |-> 0]
            ELSE IF empty > (IF leading \/ trailing THEN 2 ELSE 1) THEN Nothing
            ELSE IF group < 0 THEN <<"halted">>
            ELSE FromParts(parts, i + empty, [r EXCEPT !.compressed = TRUE, !.group = group])
        ELSE IF value > 65535 \/ r.have = 8 THEN Nothing
        ELSE IF r.group >= 8 THEN <<"halted">>
        ELSE FromParts(parts, i + 1, [r EXCEPT !.have = @ + 1, !.group = @ + 1, !.address[r.group + 1] = value])
IPv6FromString(s) ==
    LET parts == Split(s, Colon, TRUE)
        v4 == IPv4FromString(parts[Len(parts)])
        none == [address |-> [k \in 1 .. 8 |-> 0], group |-> 0, have |-> 0, compressed |-> FALSE]
    IN  IF Len(parts) > 9 THEN Nothing
        ELSE IF Len(parts) >= 4 /\ Dot \in ToSet(parts[Len(parts)]) /\ IsIPv4Prefix(parts)
             THEN IF v4 = Nothing THEN Nothing ELSE FromIPv4(v4)
        ELSE FromParts(parts, 1, none)

-----------------------------------------------------------------------------
(* Hex, UUIDs and byte order                                               *)

EncodeHex(bytes) == FlattenSeq([i \in DOMAIN bytes |-> <<bytes[i] \div 16, bytes[i] % 16>>])
DecodeHex(s) ==
    IF Len(s) % 2 # 0 \/ ~(ToSet(s) \subseteq 0 .. 15) THEN Nothing
    ELSE <<[i \in 1 .. Len(s) \div 2 |-> s[2 * i - 1] * 16 + s[2 * i]]>>
\* The five units of a UUID's text
UnitOf(s, from, length) == DecodeHex(SubSeq(s, from + 1, from + length))[1]
Units(s) == <<UnitOf(s, 0, 8), UnitOf(s, 9, 4), UnitOf(s, 14, 4), UnitOf(s, 19, 4), UnitOf(s, 24, 12)>>
LittleEndianUuid(s) == FlattenSeq(Units(s))
\* The last six bytes come from the first unit, which has four.
\* Mutant: the first unit is not turned round.
AsWritten(unit) == unit
TurnedRound(unit) == Reverse(unit)
MixedEndianUuid(s) ==
    LET u == Units(s) IN TurnedRound(u[1]) \o Reverse(u[2]) \o Reverse(u[3]) \o u[4] \o u[1] \o <<Garbage, Garbage>>
\* The constructor: the little-endian one is never made.
Uuid(s, endianness) == MixedEndianUuid(s)
UuidToString(bytes) ==
    Joined(<<EncodeHex(SubSeq(bytes, 1, 4)), EncodeHex(SubSeq(bytes, 5, 6)), EncodeHex(SubSeq(bytes, 7, 8)),
             EncodeHex(SubSeq(bytes, 9, 10)), EncodeHex(SubSeq(bytes, 11, 16))>>, Dash)
\* A value's bytes in memory, the lowest first; BigEndian holds it the other way round.
InMemory(n, size) == [i \in 1 .. size |-> (n \div 256 ^ (i - 1)) % 256]
FromMemory(bytes) == FoldRight(LAMBDA b, n : n * 256 + b, bytes, 0)
Swapped(n, size) == FromMemory(Reverse(InMemory(n, size)))

-----------------------------------------------------------------------------
(* Base64                                                                  *)

Low(n, bits) == n % 2 ^ bits
EncodedLength(n) == (((4 * n) \div 3 + 3) \div 4) * 4
RECURSIVE EncodeBase64(_), DecodeBase64(_)
\* Mutant: the second character is padded with the third.
PadsBoth(bytes, n) == IF Len(bytes) < 3 THEN Pad ELSE n
PadsMissing(bytes, n) == IF Len(bytes) < 2 THEN Pad ELSE n
EncodeBase64(bytes) ==
    LET in == [i \in 1 .. 3 |-> IF i <= Len(bytes) THEN bytes[i] ELSE 0]
    IN  IF bytes = <<>> THEN <<>>
        ELSE <<in[1] \div 2 ^ Unit,
               Low(in[1] * 2 ^ (2 * Unit) + in[2] \div 2 ^ (2 * Unit), 3 * Unit),
               PadsMissing(bytes, Low(in[2] * 2 ^ Unit + in[3] \div 2 ^ (3 * Unit), 3 * Unit)),
               IF Len(bytes) < 3 THEN Pad ELSE Low(in[3], 3 * Unit)>>
             \o EncodeBase64(SubSeq(bytes, 4, Len(bytes)))
\* Four characters at a time, without the blanks; missing ones count as zeros, not as padding.
DecodeBase64(text) ==
    LET s == SelectSeq(text, LAMBDA c : c # Blank)
        in == [i \in 1 .. 4 |-> IF i <= Len(s) /\ s[i] # Pad THEN s[i] ELSE 0]
        padded(i) == i <= Len(s) /\ s[i] = Pad
        rest == DecodeBase64(SubSeq(s, 5, Len(s)))
        out == <<Low(in[1] * 2 ^ Unit + in[2] \div 2 ^ (2 * Unit), 4 * Unit)>>
               \o (IF padded(3) THEN <<>> ELSE <<Low(in[2], 2 * Unit) * 2 ^ (2 * Unit) + in[3] \div 2 ^ Unit>>)
               \o (IF padded(4) THEN <<>> ELSE <<Low(in[3], Unit) * 2 ^ (3 * Unit) + in[4]>>)
    IN  IF s = <<>> THEN <<<<>>>>
        ELSE IF padded(1) \/ padded(2) \/ \E i \in 1 .. 4 : in[i] < 0 THEN Nothing
        ELSE IF rest = Nothing THEN Nothing ELSE <<out \o rest[1]>>

-----------------------------------------------------------------------------
Idle == [op |-> "none"]
Init == call = Idle
Part == {<<>>, <<1>>, <<2, 5, 6>>, <<Blank, 7>>, <<7, Blank>>, <<Other>>}
IPv4 ==
    \E parts \in BoundedSeq(Part, MaxParts) :
        LET s == Joined(parts, Dot) IN call' = [op |-> "ipv4", parts |-> Split(s, Dot, FALSE), r |-> IPv4FromString(s)]
Mac ==
    \E parts \in [1 .. 6 -> {<<1>>, <<15, 1>>, <<Other>>}] :
        call' = [op |-> "mac", parts |-> parts, r |-> MacFromString(Joined(parts, Colon))]
Write4 ==
    \E a \in [1 .. 4 -> Octet] :
        call' = [op |-> "write ipv4", a |-> a, r |-> IPv4FromString(IPv4ToString(a)),
                 mapped |-> IPv6FromString(IPv6ToString(FromIPv4(a))), reversed |-> IPv4FromString(ToStringReversed(a))]
Mask == \E cidr \in 0 .. 32 : call' = [op |-> "mask", cidr |-> cidr, r |-> NetmaskFromCidr(cidr)]
Write6 ==
    \E a \in [1 .. 8 -> Group] : call' = [op |-> "write ipv6", a |-> a, r |-> IPv6FromString(IPv6ToString(a))]
IPv6 ==
    \E parts \in BoundedSeq({<<>>, <<1>>}, 10) \cup BoundedSeq(Part, MaxParts) :
        call' = [op |-> "ipv6", parts |-> Split(Joined(parts, Colon), Colon, TRUE), r |-> IPv6FromString(Joined(parts, Colon))]
UuidOf ==
    \E first, second, last \in Octet :
        LET s == UuidToString([i \in 1 .. 16 |-> IF i = 1 THEN first ELSE IF i = 5 THEN second ELSE IF i = 16 THEN last ELSE i])
        IN  call' = [op |-> "uuid", s |-> s, little |-> LittleEndianUuid(s), mixed |-> Uuid(s, "mixed")]
Swap == \E n \in {0, 1, 255, 256, 4660, 65535}, size \in {2, 3} : call' = [op |-> "swap", n |-> n, size |-> size, r |-> Swapped(n, size)]
Base64 ==
    \/ \E bytes \in BoundedSeq(0 .. 2 ^ (4 * Unit) - 1, MaxBytes) :
           LET text == EncodeBase64(bytes)
           IN  call' = [op |-> "encode", bytes |-> bytes, text |-> text, r |-> DecodeBase64(text),
                        spaced |-> DecodeBase64(<<Blank>> \o FlattenSeq([i \in DOMAIN text |-> <<text[i], Blank>>]))]
    \/ \E text \in BoundedSeq({0, 1, 7, Pad, Other}, 5) : call' = [op |-> "decode", text |-> text, r |-> DecodeBase64(text)]
Next == call = Idle /\ (IPv4 \/ Mac \/ Write4 \/ Mask \/ Write6 \/ IPv6 \/ UuidOf \/ Swap \/ Base64)
Spec == Init /\ [][Next]_call

-----------------------------------------------------------------------------
FirstDigit(n, base) == Digits(n, base)[1]
\* What is written of an address, of bytes or of a number is read as the same again: every
\* IPv6 address whatever span of zeros is compressed, and bytes in Base64 also with blanks in
\* between; but of each number of an address trimming leaves the first digit, and of the ffff
\* that tells a mapped address, an f: it is read as an address that is not mapped.
RoundTrips ==
    /\ call.op = "write ipv6" => call.r = [i \in 1 .. 8 |-> FirstDigit(call.a[i], 16)]
    /\ call.op = "write ipv4" =>
           LET kept == [i \in 1 .. 4 |-> FirstDigit(call.a[i], 10)]
           IN  /\ call.r = kept /\ call.reversed = Reverse(kept)
               /\ call.mapped = <<0, 0, 0, 0, 0, 0, 15, kept[1]>>
    /\ call.op = "encode" => /\ call.r = <<call.bytes>> /\ call.spaced = <<call.bytes>>
                             /\ Len(call.text) = EncodedLength(Len(call.bytes))
    /\ call.op = "uuid" => /\ UuidToString(call.little) = call.s
                           /\ Reverse(SubSeq(call.mixed, 1, 4)) = SubSeq(call.little, 1, 4)
                           /\ SubSeq(call.mixed, 9, 10) = SubSeq(call.little, 9, 10)
    /\ call.op = "swap" => Swapped(call.r, call.size) = call.n

\* Not so because of the loop at StringUtils.cpp:316-324: an address that is written is read back, a mapped
\* one too; an octet beyond 255 is refused, as IPv4Address.h:100 asks; a MAC address has the octets of its text.
AddressesRoundTrip ==
    /\ call.op = "write ipv6" => call.r = call.a
    /\ call.op = "write ipv4" => call.r = call.a /\ call.reversed = Reverse(call.a) /\ call.mapped = FromIPv4(call.a)
OctetsInRange == call.op = "ipv4" /\ call.r # Nothing => <<2, 5, 6>> \notin ToSet(call.parts)
MacsMean == call.op = "mac" /\ call.r # Nothing => \A i \in 1 .. 6 : call.parts[i] = <<15, 1>> => call.r[i] = 241

\* Not so of UUID.cpp:52 and 55-61: the last six bytes are the text's, and of the two byte orders the one asked
\* for is made.
UuidsReadBack ==
    call.op = "uuid" => /\ SubSeq(call.mixed, 11, 16) = SubSeq(call.little, 11, 16)
                        /\ Uuid(call.s, "little") = call.little

\* A text is an address as its form says: eight groups or one compression, up to four octets that
\* are numbers without blanks, six bytes, each number being its first digit (see above); a mask has
\* ones before zeros; no text stops the program.
TextsMean ==
    /\ call.op = "ipv6" =>
           LET empty == {i \in DOMAIN call.parts : call.parts[i] = <<>>}
               values == SelectSeq(call.parts, LAMBDA p : p # <<>>)
               single == \A i \in DOMAIN call.parts : call.parts[i] \in {<<>>, <<1>>}
           IN  /\ call.r # <<"halted">>
               /\ (\E i \in DOMAIN call.parts : call.parts[i] = <<Other>>) => call.r = Nothing
               /\ single /\ empty = {} => (call.r # Nothing <=> Len(call.parts) <= 8)
               /\ single /\ Cardinality(empty) = 1 /\ Min(empty) \in 2 .. Len(call.parts) - 1 /\ Len(values) <= 8 =>
                      call.r = [k \in 1 .. 8 |-> IF k < Min(empty) \/ k > 8 - (Len(values) - Min(empty) + 1) THEN 1 ELSE 0]
               /\ single /\ values # <<>> /\ Cardinality(empty) > 2 => call.r = Nothing
    /\ call.op = "ipv4" =>
           LET n == Len(call.parts)
           IN  /\ call.r # Nothing <=> n \in 1 .. 4 /\ \A i \in 1 .. n : ToSet(call.parts[i]) \subseteq 0 .. 9
               /\ call.r # Nothing => \A i \in 1 .. n : call.r[Place[n][i]] = Head(call.parts[i])
    /\ call.op = "mac" => IF \E i \in 1 .. 6 : call.parts[i] = <<Other>> THEN call.r = Nothing
                          ELSE call.r = [i \in 1 .. 6 |-> Head(call.parts[i])]
    /\ call.op = "mask" =>
           call.cidr = Len(SelectSeq(FlattenSeq([i \in 1 .. 4 |-> [b \in 1 .. 8 |-> (call.r[i] \div 2 ^ (8 - b)) % 2]]),
                                     LAMBDA bit : bit = 1))
    /\ call.op = "decode" => (Other \in ToSet(call.text) => call.r = Nothing)
=============================================================================
