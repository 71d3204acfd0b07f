------------------------------ MODULE Strings ------------------------------
(***************************************************************************)
(* AK/String.cpp, StringImpl.cpp and the conversions of StringUtils.cpp:   *)
(* strings made of numbers and numbers read from strings, changes of case, *)
(* escapes and copies.  A character is a digit's value (10 .. 15 for the   *)
(* hexadecimal letters) or stands for a sign, a blank or a letter.  An     *)
(* action is a call with its result.                                       *)
(***************************************************************************)
EXTENDS Integers, Sequences, FiniteSets, SequencesExt, FiniteSetsExt

CONSTANTS Width,     \* the bits of the integers converted to
          MaxDigits, \* bound: the length of the strings converted
          RomanValue, BijectiveValue, \* the numbers written out
          MaxLength  \* bound: the length of the other strings

VARIABLE call

Minus == -1
Plus == -2
Other == -3
Blank == -4
Invalid == <<>> \* an empty Optional; <<v>> is one that holds v
IsDigit(c) == c \in 0 .. 9
Unsigned == 0 .. 2 ^ Width - 1
Signed == -(2 ^ (Width - 1)) .. 2 ^ (Width - 1) - 1

-----------------------------------------------------------------------------
(* Numbers read from strings, which are trimmed first unless the caller    *)
(* says that they are not to be.                                           *)

\* StringUtils::trim of both sides.  On the right it takes off what is not blank, as far as the character
\* after the first: of "256" it leaves "2", of "-1" the sign, and "5 " as it is.
RECURSIVE RightLength(_, _, _)
RightLength(s, i, length) ==
    IF i = 0 \/ length = 0 \/ s[i + 1] = Blank THEN length ELSE RightLength(s, i - 1, length - 1)
Trimmed(s) ==
    LET solid == {i \in DOMAIN s : s[i] # Blank}
        start == IF solid = {} THEN Len(s) ELSE Min(solid) - 1
    IN  SubSeq(s, start + 1, start + RightLength(s, Len(s) - 1, Len(s) - start))
Text(s, trim) == IF trim THEN Trimmed(s) ELSE s

\* One turn of the loops of convert_to_int and convert_to_uint; value is Invalid once it failed.
\* Mutant: only the multiplication is checked for overflow.
MultiplicationOnly(range, value, digit, sign) ==
    IF value = Invalid \/ ~IsDigit(digit) \/ value[1] * 10 \notin range THEN Invalid
    ELSE <<value[1] * 10 + sign * digit>>
WithDigit(range, value, digit, sign) ==
    IF value = Invalid \/ ~IsDigit(digit) \/ value[1] * 10 \notin range
       \/ value[1] * 10 + sign * digit \notin range THEN Invalid
    ELSE <<value[1] * 10 + sign * digit>>
ConvertToUint(str, trim) ==
    LET s == Text(str, trim)
    IN  IF s = <<>> THEN Invalid ELSE FoldLeft(LAMBDA v, d : WithDigit(Unsigned, v, d, 1), <<0>>, s)
ConvertToInt(str, trim) ==
    LET s == Text(str, trim)
        signed == s # <<>> /\ s[1] \in {Minus, Plus}
        digits == IF signed THEN Tail(s) ELSE s
        sign == IF signed /\ s[1] = Minus THEN -1 ELSE 1
    IN  IF digits = <<>> THEN Invalid ELSE FoldLeft(LAMBDA v, d : WithDigit(Signed, v, d, sign), <<0>>, digits)
\* convert_to_uint_from_hex and _from_octal: checked before the digit is shifted in.
ShiftedIn(value, digit, bits) ==
    IF value = Invalid \/ digit \notin 0 .. 2 ^ bits - 1 \/ value[1] > (2 ^ Width - 1) \div 2 ^ bits THEN Invalid
    ELSE <<(value[1] * 2 ^ bits + digit) % 2 ^ Width>>
ConvertFromBits(str, bits, trim) ==
    LET s == Text(str, trim)
    IN  IF s = <<>> THEN Invalid ELSE FoldLeft(LAMBDA v, d : ShiftedIn(v, d, bits), <<0>>, s)

-----------------------------------------------------------------------------
(* Numbers written as strings                                              *)

RECURSIVE Digits(_, _), Greedy(_, _)
Digits(value, base) == \* the lowest first
    <<value % base>> \o IF value \div base = 0 THEN <<>> ELSE Digits(value \div base, base)
\* bijective_base_from.  Mutant: the highest digit is left alone.
AllDigits(value, base) == Reverse(Digits(value, base))
BijectiveBaseFrom(value, base) ==
    LET d == Digits(value, base)
        top == IF Len(d) > 1 THEN [d EXCEPT ![Len(d)] = @ - 1] ELSE d
    IN  Reverse(top)
RomanStep ==
    <<<<1000, <<"M">>>>, <<900, <<"C", "M">>>>, <<500, <<"D">>>>, <<400, <<"C", "D">>>>, <<100, <<"C">>>>,
      <<90, <<"X", "C">>>>, <<50, <<"L">>>>, <<40, <<"X", "L">>>>, <<10, <<"X">>>>, <<9, <<"I", "X">>>>,
      <<5, <<"V">>>>, <<4, <<"I", "V">>>>, <<1, <<"I">>>>>>
Greedy(value, i) ==
    IF value = 0 THEN <<>>
    ELSE IF value >= RomanStep[i][1] THEN RomanStep[i][2] \o Greedy(value - RomanStep[i][1], i)
    ELSE Greedy(value, i + 1)
RomanNumberFrom(value) == IF value > 3999 THEN Reverse(Digits(value, 10)) ELSE Greedy(value, 1)

-----------------------------------------------------------------------------
(* Case, escapes and copies                                                *)

Lower(c) == CASE c = "A" -> "a" [] c = "B" -> "b" [] OTHER -> c
Upper(c) == CASE c = "a" -> "A" [] c = "b" -> "B" [] OTHER -> c
Lowercased(s) == [i \in DOMAIN s |-> Lower(s[i])] \* the same impl if nothing is upper case
Uppercased(s) == [i \in DOMAIN s |-> Upper(s[i])]
ToTitlecase(s) == [i \in DOMAIN s |-> IF i = 1 \/ s[i - 1] = " " THEN Upper(s[i]) ELSE Lower(s[i])]
InvertCase(s) == [i \in DOMAIN s |-> Lower(s[i])] \* both arms make lower case
\* Mutant: an ampersand is left as it is.
KeepsAmpersand(c) == CASE c = "<" -> <<"&", "l", ";">> [] c = "\"" -> <<"&", "q", ";">> [] OTHER -> <<c>>
EscapedEntity(c) ==
    CASE c = "<" -> <<"&", "l", ";">> [] c = "\"" -> <<"&", "q", ";">> [] c = "&" -> <<"&", "a", ";">> [] OTHER -> <<c>>
EscapeHtmlEntities(s) == FlattenSeq([i \in DOMAIN s |-> EscapedEntity(s[i])])
Repeated(s, count) == FlattenSeq([i \in 1 .. count |-> s])
\* StringImpl::create: the length that is left once the line ends are chomped.
RECURSIVE Chomped(_)
Chomped(s) == IF s # <<>> /\ Last(s) \in {"nul", "lf", "cr"} THEN Chomped(Front(s)) ELSE s
\* copy_characters_to_buffer of String, and of StringView, which returns m_length it assigns.
CopyToBuffer(s, size) == SubSeq(s, 1, IF Len(s) < size THEN Len(s) ELSE size - 1) \o <<"nul">>
CopiedAll(s, size) == Len(s) <= size - 1
ViewCopiedAll(s, size) == s # <<>>
\* operator>>: up to a nul; a stream that ends before it leaves a null string and an error.
ReadString(s) ==
    LET nuls == {i \in DOMAIN s : s[i] = "nul"}
    IN  IF nuls = {} THEN Invalid ELSE <<SubSeq(s, 1, (CHOOSE i \in nuls : \A j \in nuls : i <= j) - 1)>>
Substring(s, start, length) == IF length = 0 THEN <<>> ELSE SubSeq(s, start + 1, start + length)

-----------------------------------------------------------------------------
Idle == [op |-> "none"]
Init == call = Idle

Convert ==
    \E s \in BoundedSeq({Minus, Plus, Other, Blank, 0, 1, 2, 5, 7, 9, 10, 15}, MaxDigits), trim \in BOOLEAN :
        call' = [op |-> "convert", s |-> s, trim |-> trim,
                 int |-> ConvertToInt(s, trim), uint |-> ConvertToUint(s, trim),
                 hex |-> ConvertFromBits(s, 4, trim), octal |-> ConvertFromBits(s, 3, trim)]
WriteRoman ==
    \E value \in RomanValue : call' = [op |-> "roman", value |-> value, text |-> RomanNumberFrom(value)]
WriteBijective ==
    \E base \in {2, 3, 4}, value \in BijectiveValue :
        call' = [op |-> "bijective", base |-> base, text |-> BijectiveBaseFrom(value, base),
                 next |-> BijectiveBaseFrom(value + 1, base)]
Change ==
    \E s \in BoundedSeq({"a", "A", "b", " ", "&", "<", "nul", "lf"}, MaxLength), size \in 1 .. MaxLength + 1 :
        call' = [op |-> "change", s |-> s, size |-> size, lower |-> Lowercased(s), upper |-> Uppercased(s),
                 title |-> ToTitlecase(s), inverted |-> InvertCase(s), escaped |-> EscapeHtmlEntities(s),
                 chomped |-> Chomped(s), copied |-> CopyToBuffer(s, size), read |-> ReadString(s),
                 all |-> CopiedAll(s, size), viewAll |-> ViewCopiedAll(s, size),
                 twice |-> Repeated(s, 2),
                 halves |-> Substring(s, 0, Len(s) \div 2) \o Substring(s, Len(s) \div 2, Len(s) - (Len(s) \div 2))]
Next == call = Idle /\ (Convert \/ WriteRoman \/ WriteBijective \/ Change)
Spec == Init /\ [][Next]_call

-----------------------------------------------------------------------------
(* Properties                                                              *)

\* A string that is not trimmed is a number exactly if it is digits and their value is in range, and that
\* value is the result: no partial overflow of the digits read so far rejects or bends it.  One that is
\* trimmed, as by default, and has no blank is read as its first character alone.
RECURSIVE ValueOf(_, _)
ValueOf(s, base) == IF s = <<>> THEN 0 ELSE ValueOf(Front(s), base) * base + Last(s)
ReadsAs(s, base, range, sign) ==
    LET is(d) == d \in 0 .. base - 1
    IN  IF s # <<>> /\ (\A i \in DOMAIN s : is(s[i])) THEN
            IF sign * ValueOf(s, base) \in range THEN <<sign * ValueOf(s, base)>> ELSE Invalid
        ELSE Invalid
ReadsAsInt(s) ==
    IF s # <<>> /\ s[1] \in {Minus, Plus} THEN ReadsAs(Tail(s), 10, Signed, IF s[1] = Minus THEN -1 ELSE 1)
    ELSE ReadsAs(s, 10, Signed, 1)
ReadAs(s) ==
    /\ call.uint = ReadsAs(s, 10, Unsigned, 1) /\ call.int = ReadsAsInt(s)
    /\ call.hex = ReadsAs(s, 16, Unsigned, 1) /\ call.octal = ReadsAs(s, 8, Unsigned, 1)
NumbersRead ==
    call.op = "convert" =>
        /\ ~call.trim => ReadAs(call.s)
        /\ call.trim /\ Blank \notin ToSet(call.s) => ReadAs(IF call.s = <<>> THEN <<>> ELSE <<Head(call.s)>>)
\* Not so of StringUtils.cpp:74-76 and 114-116, for the loop at 316-324 takes off what is not blank: a string
\* is read as by default it should be, without the blanks around it.
TrimmedNumbersRead ==
    call.op = "convert" /\ call.trim =>
        LET solid == {i \in DOMAIN call.s : call.s[i] # Blank}
        IN  ReadAs(IF solid = {} THEN <<>> ELSE SubSeq(call.s, Min(solid), Max(solid)))

\* A Roman number adds up to its value, a letter before a greater one being taken off, and has
\* no letter more than three times in a row; in the bijective base what follows is the next
\* string, the longer one of lowest digits ("AA" after "Z", String.cpp:188) or the one with
\* the greater digit where they first differ.
RomanWorth == [c \in {"M", "D", "C", "L", "X", "V", "I"} |->
    CASE c = "M" -> 1000 [] c = "D" -> 500 [] c = "C" -> 100 [] c = "L" -> 50 [] c = "X" -> 10 [] c = "V" -> 5 [] c = "I" -> 1]
NumbersWritten ==
    /\ call.op = "roman" /\ call.value <= 3999 =>
          LET t == call.text
              worth(i) == IF i < Len(t) /\ RomanWorth[t[i]] < RomanWorth[t[i + 1]] THEN -RomanWorth[t[i]] ELSE RomanWorth[t[i]]
          IN  /\ FoldLeft(LAMBDA sum, i : sum + worth(i), 0, [i \in 1 .. Len(t) |-> i]) = call.value
              /\ \A i \in 1 .. Len(t) - 3 : \E j \in 1 .. 3 : t[i + j] # t[i]
    /\ call.op = "bijective" =>
          LET a == call.text  b == call.next
          IN  /\ \A i \in DOMAIN a : a[i] \in 0 .. call.base - 1
              /\ \/ Len(b) = Len(a) + 1 /\ ToSet(b) = {0}
                 \/ /\ Len(b) = Len(a)
                    /\ \E i \in DOMAIN a : a[i] < b[i] /\ \A j \in 1 .. i - 1 : a[j] = b[j]

\* Escaped text has no bare special character and stands for the text; a change of case twice
\* over is one change; a chomped string ends in no line end and is a prefix; what fits is
\* copied whole and ended; a string that was read is what comes before the first nul.
RECURSIVE Unescaped(_)
Unescaped(t) ==
    IF t = <<>> THEN <<>>
    ELSE IF t[1] = "&" /\ Len(t) > 2 THEN <<CASE t[2] = "l" -> "<" [] t[2] = "q" -> "\"" [] OTHER -> "&">> \o Unescaped(SubSeq(t, 4, Len(t)))
    ELSE <<t[1]>> \o Unescaped(Tail(t))
ChangesKeep ==
    call.op = "change" =>
        LET s == call.s
        IN  /\ Unescaped(call.escaped) = s /\ "<" \notin ToSet(call.escaped)
            /\ \A i \in DOMAIN call.escaped :
                  call.escaped[i] = "&" => i + 2 <= Len(call.escaped) /\ call.escaped[i + 2] = ";"
            /\ Lowercased(call.upper) = call.lower /\ Uppercased(call.lower) = call.upper
            /\ ToTitlecase(call.title) = call.title /\ Lowercased(call.title) = call.lower
            /\ IsPrefix(call.chomped, s) /\ (call.chomped # <<>> => Last(call.chomped) \notin {"nul", "lf"})
            /\ \A i \in Len(call.chomped) + 1 .. Len(s) : s[i] \in {"nul", "lf"}
            /\ call.all = (call.copied = s \o <<"nul">>) /\ (call.all => Len(call.copied) <= call.size)
            /\ (call.read = Invalid) = ("nul" \notin ToSet(s))
            /\ call.read # Invalid => IsPrefix(call.read[1] \o <<"nul">>, s) /\ "nul" \notin ToSet(call.read[1])
            /\ call.halves = s /\ call.twice = s \o s
\* Not so of the code: invert_case makes small letters large (StringUtils.cpp:431), and
\* copy_characters_to_buffer of a view tells whether all of it was copied (StringView.cpp:168).
CaseInverted == call.op = "change" => \A i \in DOMAIN call.s : call.s[i] = "a" => call.inverted[i] = "A"
ViewsCopiedWhole == call.op = "change" => call.viewAll = call.all
=============================================================================
