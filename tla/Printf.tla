------------------------------- MODULE Printf -------------------------------
(***************************************************************************)
(* AK/PrintfImplementation.h: a format is read character by character into *)
(* modifiers, and each conversion writes its argument.  The output is the  *)
(* sequence of the characters given to putch.  An argument is a number; a  *)
(* %s takes 0 as a null pointer, n as a string of n % 7 letters.           *)
(***************************************************************************)
EXTENDS Integers, Sequences, FiniteSets, SequencesExt

CONSTANTS NarrowBits, WideBits, \* the bits of an int and of a long
          DecimalDivisor,       \* the divisor print_decimal starts from
          OctalDivisor,         \* the divisor print_octal_number starts from
          Value,                \* the arguments written
          FieldWidth,           \* the widths and precisions asked for
          FormatCharacter,      \* the characters of the formats read
          MaxFormat             \* bound: the length of these formats

VARIABLE call

DigitName == <<"0", "1", "2", "3", "4", "5", "6", "7", "8", "9", "a", "b", "c", "d", "e", "f">>
\* '0' + digit; past 9 it is no digit.
Digit(d) == IF d \in 0 .. 9 THEN DigitName[d + 1] ELSE "?"
Times(n, c) == [i \in 1 .. n |-> c]
AtLeast(a, b) == IF a < b THEN b ELSE a
AtMost(a, b) == IF a < b THEN a ELSE b
Wrapped(n) == n % 2 ^ WideBits
UsesSet(flag, n) == IF flag THEN n ELSE 0

NoModifiers == [left_pad |-> FALSE, zero_pad |-> FALSE, dot |-> FALSE, field_width |-> 0,
                has_precision |-> FALSE, precision |-> 6, long_qualifiers |-> 0,
                alternate_form |-> FALSE, always_sign |-> FALSE]

-----------------------------------------------------------------------------
(* Conversions: [out, ret], the characters written and the result          *)

\* What print_hex, print_decimal and print_octal_number share once the digits are in buf:
\* prefix is the sign or "0x".  Mutants: precision counts the digits twice; the prefix has no width.
Unreduced(st, prefix, digits) ==
    LET more == UsesSet(st.has_precision, st.precision)
        width == AtLeast(st.field_width, Len(digits) + more + Len(prefix))
        zeros == st.zero_pad /\ ~st.has_precision
        pad == width - Len(digits) - more - Len(prefix)
    IN  [out |-> (IF zeros THEN prefix ELSE <<>>)
                 \o (IF st.left_pad THEN <<>> ELSE Times(pad, IF zeros THEN "0" ELSE " "))
                 \o (IF zeros THEN <<>> ELSE prefix) \o Times(more, "0") \o digits
                 \o (IF st.left_pad THEN Times(pad, " ") ELSE <<>>),
         ret |-> width]
PrefixOutsideWidth(st, prefix, digits) ==
    Unreduced([st EXCEPT !.precision = AtLeast(0, @ - Len(digits)),
                         !.field_width = IF @ = 0 THEN 0 ELSE @ + Len(prefix)], prefix, digits)
Justified(st, prefix, digits) ==
    Unreduced([st EXCEPT !.precision = AtLeast(0, @ - Len(digits))], prefix, digits)

\* The digits found by dividing by divisor, divisor / base, ..., 1, the leading zeros left out.
\* The first quotient is not bounded by the base.
DigitsFrom(divisor, base, number) ==
    LET places == {k \in 0 .. 9 : base ^ k <= divisor}
        At(k) == IF base ^ k = divisor THEN number \div divisor ELSE (number \div base ^ k) % base
        shown == {k \in places : k = 0 \/ \E j \in places : j >= k /\ At(j) # 0}
        count == Cardinality(shown)
    IN  [i \in 1 .. count |-> Digit(At(count - i))]
Suppressed(st, number) == st.has_precision /\ st.precision = 0 /\ number = 0

Sign(negative, always) == IF negative THEN <<"-">> ELSE IF always THEN <<"+">> ELSE <<>>
PrintDecimal(st, number, negative) ==
    Justified(st, Sign(negative, st.always_sign),
              IF Suppressed(st, number) THEN <<>> ELSE DigitsFrom(DecimalDivisor, 10, number))

HexDigits(number) ==
    LET count == CHOOSE k \in 1 .. WideBits : number < 16 ^ k /\ (k = 1 \/ number >= 16 ^ (k - 1))
    IN  [i \in 1 .. count |-> DigitName[1 + ((number \div 16 ^ (count - i)) % 16)]]
PrintHex(st, number) ==
    Justified(st, IF st.alternate_form /\ number # 0 THEN <<"0", "x">> ELSE <<>>,
              IF Suppressed(st, number) THEN <<>> ELSE HexDigits(number))

\* The '0' of the alternate form is one of the digits and comes out of the precision
\* before the precision is looked at.
PrintOctal(st, number) ==
    LET lead == IF st.alternate_form THEN <<"0">> ELSE <<>>
        left == [st EXCEPT !.precision = AtLeast(0, @ - Len(lead))]
    IN  Justified(st, <<>>,
                  lead \o IF Suppressed(left, number) THEN <<>> ELSE DigitsFrom(OctalDivisor, 8, number))

\* A double is [negative, whole, tenths], or one with a name instead of its digits.
Named(name) == name \in {"inf", "nan"}
PrintDouble(st, number) ==
    IF Named(number.name)
    THEN LET sign == Sign(number.negative, FALSE)
             blanks == Wrapped(st.field_width - 3 - Len(sign))
         IN  [out |-> Times(blanks, " ") \o sign \o (IF number.name = "nan" THEN <<"n", "a", "n">> ELSE <<"i", "n", "f">>),
              ret |-> blanks + Len(sign) + 3]
    ELSE LET precision == st.precision
             whole == PrintDecimal([st EXCEPT !.field_width = AtLeast(0, @ - precision - 1),
                                              !.has_precision = FALSE, !.precision = 1],
                                   number.whole, number.negative)
             fraction == PrintDecimal([NoModifiers EXCEPT !.zero_pad = TRUE, !.field_width = precision, !.precision = 1],
                                      number.tenths * 10 ^ AtLeast(0, precision - 1), FALSE)
         IN  IF precision = 0 THEN whole
             ELSE [out |-> whole.out \o <<".">> \o fraction.out, ret |-> whole.ret + 1 + fraction.ret]

\* Mutants: a precision longer than the string reads past its end; a narrow field does not cut it.
PrecisionLetters(st, len) == IF st.has_precision THEN st.precision ELSE len
LettersWanted(st, len) == IF st.has_precision THEN AtMost(len, st.precision) ELSE len
AllLetters(len, width) == len
LettersWritten(len, width) == AtMost(len, width)
PrintString(st, text) ==
    LET len == LettersWanted(st, Len(text))
        atLeastLen == IF ~st.dot /\ st.field_width < len THEN len ELSE st.field_width
        width == IF st.has_precision /\ atLeastLen = 0 THEN len ELSE atLeastLen
        blanks == Times(AtLeast(0, width - len), " ")
        written == [i \in 1 .. LettersWritten(len, width) |-> IF i > Len(text) THEN "?" ELSE text[i]]
    IN  [out |-> IF st.left_pad THEN written \o blanks ELSE blanks \o written, ret |-> width]

\* NextArgument of the width the qualifiers ask for.
Unsigned(st, value) == value % 2 ^ (IF st.long_qualifiers > 0 THEN WideBits ELSE NarrowBits)
Signed(st, value) ==
    LET bits == IF st.long_qualifiers > 0 THEN WideBits ELSE NarrowBits
    IN  ((value + 2 ^ (bits - 1)) % 2 ^ bits) - 2 ^ (bits - 1)

Text(value) ==
    IF value = 0 THEN <<"(", "n", "u", "l", "l", ")">> ELSE [i \in 1 .. (value % 7) |-> DigitName[i + 10]]

\* format_##c for the conversion c.
Converted(c, st, value) ==
    CASE c \in {"d", "i"} -> LET number == Signed(st, value)
                             IN  PrintDecimal(st, Wrapped(IF number < 0 THEN -number ELSE number), number < 0)
      [] c = "u" -> PrintDecimal([st EXCEPT !.always_sign = FALSE], Unsigned(st, value), FALSE)
      [] c = "Q" -> PrintDecimal([st EXCEPT !.always_sign = FALSE], Wrapped(value), FALSE)
      [] c \in {"x", "X"} -> PrintHex(st, Unsigned(st, value))
      [] c = "q" -> PrintHex([st EXCEPT !.alternate_form = FALSE, !.field_width = 16, !.has_precision = FALSE, !.precision = 1],
                             Wrapped(value))
      [] c \in {"p", "P"} -> PrintHex([NoModifiers EXCEPT !.alternate_form = TRUE, !.zero_pad = TRUE,
                                                          !.field_width = 8, !.precision = 1], Wrapped(value))
      [] c = "o" -> PrintOctal(st, value % 2 ^ NarrowBits)
      [] c = "s" -> PrintString(st, Text(value))
      [] c = "c" -> PrintString(st, <<DigitName[1 + (value % 16)]>>)

Conversions == {"P", "Q", "X", "c", "d", "i", "o", "p", "q", "s", "u", "x"}

-----------------------------------------------------------------------------
(* The format                                                              *)

DigitCharacters == ToSet(SubSeq(DigitName, 1, 10))
Modifiers == DigitCharacters \cup {".", "-", "+", "*", "h", "l", "j", "t", "L", "z", "#"}
ValueOf(c) == CHOOSE d \in 0 .. 15 : DigitName[d + 1] = c

\* The tests between one_more and the switch; argument is what '*' would take.
\* Mutant: a zero after the point is a flag too.
ZeroAlways(st) == ~st.zero_pad /\ st.field_width = 0
ZeroIsFlag(st) == ~st.zero_pad /\ st.field_width = 0 /\ ~st.dot
WithDigit(st, d) ==
    IF ~st.dot THEN [st EXCEPT !.field_width = @ * 10 + d]
    ELSE [st EXCEPT !.has_precision = TRUE, !.precision = (IF st.has_precision THEN @ * 10 ELSE 0) + d]
Modified(st, c, argument) ==
    CASE c = "." -> [st EXCEPT !.dot = TRUE]
      [] c = "-" -> [st EXCEPT !.left_pad = TRUE]
      [] c = "+" -> [st EXCEPT !.always_sign = TRUE]
      [] c = "#" -> [st EXCEPT !.alternate_form = TRUE]
      [] c = "0" /\ ZeroIsFlag(st) -> [st EXCEPT !.zero_pad = TRUE]
      [] c \in DigitCharacters /\ ~(c = "0" /\ ZeroIsFlag(st)) -> WithDigit(st, ValueOf(c))
      [] c = "*" /\ st.dot -> [st EXCEPT !.has_precision = TRUE, !.zero_pad = TRUE, !.precision = argument]
      [] c = "*" /\ ~st.dot -> [st EXCEPT !.field_width = argument]
      [] c = "l" -> [st EXCEPT !.long_qualifiers = @ + 1]
      [] OTHER -> st \* h, j, t, L and z change nothing that is used

\* From the character before p, a '%' or a modifier with one after it: [st, args, at], at the conversion.
RECURSIVE Specification(_, _, _, _), Written(_, _, _, _)
Specification(format, p, st, args) ==
    IF format[p] \notin Modifiers THEN [st |-> st, args |-> args, at |-> p]
    ELSE LET star == format[p] = "*"
             next == Modified(st, format[p], IF star THEN args[1] ELSE 0)
             rest == IF star THEN Tail(args) ELSE args
         IN  IF p < Len(format) THEN Specification(format, p + 1, next, rest)
             ELSE [st |-> next, args |-> rest, at |-> p]

\* printf_internal; noted is what the last %n stored, <<>> if there was none.
Written(format, p, args, acc) ==
    IF p > Len(format) THEN [acc EXCEPT !.left = Len(args)]
    ELSE IF format[p] # "%" \/ p = Len(format)
         THEN Written(format, p + 1, args, [acc EXCEPT !.out = Append(@, format[p]), !.ret = @ + 1])
    ELSE LET spec == Specification(format, p + 1, NoModifiers, args)
             c == format[spec.at]
             result == IF c = "%" THEN [out |-> <<"%">>, ret |-> 1]
                       ELSE IF c \in Conversions THEN Converted(c, spec.st, spec.args[1])
                       ELSE [out |-> <<>>, ret |-> 0] \* %n, or format_unrecognized
         IN  Written(format, spec.at + 1,
                     IF c \in Conversions \cup {"n"} THEN Tail(spec.args) ELSE spec.args,
                     [acc EXCEPT !.out = @ \o result.out, !.ret = @ + result.ret,
                                 !.noted = IF c = "n" THEN <<acc.ret>> ELSE @])
PrintfInternal(format, args) == Written(format, 1, args, [out |-> <<>>, ret |-> 0, noted |-> <<>>, left |-> 0])

-----------------------------------------------------------------------------
Idle == [op |-> "idle"]
\* Every modifier the conversion uses, in every combination.
Convert ==
    \E c \in Conversions, value \in Value, width \in FieldWidth, precision \in {-1} \cup FieldWidth,
       flags \in SUBSET {"-", "0", "#", "+"}, dot \in BOOLEAN, long \in {0, 1} :
        LET st == [NoModifiers EXCEPT !.left_pad = "-" \in flags, !.zero_pad = "0" \in flags,
                       !.alternate_form = "#" \in flags, !.always_sign = "+" \in flags, !.field_width = width,
                       !.dot = dot, !.has_precision = precision >= 0, !.precision = IF precision >= 0 THEN precision ELSE 6,
                       !.long_qualifiers = long]
        IN  /\ precision >= 0 => dot
            /\ call' = [op |-> "convert", conversion |-> c, value |-> value, st |-> st, result |-> Converted(c, st, value)]
ConvertDouble ==
    \E name \in {"number", "inf", "nan"}, negative \in BOOLEAN, whole \in {0, 7, 12}, tenths \in {0, 5},
       width \in FieldWidth, precision \in 0 .. 2, left \in BOOLEAN :
        LET st == [NoModifiers EXCEPT !.field_width = width, !.precision = precision, !.left_pad = left]
        IN  call' = [op |-> "double", result |->
                        PrintDouble(st, [name |-> name, negative |-> negative, whole |-> whole, tenths |-> tenths])]
\* The arguments there are, the numbers of every '*' and conversion that may follow.
Arguments == [i \in 1 .. MaxFormat |-> i]
Printf ==
    \E format \in BoundedSeq(FormatCharacter, MaxFormat) :
        call' = [op |-> "print", format |-> format, result |-> PrintfInternal(format, Arguments)]
\* A specification made of flags, a width, a precision and a length: what is read of it.
Read ==
    \E flags \in BoundedSeq({"-", "0", "#", "+"}, 2), width \in {<<>>, <<"5">>, <<"2", "0">>},
       precision \in {<<>>, <<".">>, <<".", "3">>, <<".", "0", "4">>, <<".", "1", "0">>}, long \in 0 .. 2 :
        LET format == <<"%">> \o flags \o width \o precision \o Times(long, "l") \o <<"d">>
        IN  call' = [op |-> "read", flags |-> flags, width |-> width, precision |-> precision, long |-> long,
                     read |-> Specification(format, 2, NoModifiers, <<>>).st]
Next == call = Idle /\ (Convert \/ ConvertDouble \/ Printf \/ Read)
Init == call = Idle
Spec == Init /\ [][Next]_call

-----------------------------------------------------------------------------
(* Properties                                                              *)

\* What a conversion and printf_internal return is the number of characters they gave to putch.
ReturnsLength ==
    call.op \in {"convert", "double", "print"} => call.result.ret = Len(call.result.out)

RECURSIVE NumberIn(_, _)
NumberIn(digits, base) ==
    IF digits = <<>> THEN 0 ELSE base * NumberIn(Front(digits), base) + ValueOf(Last(digits))
NotBlank(c) == c # " "
Base(c) == IF c \in {"d", "i", "u"} THEN 10 ELSE IF c = "o" THEN 8 ELSE 16
Meant(c, st, value) == IF c \in {"d", "i"} THEN Signed(st, value) ELSE Unsigned(st, value)

\* A number is written with the digits that give it back, its sign or "0x" before them, at least as
\* wide as the field and with as many digits as the precision, the blanks on the side asked for
\* (print_hex, print_decimal, print_octal_number; an octal number of up to ten digits).
NumbersWritten ==
    call.op = "convert" /\ call.conversion \in {"d", "i", "u", "x", "X", "o"} =>
        LET st == call.st  c == call.conversion  out == call.result.out
            value == IF c = "o" THEN call.value % 2 ^ NarrowBits ELSE Meant(c, st, call.value)
            body == SelectSeq(out, NotBlank)
            sign == IF c \in {"d", "i"} /\ (value < 0 \/ st.always_sign) THEN 1 ELSE 0
            prefix == IF c \in {"x", "X"} /\ st.alternate_form /\ value # 0 THEN 2 ELSE 0
            digits == SubSeq(body, sign + prefix + 1, Len(body))
        IN  (c = "o" => value < 8 * OctalDivisor) =>
            /\ IF st.left_pad THEN IsPrefix(body, out) ELSE IsSuffix(body, out)
            /\ sign = 1 => body[1] = (IF value < 0 THEN "-" ELSE "+")
            /\ prefix = 2 => SubSeq(body, 1, 2) = <<"0", "x">>
            /\ ToSet(digits) \subseteq ToSet(DigitName)
            /\ NumberIn(digits, Base(c)) = (IF value < 0 THEN -value ELSE value)
            /\ Len(out) = AtLeast(st.field_width, Len(body))
            /\ st.has_precision => Len(digits) >= st.precision

\* Not so of the divisor 134217728 (PrintfImplementation.h:213): an octal number of 32 bits is written.
OctalsWritten ==
    call.op = "convert" /\ call.conversion = "o" =>
        LET digits == SelectSeq(call.result.out, NotBlank)
        IN  ToSet(digits) \subseteq ToSet(DigitName) /\ NumberIn(digits, 8) = call.value % 2 ^ NarrowBits

\* A string is written from its start, whole unless a precision is asked for, never past its end.
TextsWritten ==
    call.op = "convert" /\ call.conversion = "s" =>
        LET st == call.st  out == call.result.out  body == SelectSeq(out, NotBlank)
        IN  /\ IsPrefix(body, Text(call.value))
            /\ ~st.dot => body = Text(call.value)
            /\ st.has_precision => Len(body) <= st.precision
            /\ IF st.left_pad THEN IsPrefix(body, out) ELSE IsSuffix(body, out)

\* Not so of PrintfImplementation.h:278 and 290: only the precision cuts a string (after a dot the field's width
\* does too).
OnlyPrecisionCuts ==
    call.op = "convert" /\ call.conversion = "s" /\ call.st.has_precision =>
        LET body == SelectSeq(call.result.out, NotBlank)
        IN  Len(body) = call.st.precision \/ (Len(body) < call.st.precision /\ body = Text(call.value))

Number(digits) == NumberIn(digits, 10)
\* The modifiers read are the ones the specification was made of.
FormatsRead ==
    call.op = "read" =>
        LET st == call.read  flags == ToSet(call.flags)
        IN  /\ st.left_pad = ("-" \in flags) /\ st.always_sign = ("+" \in flags)
            /\ st.zero_pad = ("0" \in flags) /\ st.alternate_form = ("#" \in flags)
            /\ st.field_width = Number(call.width) /\ st.dot = (call.precision # <<>>)
            /\ st.has_precision = (Len(call.precision) > 1)
            /\ Len(call.precision) > 1 => st.precision = Number(Tail(call.precision))
            /\ st.long_qualifiers = call.long
=============================================================================
