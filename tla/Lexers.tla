------------------------------- MODULE Lexers -------------------------------
(***************************************************************************)
(* AK/GenericLexer.h/.cpp and DateTimeLexer.h.  A lexer is its input and   *)
(* how much of it is consumed; an operation gives the position after it    *)
(* and what it returned.  Digits are their values (10 .. 15 are            *)
(* hexadecimal letters), other characters negative numbers.                *)
(***************************************************************************)
EXTENDS Integers, Sequences, FiniteSets, SequencesExt

CONSTANTS MaxInput,      \* bound: the length of an input
          CodePointBits, \* the width of a code point while it is read
          LastCodePoint, \* the greatest that is Unicode
          Unit           \* the escaped code units, each a row of four digits

VARIABLE lexer

Nul == -1
Quote == -2
Other == -3
Backslash == -4
CR == -5
LF == -6
U == -7
Open == -8
Close == -9
Minus == -10
Plus == -11
MinusSign == <<-12, -13, -14>> \* U+2212 as UTF-8
Nothing == <<>> \* an empty Optional or null view, where a string would be <<s>>

Peek(in, i, offset) == IF i + offset < Len(in) THEN in[i + offset + 1] ELSE Nul
IsEof(in, i) == i >= Len(in)
NextIs(in, i, text) == \A k \in DOMAIN text : Peek(in, i, k - 1) = text[k]
View(in, from, to) == SubSeq(in, from + 1, to)
Smaller(a, b) == IF a < b THEN a ELSE b
Ignored(in, i, count) == i + Smaller(count, Len(in) - i)
\* consume_specific: the position behind the text, if it is next.
Specific(in, i, text) == IF NextIs(in, i, text) THEN Ignored(in, i, Len(text)) ELSE i
IsHex(c) == c \in 0 .. 15
IsDigit(c) == c \in 0 .. 9

-----------------------------------------------------------------------------
Consume(in, i, count) == [at |-> Ignored(in, i, count), got |-> View(in, i, Ignored(in, i, count))]
RECURSIVE Until(_, _, _), LineEnd(_, _)
Until(in, i, stop) == IF IsEof(in, i) \/ NextIs(in, i, stop) THEN i ELSE Until(in, i + 1, stop)
ConsumeUntil(in, i, stop) == [at |-> Until(in, i, stop), got |-> View(in, i, Until(in, i, stop))]
LineEnd(in, i) == IF IsEof(in, i) \/ Peek(in, i, 0) \in {CR, LF} THEN i ELSE LineEnd(in, i + 1)
ConsumeLine(in, i) ==
    LET end == LineEnd(in, i)
    IN  [at |-> Specific(in, Specific(in, end, <<CR>>), <<LF>>), got |-> View(in, i, end)]

\* consume_quoted_string: an escape takes what follows with it, past the end even.
\* Mutant: an unterminated string is not put back.
LeavesAtEnd(in, i, start, end) == [at |-> Smaller(end, Len(in)), got |-> Nothing]
PutBack(in, i, start, end) == [at |-> i, got |-> Nothing]
RECURSIVE QuoteEnd(_, _, _)
QuoteEnd(in, i, escape) ==
    IF IsEof(in, i) THEN i
    ELSE IF Peek(in, i, 0) = escape THEN QuoteEnd(in, i + 2, escape)
    ELSE IF Peek(in, i, 0) = Quote THEN i ELSE QuoteEnd(in, i + 1, escape)
ConsumeQuotedString(in, i, escape) ==
    LET end == QuoteEnd(in, i + 1, escape)
    IN  IF Peek(in, i, 0) # Quote THEN [at |-> i, got |-> Nothing]
        ELSE IF Peek(in, end, 0) # Quote THEN PutBack(in, i, i + 1, end)
        ELSE [at |-> end + 1, got |-> <<View(in, i + 1, end)>>]

\* decode_code_point: "\u{...}", behind the brace; a number that wraps is noticed as it shrinks.
RECURSIVE Braced(_, _, _)
Braced(in, i, value) ==
    LET new == (value * 16 + Peek(in, i, 0)) % 2 ^ CodePointBits
    IN  IF ~IsHex(Peek(in, i, 0)) THEN [at |-> i, got |-> "malformed"]
        ELSE IF new < value THEN [at |-> i + 1, got |-> "overflow"]
        ELSE IF Peek(in, i + 1, 0) # Close THEN Braced(in, i + 1, new)
        ELSE [at |-> i + 2, got |-> IF new <= LastCodePoint THEN <<new>> ELSE "overflow"]

\* decode_single_or_paired_surrogate.  The digits of a unit are read one by one.
RECURSIVE FourDigits(_, _, _, _)
FourDigits(in, i, left, value) ==
    IF left = 0 THEN [at |-> i, got |-> value]
    ELSE IF ~IsHex(Peek(in, i, 0)) THEN [at |-> i, got |-> -1]
    ELSE FourDigits(in, i + 1, left - 1, value * 16 + Peek(in, i, 0))
IsHigh(u) == u \in 55296 .. 56319
IsLow(u) == u \in 56320 .. 57343
\* Mutant: the second escape is not given back.
KeepsSecond(at) == at
Retreated(at) == at - 6
Surrogates(in, i, combine) ==
    LET high == FourDigits(in, i, 4, 0)
        low == FourDigits(in, high.at + 2, 4, 0)
    IN  IF high.got = -1 THEN [at |-> high.at, got |-> "malformed"]
        ELSE IF ~IsHigh(high.got) \/ ~combine \/ ~NextIs(in, high.at, <<Backslash, U>>) THEN [high EXCEPT !.got = <<@>>]
        ELSE IF low.got = -1 THEN [at |-> low.at, got |-> "malformed"]
        ELSE IF IsLow(low.got) THEN [at |-> low.at, got |-> <<(high.got - 55296) * 1024 + (low.got - 56320) + 65536>>]
        ELSE [at |-> Retreated(low.at), got |-> <<high.got>>]
ConsumeEscapedCodePoint(in, i, combine) ==
    IF ~NextIs(in, i, <<Backslash, U>>) THEN [at |-> i, got |-> "malformed"]
    ELSE IF Peek(in, i + 2, 0) = Open THEN Braced(in, i + 3, 0) ELSE Surrogates(in, i + 2, combine)

-----------------------------------------------------------------------------
(* DateTimeLexer: the length consumed, or 0 where nothing fits             *)

Left(in, i) == Len(in) - i
Year(in, i) == IF Left(in, i) >= 4 /\ \A k \in 0 .. 3 : IsDigit(Peek(in, i, k)) THEN 4 ELSE 0
TwoDigits(in, i, fits(_, _)) ==
    LET tens == Peek(in, i, 0)  ones == Peek(in, i, 1)
    IN  IF Left(in, i) >= 2 /\ IsDigit(tens) /\ IsDigit(ones) /\ fits(tens, ones) THEN 2 ELSE 0
Month(in, i) == TwoDigits(in, i, LAMBDA t, o : (t = 0 /\ o # 0) \/ (t = 1 /\ o <= 2))
Day(in, i) == TwoDigits(in, i, LAMBDA t, o : (t = 0 /\ o # 0) \/ t \in {1, 2} \/ (t = 3 /\ o \in {0, 1}))
Hours(in, i) == TwoDigits(in, i, LAMBDA t, o : t \in {0, 1} \/ (t = 2 /\ o <= 3))
MinutesOrSeconds(in, i) == TwoDigits(in, i, LAMBDA t, o : t <= 5)
Sign(in, i) == IF NextIs(in, i, MinusSign) THEN 3 ELSE IF Peek(in, i, 0) \in {Minus, Plus} THEN 1 ELSE 0
FractionalSeconds(in, i) ==
    LET most == Smaller(Left(in, i), 9)
        bad == {k \in 0 .. most - 1 : ~IsDigit(Peek(in, i, k))}
    IN  IF bad = {} THEN most ELSE CHOOSE k \in bad : \A j \in bad : k <= j

-----------------------------------------------------------------------------
Idle == [op |-> "none"]
Init == lexer = Idle
Lex ==
    \E in \in BoundedSeq({Quote, Other, Backslash, CR, LF}, MaxInput) : \E i \in 0 .. Len(in) :
        lexer' = [op |-> "lex", in |-> in, i |-> i, line |-> ConsumeLine(in, i),
                  until |-> ConsumeUntil(in, i, <<Other, Quote>>), two |-> Consume(in, i, 2),
                  quoted |-> ConsumeQuotedString(in, i, Backslash), plain |-> ConsumeQuotedString(in, i, Nul)]
Escaped ==
    \E digits \in BoundedSeq({0, 1, 10, 15, Other}, 4), end \in {<<Close>>, <<Other>>, <<>>} :
        LET in == <<Backslash, U, Open>> \o digits \o end
        IN  lexer' = [op |-> "braced", digits |-> digits, closed |-> end = <<Close>>, in |-> in,
                      result |-> ConsumeEscapedCodePoint(in, 0, TRUE)]
Units ==
    \E a, b \in Unit, combine \in BOOLEAN, end \in {<<>>, <<Other>>} :
        LET in == <<Backslash, U>> \o a \o <<Backslash, U>> \o b \o end
            first == ConsumeEscapedCodePoint(in, 0, combine)
        IN  lexer' = [op |-> "units", a |-> a, b |-> b, combine |-> combine, first |-> first,
                      second |-> IF first.at = 6 THEN ConsumeEscapedCodePoint(in, 6, combine) ELSE first]
DateTime ==
    \E in \in BoundedSeq({0, 1, 2, 3, 4, 5, 6, 9, Minus}, 3) :
        lexer' = [op |-> "date", in |-> in,
                  month |-> Month(in, 0), day |-> Day(in, 0), hours |-> Hours(in, 0),
                  minutes |-> MinutesOrSeconds(in, 0), sign |-> Sign(MinusSign \o in, 3),
                  year |-> Year(<<2, 0>> \o in, 0), fraction |-> FractionalSeconds(<<0, 0, 0, 0, 0, 0, 0>> \o in, 0)]
Next == lexer = Idle /\ (Lex \/ Escaped \/ Units \/ DateTime)
Spec == Init /\ [][Next]_lexer

-----------------------------------------------------------------------------
(* Properties                                                              *)

\* Whatever is consumed, the lexer stays within its input and stands right behind what it
\* returned: a line and its line end, a quoted string and its quotes; an unterminated string
\* leaves it where it was.
ConsumesWhatItReturns ==
    lexer.op = "lex" =>
        LET in == lexer.in  i == lexer.i
            all == {lexer.line, lexer.until, lexer.two, lexer.quoted, lexer.plain}
            line == lexer.line
        IN  /\ \A r \in all : r.at \in i .. Len(in)
            /\ lexer.two.at = i + Len(lexer.two.got) /\ lexer.until.at = i + Len(lexer.until.got)
            /\ lexer.until.at < Len(in) => NextIs(in, lexer.until.at, <<Other, Quote>>)
            /\ {CR, LF} \cap ToSet(line.got) = {}
            /\ View(in, i, line.at) \in {line.got \o end : end \in {<<>>, <<CR>>, <<LF>>, <<CR, LF>>}}
            /\ line.at = i + Len(line.got) => line.at = Len(in)
            /\ \A r \in {lexer.quoted, lexer.plain} :
                  IF r.got = Nothing THEN r.at = i
                  ELSE View(in, i, r.at) = <<Quote>> \o r.got[1] \o <<Quote>>
            /\ lexer.plain.got # Nothing => Quote \notin ToSet(lexer.plain.got[1])

\* An escape with braces is the number its digits are if that is a code point, however many
\* digits make it wrap; two escaped units are one code point exactly if they are a pair, and
\* otherwise the second one is still there to be read.
RECURSIVE NumberOf(_)
NumberOf(digits) == IF digits = <<>> THEN 0 ELSE NumberOf(Front(digits)) * 16 + Last(digits)
EscapesExact ==
    /\ lexer.op = "braced" =>
          LET ok == lexer.digits # <<>> /\ lexer.closed /\ \A k \in DOMAIN lexer.digits : IsHex(lexer.digits[k])
          IN  /\ ok /\ NumberOf(lexer.digits) <= LastCodePoint =>
                    lexer.result = [at |-> Len(lexer.in), got |-> <<NumberOf(lexer.digits)>>]
              /\ ok /\ NumberOf(lexer.digits) > LastCodePoint => lexer.result.got = "overflow"
              /\ ~ok => lexer.result.got \in {"malformed", "overflow"}
    /\ lexer.op = "units" =>
          LET a == NumberOf(lexer.a)  b == NumberOf(lexer.b)
          IN  IF lexer.combine /\ IsHigh(a) /\ IsLow(b)
              THEN lexer.first = [at |-> 12, got |-> <<65536 + (a - 55296) * 1024 + b - 56320>>]
              ELSE /\ lexer.first = [at |-> 6, got |-> <<a>>]
                   /\ lexer.second = [at |-> 12, got |-> <<b>>]

\* What is taken for a month, a day, hours or minutes is one the calendar or the clock has.
DatesInRange ==
    lexer.op = "date" =>
        LET in == lexer.in
            number == IF Len(in) >= 2 /\ IsDigit(in[1]) /\ IsDigit(in[2]) THEN in[1] * 10 + in[2] ELSE 1000
        IN  /\ (lexer.month = 2) = (number \in 1 .. 12) /\ (lexer.day = 2) = (number \in 1 .. 31)
            /\ (lexer.hours = 2) = (number \in 0 .. 23) /\ (lexer.minutes = 2) = (number \in 0 .. 59)
            /\ (lexer.year = 4) = (number < 1000)
            /\ \A k \in 1 .. lexer.fraction - 7 : IsDigit(in[k])
            /\ lexer.fraction < 7 + Smaller(2, Len(in)) => ~IsDigit(in[lexer.fraction - 6])
=============================================================================
