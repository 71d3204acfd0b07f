-------------------------------- MODULE Json --------------------------------
(***************************************************************************)
(* AK/JsonParser, JsonValue, JsonObject, JsonArray, JsonPath and the       *)
(* serializers: texts that become values, values that become texts, and    *)
(* values compared, converted and looked into.  A value has a type and the *)
(* part of n (number), s (string) and m (members) the type uses; a double  *)
(* counts hundredths.  An action is a call with its result.                *)
(***************************************************************************)
EXTENDS Integers, Sequences, FiniteSets, TLC, SequencesExt

CONSTANTS NarrowBits, \* the width of an u32; a u64 is twice as wide
          MaxText,    \* bound: tokens of a text
          MaxString,  \* bound: characters of a string
          MaxNumber   \* bound: characters of a number, two of them after the point

VARIABLE call

Value(t) == [t |-> t, n |-> 0, s |-> <<>>, m |-> <<>>]
Number(t, n) == [Value(t) EXCEPT !.n = n]
Null == Value("null")
True == Number("bool", 1)
False == Number("bool", 0)
Text(s) == [Value("string") EXCEPT !.s = s]
Array(values) == [Value("array") EXCEPT !.m = [i \in DOMAIN values |-> [key |-> <<>>, value |-> values[i]]]]
Object(members) == [Value("object") EXCEPT !.m = members]
Member(key, value) == [key |-> key, value |-> value]
NumberType == {"i32", "u32", "i64", "u64", "double"}
IsNumber(v) == v.t \in NumberType

\* An OrderedHashMap: a key that is there keeps its place.
Find(m, key) == {i \in DOMAIN m : m[i].key = key}
SetMember(m, key, value) ==
    IF Find(m, key) = {} THEN Append(m, Member(key, value))
    ELSE [i \in DOMAIN m |-> IF m[i].key = key THEN Member(key, value) ELSE m[i]]
\* JsonObject::get: one shared null for what is not there.
Has(v, key, types) == \E i \in Find(v.m, key) : v.m[i].value.t \in types \* has_null, has_bool, ...
RemoveMember(m, key) == SelectSeq(m, LAMBDA member : member.key # key)
Get(v, key) == IF Find(v.m, key) = {} THEN Null ELSE v.m[CHOOSE i \in Find(v.m, key) : TRUE].value

-----------------------------------------------------------------------------
(* Numbers                                                                 *)

DigitValue == ("0" :> 0) @@ ("1" :> 1) @@ ("2" :> 2) @@ ("3" :> 3) @@ ("4" :> 4) @@ ("5" :> 5) @@ ("6" :> 6)
              @@ ("7" :> 7) @@ ("8" :> 8) @@ ("9" :> 9)
HexValue == DigitValue @@ ("a" :> 10) @@ ("f" :> 15)
IsDigit(c) == c \in DOMAIN DigitValue
\* StringUtils::trim of both sides, as every conversion calls it: on the right it takes off
\* what is not blank, down to the first character.
RECURSIVE RightLength(_, _, _)
RightLength(s, i, length) ==
    IF i = 0 \/ length = 0 \/ s[i + 1] = " " THEN length ELSE RightLength(s, i - 1, length - 1)
Trimmed(s) ==
    LET solid == {i \in DOMAIN s : s[i] # " "}
        start == IF solid = {} THEN Len(s) ELSE (CHOOSE i \in solid : \A j \in solid : i <= j) - 1
    IN  SubSeq(s, start + 1, start + RightLength(s, Len(s) - 1, Len(s) - start))
Read(s, digits, base) ==
    IF s = <<>> \/ \E i \in DOMAIN s : s[i] \notin DOMAIN digits THEN <<>>
    ELSE <<FoldLeft(LAMBDA n, c : n * base + digits[c], 0, s)>>
ToUint(s) == Read(Trimmed(s), DigitValue, 10)
ToInt(s) ==
    LET t == Trimmed(s)
    IN  IF t = <<>> \/ t[1] # "-" THEN Read(t, DigitValue, 10)
        ELSE LET n == Read(Tail(t), DigitValue, 10) IN IF n = <<>> THEN n ELSE <<-n[1]>>

Signed(n, bits) == LET m == n % 2 ^ bits IN IF m >= 2 ^ (bits - 1) THEN m - 2 ^ bits ELSE m
\* The constructors of JsonValue: an unsigned long becomes an UnsignedInt32.
Constructed(type, n) ==
    CASE type = "int" -> Number("i32", Signed(n, NarrowBits))
      [] type = "unsigned" -> Number("u32", n % 2 ^ NarrowBits)
      [] type = "long" -> Number("i64", n)
      [] type = "unsigned long" -> Number("u32", n % 2 ^ NarrowBits)
      [] type = "long long" -> Number("i64", n)
      [] type = "unsigned long long" -> Number("u64", n)
\* to_number<double>, in hundredths
ToNumber(v) == IF v.t = "double" THEN v.n ELSE v.n * 100

\* Where the characters of a number from i on end, or 0 if the loop returned an error.
\* Mutant: a digit may follow a leading zero.
ZeroOrMore(whole) == FALSE
LeadingZero(whole) == IF Len(whole) > 0 /\ whole[1] = "0" THEN TRUE ELSE Len(whole) > 1 /\ whole[1] = "-" /\ whole[2] = "0"
RECURSIVE NumberLoop(_, _, _)
Refused(c, r) == IF r.double THEN c \in {".", "-"} ELSE c # "." /\ LeadingZero(r.whole)
WithCharacter(c, r) ==
    IF c = "." THEN [r EXCEPT !.double = TRUE]
    ELSE IF r.double THEN [r EXCEPT !.fraction = Append(@, c)] ELSE [r EXCEPT !.whole = Append(@, c)]
NumberLoop(in, i, r) ==
    IF i > Len(in) \/ ~(IsDigit(in[i]) \/ in[i] \in {".", "-"}) THEN [r EXCEPT !.at = i]
    ELSE IF Refused(in[i], r) THEN r
    ELSE NumberLoop(in, i + 1, WithCharacter(in[i], r))

Failed == [at |-> 0, value |-> Null]
Parsed(at, value) == [at |-> at, value |-> value]
Double(r, int, scaled) == Parsed(r.at, Number("double", int * 100 + (IF int < 0 THEN -scaled ELSE scaled)))
FromParts(r, uint, int, fraction) ==
    IF int = <<>> \/ (r.double /\ fraction = <<>>) THEN Failed
    ELSE IF r.double THEN Double(r, int[1], (fraction[1] * 100) \div 10 ^ Len(r.fraction))
    ELSE IF uint = <<>>
         THEN Parsed(r.at, Constructed(IF int[1] < 2 ^ (NarrowBits - 1) THEN "int" ELSE "long", int[1]))
    ELSE Parsed(r.at, Constructed(IF int[1] < 2 ^ NarrowBits THEN "unsigned" ELSE "unsigned long", int[1]))
FromCharacters(r) ==
    IF r.at = 0 THEN Failed
    ELSE IF r.whole[1] = "-" /\ ToSet(r.whole \o r.fraction) \subseteq {"-", "0"} THEN Parsed(r.at, Number("double", 0))
    ELSE FromParts(r, ToUint(r.whole), ToInt(r.whole), ToUint(r.fraction))
ParseNumber(in, i) ==
    FromCharacters(NumberLoop(in, i, [at |-> 0, whole |-> <<>>, fraction |-> <<>>, double |-> FALSE]))

-----------------------------------------------------------------------------
(* Strings                                                                 *)

Quote == "quote"
Backslash == "backslash"
Control == {"lf", "cr", "tab", "bs", "ff", "nul", "us"}
Escape == (Quote :> Quote) @@ (Backslash :> Backslash) @@ ("/" :> "/") @@ ("n" :> "lf") @@ ("r" :> "cr")
          @@ ("t" :> "tab") @@ ("b" :> "bs") @@ ("f" :> "ff")
CodePoint(n) == IF n = 0 THEN "nul" ELSE IF n = 31 THEN "us" ELSE "code point"
RECURSIVE StringFrom(_, _, _)
\* The character of a string at i and the number of characters it took, 0 where the string is refused.
Refusal == [length |-> 0, character |-> "none"]
CharacterAt(in, i) ==
    IF i > Len(in) \/ in[i] \in Control THEN Refusal
    ELSE IF in[i] # Backslash THEN [length |-> 1, character |-> in[i]]
    ELSE IF i = Len(in) THEN Refusal
    ELSE IF in[i + 1] \in DOMAIN Escape THEN [length |-> 2, character |-> Escape[in[i + 1]]]
    ELSE IF in[i + 1] # "u" \/ Len(in) < i + 5 THEN Refusal
    ELSE LET hex == Read(Trimmed(SubSeq(in, i + 2, i + 5)), HexValue, 16)
         IN  IF hex = <<>> THEN Refusal ELSE [length |-> 6, character |-> CodePoint(hex[1])]
StringWith(in, i, out, c) == IF c.length = 0 THEN Failed ELSE StringFrom(in, i + c.length, Append(out, c.character))
StringFrom(in, i, out) == \* i: where the string goes on
    IF i <= Len(in) /\ in[i] = Quote THEN Parsed(i + 1, Text(out)) ELSE StringWith(in, i, out, CharacterAt(in, i))
ConsumeString(in, i) == IF i <= Len(in) /\ in[i] = Quote THEN StringFrom(in, i + 1, <<>>) ELSE Failed

\* append_escaped_for_json.  Mutant: a backslash stays as it is.
BackslashKept == {Quote}
Escaped == {Quote, Backslash}
Unicode == ("cr" :> <<"0", "d">>) @@ ("ff" :> <<"0", "c">>) @@ ("nul" :> <<"0", "0">>) @@ ("us" :> <<"1", "f">>)
EscapedCharacter(c) ==
    IF c \in Escaped THEN <<Backslash, c>>
    ELSE IF c \in {"lf", "tab", "bs"} THEN <<Backslash, CASE c = "lf" -> "n" [] c = "tab" -> "t" [] OTHER -> "b">>
    ELSE IF c \in DOMAIN Unicode THEN <<Backslash, "u", "0", "0">> \o Unicode[c]
    ELSE <<c>>
Quoted(s) == <<Quote>> \o FlattenSeq([i \in DOMAIN s |-> EscapedCharacter(s[i])]) \o <<Quote>>

-----------------------------------------------------------------------------
(* The parser.  A position is that of the next character.                  *)

Peek(in, i) == IF i <= Len(in) THEN in[i] ELSE "eof"
RECURSIVE SkipSpace(_, _)
SkipSpace(in, i) == IF Peek(in, i) \in {" ", "tab", "lf", "cr"} THEN SkipSpace(in, i + 1) ELSE i
Literal == [null |-> Null, true |-> True, false |-> False] \* each one token

\* Mutant: a comma may be the last.
TrailingComma(in, i, close) == FALSE
CommaThenClose(in, i, close) == Peek(in, SkipSpace(in, i + 1)) = close
RECURSIVE ParseHelper(_, _), Members(_, _, _), Elements(_, _, _)
\* The loop of parse_object, behind the brace; next is where a comma or the closing brace should be.
AfterMember(in, next, m) ==
    IF Peek(in, next) = "}" THEN Parsed(next + 1, Object(m))
    ELSE IF Peek(in, next) # "," \/ CommaThenClose(in, next, "}") THEN Failed
    ELSE Members(in, next + 1, m)
WithValue(in, m, name, value) ==
    IF value.at = 0 THEN Failed ELSE AfterMember(in, SkipSpace(in, value.at), SetMember(m, name, value.value))
WithName(in, m, name, colon) ==
    IF name.at = 0 \/ Peek(in, colon) # ":" THEN Failed
    ELSE WithValue(in, m, name.value.s, ParseHelper(in, colon + 1))
MemberAt(in, i, m) ==
    IF Peek(in, i) = "}" THEN Parsed(i + 1, Object(m))
    ELSE LET name == ConsumeString(in, i) IN WithName(in, m, name, SkipSpace(in, name.at))
Members(in, start, m) == MemberAt(in, SkipSpace(in, start), m)
\* The loop of parse_array.
AfterElement(in, next, values) ==
    IF Peek(in, next) = "]" THEN Parsed(next + 1, Array(values))
    ELSE IF Peek(in, next) # "," \/ CommaThenClose(in, next, "]") THEN Failed
    ELSE Elements(in, next + 1, values)
WithElement(in, values, value) ==
    IF value.at = 0 THEN Failed ELSE AfterElement(in, SkipSpace(in, value.at), Append(values, value.value))
ElementAt(in, i, values) ==
    IF Peek(in, i) = "]" THEN Parsed(i + 1, Array(values)) ELSE WithElement(in, values, ParseHelper(in, i))
Elements(in, start, values) == ElementAt(in, SkipSpace(in, start), values)
ParseHelper(in, start) ==
    LET i == SkipSpace(in, start)
        c == Peek(in, i)
    IN  CASE c = "{" -> Members(in, i + 1, <<>>)
          [] c = "[" -> Elements(in, i + 1, <<>>)
          [] c = Quote -> ConsumeString(in, i)
          [] c = "-" \/ IsDigit(c) -> ParseNumber(in, i)
          [] c \in DOMAIN Literal -> Parsed(i + 1, Literal[c])
          [] OTHER -> Failed
Parse(in) ==
    LET r == ParseHelper(in, 1) IN IF r.at # 0 /\ SkipSpace(in, r.at) > Len(in) THEN r ELSE Failed

-----------------------------------------------------------------------------
(* Values                                                                  *)

\* Mutant: objects of different sizes are compared too.
AnySize(a, b) == TRUE
SameSize(a, b) == Len(a.m) = Len(b.m)
RECURSIVE Equals(_, _)
Equals(a, b) ==
    \/ a.t = "null" /\ b.t = "null"
    \/ a.t = "bool" /\ b.t = "bool" /\ a.n = b.n
    \/ a.t = "string" /\ b.t = "string" /\ a.s = b.s
    \/ IsNumber(a) /\ IsNumber(b) /\ ToNumber(a) = ToNumber(b)
    \/ /\ a.t = "array" /\ b.t = "array" /\ Len(a.m) = Len(b.m)
       /\ \A i \in DOMAIN a.m : Equals(a.m[i].value, b.m[i].value)
    \/ /\ a.t = "object" /\ b.t = "object" /\ SameSize(a, b)
       /\ \A i \in DOMAIN a.m : Equals(a.m[i].value, Get(b, a.m[i].key))

\* JsonObjectSerializer::begin_item and the loop that adds every member.  Mutant: the first
\* item has a comma too.
CommaAlways(i) == <<",">>
CommaUnlessEmpty(i) == IF i = 1 THEN <<>> ELSE <<",">>
DecimalDigit == <<"0", "1", "2", "3", "4", "5", "6", "7", "8", "9">>
RECURSIVE Decimal(_), Serialize(_)
Decimal(n) ==
    IF n < 0 THEN <<"-">> \o Decimal(-n)
    ELSE (IF n < 10 THEN <<>> ELSE Decimal(n \div 10)) \o <<DecimalDigit[(n % 10) + 1]>>
SerializedMember(member, i) == CommaUnlessEmpty(i) \o Quoted(member.key) \o <<":">> \o Serialize(member.value)
SerializedElement(member, i) == (IF i = 1 THEN <<>> ELSE <<",">>) \o Serialize(member.value)
Serialize(v) ==
    CASE v.t = "null" -> <<"null">>
      [] v.t = "bool" -> IF v = True THEN <<"true">> ELSE <<"false">>
      [] v.t = "string" -> Quoted(v.s)
      [] v.t = "object" -> <<"{">> \o FlattenSeq([i \in DOMAIN v.m |-> SerializedMember(v.m[i], i)]) \o <<"}">>
      [] v.t = "array" -> <<"[">> \o FlattenSeq([i \in DOMAIN v.m |-> SerializedElement(v.m[i], i)]) \o <<"]">>
      [] OTHER -> Decimal(v.n)

\* JsonPath::resolve: <<value>>, or nothing where a VERIFY stops the program.
Step(root, element) ==
    IF root = <<>> THEN root
    ELSE IF element.kind = "key" THEN IF root[1].t = "object" THEN <<Get(root[1], element.key)>> ELSE <<>>
    ELSE IF element.kind # "index" \/ root[1].t # "array" \/ element.index >= Len(root[1].m) THEN <<>>
    ELSE <<root[1].m[element.index + 1].value>>
Resolve(v, path) == FoldLeft(Step, <<v>>, path)
\* operator== of a path element
Matches(pattern, element) ==
    CASE element.kind = "key" -> pattern.kind = "any key" \/ (pattern.kind = "key" /\ pattern.key = element.key)
      [] element.kind = "index" -> pattern.kind = "any index" \/ (pattern.kind = "index" /\ pattern.index = element.index)
      [] element.kind = "any key" -> pattern.kind = "key"
      [] OTHER -> pattern.kind = "index"

-----------------------------------------------------------------------------
Idle == [op |-> "none"]
Init == call = Idle

Token == {<<c>> : c \in {"{", "}", "[", "]", ",", ":", " ", "1", "null"}} \cup {<<Quote, "a", Quote>>}
Scalars == {Null, True, False, Number("u32", 7), Number("u32", 12), Text(<<>>), Text(<<"a", Quote>>)}
Odd == {Number("i32", -3), Number("i32", 10), Text(<<"us", "lf">>), Text(<<"a", "cr">>), Number("u32", 1)}
Keys == {<<"a">>, <<Backslash>>}
Containers(values) ==
    {Array(<<>>), Object(<<>>)} \cup {Array(<<v>>) : v \in values} \cup {Array(<<v, w>>) : v, w \in values}
    \cup {Object(<<Member(k, v)>>) : k \in Keys \cup {<<"b">>}, v \in values}
    \cup {Object(<<Member(<<"a">>, v), Member(k, w)>>) : k \in {<<"b">>, <<Backslash>>}, v, w \in values}
Values == Scalars \cup Containers(Scalars)
Deep == {Null, Number("u32", 7), Array(<<Null>>), Object(<<Member(<<"a">>, True)>>)}
PathElements == {[kind |-> k, key |-> <<"a">>, index |-> i] : k \in {"key", "index", "any key", "any index"}, i \in {0, 1}}

ParseStructure ==
    \E tokens \in BoundedSeq(Token, MaxText) :
        LET in == FlattenSeq(tokens) IN call' = [op |-> "structure", in |-> in, r |-> Parse(in)]
ParseString ==
    \E s \in BoundedSeq({Quote, Backslash, "a", "lf", "us", "cr", "n"}, MaxString) :
        call' = [op |-> "string", s |-> s, raw |-> Parse(<<Quote>> \o s \o <<Quote>>), r |-> Parse(Quoted(s))]
ParseUnicode ==
    \E s \in BoundedSeq({" ", "0", "1", "f", "x"}, MaxString) :
        call' = [op |-> "unicode", s |-> s, r |-> Parse(<<Quote, Backslash, "u">> \o s \o <<Quote>>)]
ReadNumber ==
    \E s \in BoundedSeq({"-", ".", "0", "3", "5"}, MaxNumber) :
        call' = [op |-> "number", s |-> s, r |-> Parse(s)]
RoundTrip ==
    \E v \in Values \cup Containers(Deep) \cup Containers(Odd) :
        call' = [op |-> "round trip", v |-> v, r |-> Parse(Serialize(v))]
Compare ==
    \E a, b \in Values : call' = [op |-> "compare", a |-> a, b |-> b, equal |-> Equals(a, b), back |-> Equals(b, a)]
Construct ==
    \E type \in {"int", "unsigned", "long", "unsigned long", "long long", "unsigned long long"},
       n \in 0 .. 2 ^ (2 * NarrowBits - 1) - 1 :
        call' = [op |-> "construct", type |-> type, n |-> n, v |-> Constructed(type, n)]
ResolvePath ==
    \E v \in Containers(Deep), path \in BoundedSeq(PathElements, 2) :
        call' = [op |-> "resolve", v |-> v, path |-> path, r |-> Resolve(v, path)]
ChangeMembers ==
    \E v \in Containers(Deep), key \in Keys, w \in Scalars :
        v.t = "object" /\ call' = [op |-> "members", v |-> v, key |-> key, w |-> w,
                                  set |-> Object(SetMember(v.m, key, w)), removed |-> Object(RemoveMember(v.m, key))]
MatchElement ==
    \E a, b \in PathElements : call' = [op |-> "match", a |-> a, b |-> b, r |-> Matches(a, b)]

Next == call = Idle /\ (ParseStructure \/ ParseString \/ ParseUnicode \/ ReadNumber \/ RoundTrip \/ Compare
                         \/ Construct \/ ResolvePath \/ ChangeMembers \/ MatchElement)
Spec == Init /\ [][Next]_call

-----------------------------------------------------------------------------
\* JSON as its grammar says it: what is between two blanks, brackets and commas.
RECURSIVE IsJson(_), Separated(_, _)
Stripped(s) ==
    LET solid == {i \in DOMAIN s : s[i] # " "}
    IN  IF solid = {} THEN <<>>
        ELSE SubSeq(s, CHOOSE i \in solid : \A j \in solid : i <= j, CHOOSE i \in solid : \A j \in solid : i >= j)
Colons(s) == {c \in DOMAIN s : s[c] = ":" /\ Stripped(SubSeq(s, 1, c - 1)) = <<Quote, "a", Quote>>}
IsItem(s, object) == \E c \in IF object THEN Colons(s) ELSE {0} : IsJson(SubSeq(s, c + 1, Len(s)))
Separated(s, object) ==
    \E end \in {Len(s) + 1} \cup {c \in DOMAIN s : s[c] = ","} :
        IsItem(SubSeq(s, 1, end - 1), object) /\ (end > Len(s) \/ Separated(SubSeq(s, end + 1, Len(s)), object))
IsJson(s) ==
    LET t == Stripped(s)
        inner == SubSeq(t, 2, Len(t) - 1)
    IN  \/ t \in {<<"null">>, <<Quote, "a", Quote>>}
        \/ t # <<>> /\ \A i \in DOMAIN t : t[i] = "1"
        \/ /\ Len(t) >= 2 /\ <<t[1], t[Len(t)]>> \in {<<"{", "}">>, <<"[", "]">>}
           /\ Stripped(inner) = <<>> \/ Separated(inner, t[1] = "{")

\* What is left of a value that is written and read: the first digit of a number, and of a control
\* character that is written as \u the nul that its first 0 stands for.
FirstDigit(n) == LET d == Decimal(n) IN DigitValue[d[1]]
KeptText(s) == [i \in DOMAIN s |-> IF s[i] \in DOMAIN Unicode THEN "nul" ELSE s[i]]
RECURSIVE Kept(_), HasNegative(_)
Kept(v) == [v EXCEPT !.n = IF IsNumber(v) THEN FirstDigit(v.n) ELSE @, !.s = KeptText(@),
                     !.m = [i \in DOMAIN @ |-> Member(@[i].key, Kept(@[i].value))]]
HasNegative(v) == v.n < 0 \/ \E i \in DOMAIN v.m : HasNegative(v.m[i].value)

\* JsonParser accepts exactly the texts of the grammar and reads them to their end: blanks are
\* allowed around every token, a comma is between two members or elements and never last; a
\* string is what was escaped, but for control characters, and a control character in one is
\* refused; a number without a sign has no leading zero and is its first digit, and what is
\* behind the point the first digit there in the place of the last.
AcceptsTheGrammar ==
    /\ call.op = "structure" => (call.r.at # 0 <=> IsJson(call.in))
    /\ call.op = "string" => call.r.at # 0 /\ call.r.value = Text(KeptText(call.s))
    /\ call.op = "string" /\ call.raw.at # 0 => ToSet(call.s) \cap {"lf", "us", "cr"} = {}
    /\ call.op = "unicode" /\ call.r.at # 0 => Len(call.s) >= 4
    /\ call.op = "number" /\ call.r.at # 0 =>
           /\ \A i, j \in DOMAIN call.s : call.s[i] = "." /\ call.s[j] = "." => i = j
           /\ Len(call.s) >= 2 /\ call.s[1] = "0" => call.s[2] = "."
    /\ call.op = "number" /\ call.s # <<>> /\ "-" \notin ToSet(call.s) =>
           LET points == {i \in DOMAIN call.s : call.s[i] = "."}
               point == CHOOSE i \in points : TRUE
           IN  IF points = {} /\ (call.s[1] # "0" \/ Len(call.s) = 1)
               THEN call.r.at # 0 /\ ToNumber(call.r.value) = 100 * DigitValue[call.s[1]]
               ELSE call.r.at # 0 => ToNumber(call.r.value) = 100 * DigitValue[call.s[1]]
                                         + (100 * DigitValue[call.s[point + 1]]) \div 10 ^ (Len(call.s) - point)
\* Not so of the trimming in to_uint, to_int and convert_to_uint_from_hex (StringUtils.cpp:316-324; JsonParser.cpp:238-267
\* and 99): a number is read as what it spells, and it alone is taken for one (192-221 let a '-' follow a digit);
\* what was escaped is read back (StringBuilder.cpp:164-168).
NumbersMean ==
    call.op = "number" =>
        LET u == IF call.s # <<>> /\ call.s[1] = "-" THEN Tail(call.s) ELSE call.s
            points == {i \in DOMAIN u : u[i] = "."}
            point == IF points = {} THEN Len(u) + 1 ELSE CHOOSE i \in points : TRUE
            whole == Read(SubSeq(u, 1, point - 1), DigitValue, 10)
            fraction == IF points = {} THEN <<0>> ELSE Read(SubSeq(u, point + 1, Len(u)), DigitValue, 10)
            numeral == whole # <<>> /\ fraction # <<>> /\ (u[1] = "0" => point = 2)
            n == 100 * whole[1] + IF points = {} THEN 0 ELSE (100 * fraction[1]) \div 10 ^ (Len(u) - point)
        IN  (call.r.at # 0) = numeral /\ (numeral => ToNumber(call.r.value) = IF u = call.s THEN n ELSE -n)
StringsReadBack == call.op = "string" => call.r.at # 0 /\ call.r.value = Text(call.s)

\* What the serializers write is read back as the value that is left of it (see Kept), unless a number
\* in it is negative, of which the sign alone is left: then the text is refused.  JsonPath finds in a value
\* what its parts are, and the integers constructors take are the ones to_number returns.
ValuesKept ==
    /\ call.op = "round trip" =>
           /\ call.r.at # 0 <=> ~HasNegative(call.v)
           /\ call.r.at # 0 => Equals(call.r.value, Kept(call.v)) /\ Equals(Kept(call.v), call.r.value)
    /\ call.op = "construct" =>
           \/ call.v.n = call.n
           \/ call.type \in {"int", "unsigned", "unsigned long"} /\ call.n >= 2 ^ (NarrowBits - 1)
    /\ call.op = "members" =>
           /\ Equals(Get(call.set, call.key), call.w) /\ Has(call.set, call.key, {call.w.t})
           /\ ~Has(call.removed, call.key, {Get(call.v, call.key).t})
           /\ \A i \in DOMAIN call.v.m :
                  LET k == call.v.m[i].key
                  IN  k # call.key => Get(call.set, k) = call.v.m[i].value /\ Get(call.removed, k) = call.v.m[i].value
    /\ call.op = "resolve" /\ call.r # <<>> /\ call.path # <<>> =>
           \A i \in DOMAIN call.path : call.path[i].kind \in {"key", "index"}
    /\ call.op = "resolve" /\ Len(call.path) = 2 =>
           call.r = (IF Resolve(call.v, <<call.path[1]>>) = <<>> THEN <<>>
                     ELSE Resolve(Resolve(call.v, <<call.path[1]>>)[1], <<call.path[2]>>))
\* Not so, for the same reason: what the serializers write is read back as an equal value.  Nor is the value
\* of an unsigned long that of its JsonValue (JsonValue.cpp:115-121).
ValuesReadBack == call.op = "round trip" => call.r.at # 0 /\ Equals(call.r.value, call.v)
IntegersKept == call.op = "construct" /\ call.type = "unsigned long" => call.v.n = call.n

\* Where no member is null, JsonValue::equals is what equality is: the same both ways, and
\* two values are equal if and only if they have the same members, in any order.
RECURSIVE NullFree(_), SameValue(_, _)
NullFree(v) == v.t # "null" /\ \A i \in DOMAIN v.m : NullFree(v.m[i].value)
SameValue(a, b) ==
    /\ a.t = b.t /\ a.n = b.n /\ a.s = b.s /\ Len(a.m) = Len(b.m)
    /\ IF a.t = "object"
       THEN \A i \in DOMAIN a.m : \E j \in DOMAIN b.m : b.m[j].key = a.m[i].key /\ SameValue(a.m[i].value, b.m[j].value)
       ELSE \A i \in DOMAIN a.m : SameValue(a.m[i].value, b.m[i].value)
EqualityAgrees ==
    call.op = "compare" =>
        /\ call.a = call.b => call.equal
        /\ NullFree(call.a) /\ NullFree(call.b) => call.equal = call.back /\ (call.equal <=> SameValue(call.a, call.b))
\* Not so with a null member, which JsonObject::get also gives for what is not there (JsonObject.h:43-53).
EqualityWithNulls == call.op = "compare" => call.equal = call.back /\ (call.equal <=> SameValue(call.a, call.b))
=============================================================================
