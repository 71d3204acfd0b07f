---------------------------- MODULE StringSearch ----------------------------
(***************************************************************************)
(* AK/StringUtils.cpp, StringView.h/.cpp and MemMem.h: searching, matching,*)
(* splitting, trimming and replacing.  A string is a sequence of           *)
(* characters, which are names; offsets count from 0 and None is an empty  *)
(* Optional.  An action is a call with its result.                         *)
(***************************************************************************)
EXTENDS Integers, Sequences, FiniteSets, SequencesExt

CONSTANTS Letter,       \* the letters of the strings; "A" is the upper case of "a"
          MaxHaystack, MaxNeedle, MaxMask, \* bounds: the lengths of the strings
          BitapLimit    \* the length from which memmem uses Knuth, Morris and Pratt's way

VARIABLE call

None == -1
Halts == -2 \* a VERIFY fails, or a length wraps and the memory read is not the string's
Lower(c) == IF c = "A" THEN "a" ELSE c
Folded(s) == [i \in DOMAIN s |-> Lower(s[i])]
From(s, i) == SubSeq(s, i + 1, Len(s))
Piece(s, from, count) == SubSeq(s, from + 1, from + count)
SetMin(S) == CHOOSE x \in S : \A y \in S : x <= y
FirstOf(S) == IF S = {} THEN None ELSE SetMin(S)

-----------------------------------------------------------------------------
(* memmem                                                                  *)

\* bitap_bitwise: the lengths of the prefixes of the needle that end here, one per bit.
\* Mutant: the empty prefix is not started again at each character.
StartsOnce(prefixes, needle, c) == {i + 1 : i \in {j \in prefixes : j < Len(needle) /\ needle[j + 1] = c}}
Shifted(prefixes, needle, c) ==
    {0} \cup {i + 1 : i \in {j \in prefixes : j < Len(needle) /\ needle[j + 1] = c}}
RECURSIVE Bitap(_, _, _, _)
Bitap(haystack, needle, prefixes, i) ==
    IF i = Len(haystack) THEN None
    ELSE LET now == Shifted(prefixes, needle, haystack[i + 1])
         IN  IF Len(needle) \in now THEN i + 1 - Len(needle) ELSE Bitap(haystack, needle, now, i + 1)

RECURSIVE Fallback(_, _, _, _), PartialTable(_, _, _, _), Kmp(_, _, _, _, _)
Fallback(table, needle, candidate, position) ==
    LET c == table[candidate]
    IN  IF c >= 0 /\ needle[c + 1] # needle[position + 1] THEN Fallback(table, needle, c, position) ELSE c
PartialTable(table, needle, position, candidate) ==
    IF position >= Len(needle) THEN table
    ELSE IF needle[position + 1] = needle[candidate + 1]
    THEN PartialTable([table EXCEPT ![position] = table[candidate]], needle, position + 1, candidate + 1)
    ELSE LET t == [table EXCEPT ![position] = candidate]
         IN  PartialTable(t, needle, position + 1, Fallback(t, needle, candidate, position) + 1)
KmpTable(needle) == PartialTable([i \in 0 .. Len(needle) - 1 |-> None], needle, 1, 0)
\* at counts the characters before what is left in the first of the chunks.
Kmp(chunks, table, needle, at, n) ==
    IF chunks = <<>> THEN None
    ELSE LET chunk == Head(chunks)
             next == <<Tail(chunk)>> \o Tail(chunks)
         IN  IF chunk = <<>> THEN Kmp(Tail(chunks), table, needle, at, n)
             ELSE IF needle[n + 1] = Head(chunk)
             THEN IF n + 1 = Len(needle) THEN at - n ELSE Kmp(next, table, needle, at + 1, n + 1)
             ELSE IF table[n] < 0 THEN Kmp(next, table, needle, at + 1, 0)
             ELSE Kmp(chunks, table, needle, at, table[n])
MemMem(haystack, needle) ==
    IF needle = <<>> THEN 0
    ELSE IF Len(haystack) < Len(needle) THEN None
    ELSE IF Len(haystack) = Len(needle) THEN IF haystack = needle THEN 0 ELSE None
    ELSE IF Len(needle) < BitapLimit THEN Bitap(haystack, needle, {0}, 0)
    ELSE Kmp(<<haystack>>, KmpTable(needle), needle, 0, 0)

-----------------------------------------------------------------------------
(* StringUtils                                                             *)

Find(haystack, needle, start) ==
    IF start > Len(haystack) THEN None
    ELSE LET i == MemMem(From(haystack, start), needle) IN IF i = None THEN None ELSE i + start
FindChar(haystack, c, start) == FirstOf({i \in start .. Len(haystack) - 1 : haystack[i + 1] = c})
Backward(S) == IF S = {} THEN None ELSE CHOOSE i \in S : \A j \in S : j <= i
FindLast(haystack, c) == Backward({i \in 0 .. Len(haystack) - 1 : haystack[i + 1] = c})
FindAnyOf(haystack, needles, forward) ==
    LET at == {i \in 0 .. Len(haystack) - 1 : haystack[i + 1] \in ToSet(needles)}
    IN  IF forward THEN FirstOf(at) ELSE Backward(at)
RECURSIVE FindAll(_, _, _)
FindAll(haystack, needle, from) ==
    LET i == Find(haystack, needle, from)
    IN  IF i = None THEN <<>> ELSE <<i>> \o FindAll(haystack, needle, i + 1)

StartsWith(s, start, sensitive) ==
    /\ Len(start) <= Len(s)
    /\ IF sensitive THEN Piece(s, 0, Len(start)) = start
                    ELSE Folded(Piece(s, 0, Len(start))) = Folded(start)
\* Ignoring the case, the end of the string is compared with the start of the string itself.
EndsWith(s, end, sensitive) ==
    \/ end = <<>>
    \/ /\ Len(end) <= Len(s)
       /\ IF sensitive THEN From(s, Len(s) - Len(end)) = end
          ELSE Folded(From(s, Len(s) - Len(end))) = Folded(Piece(s, 0, Len(end)))
\* After a partial match of ni characters the search goes on behind them.
RECURSIVE ContainsFolded(_, _, _)
ContainsFolded(s, needle, si) ==
    LET rest == From(Folded(s), si)
        differ == FirstOf({i \in 0 .. Len(needle) - 1 : i < Len(rest) /\ rest[i + 1] # Folded(needle)[i + 1]})
    IN  /\ si < Len(s)
        /\ \/ differ = None /\ Len(needle) <= Len(rest)
           \/ ContainsFolded(s, needle, IF differ > 0 THEN si + differ ELSE si + 1)
ContainsView(s, needle, sensitive) ==
    /\ s # <<>> /\ Len(needle) <= Len(s)
    /\ needle = <<>> \/ IF sensitive THEN MemMem(s, needle) # None ELSE ContainsFolded(s, needle, 0)
\* A needle longer by two or more makes the bound wrap: substring_view is asked past the end.
Count(s, needle) ==
    IF needle = <<>> THEN Len(s)
    ELSE IF Len(needle) > Len(s) + 1 THEN Halts
    ELSE Cardinality({i \in 0 .. Len(s) - Len(needle) : StartsWith(From(s, i), needle, TRUE)})
\* replace: what lies between two positions that overlap has a negative length.
RECURSIVE Rebuilt(_, _, _, _, _)
Rebuilt(s, positions, length, with, last) ==
    IF positions = <<>> THEN From(s, last)
    ELSE SubSeq(s, last + 1, Head(positions)) \o with
           \o Rebuilt(s, Tail(positions), length, with, Head(positions) + length)
Replace(s, needle, with, all) ==
    LET found == FindAll(s, needle, 0)
        positions == IF all \/ found = <<>> THEN found ELSE <<Find(s, needle, 0)>>
    IN  IF s = <<>> \/ positions = <<>> THEN s
        ELSE IF \E i \in 1 .. Len(positions) - 1 : positions[i + 1] < positions[i] + Len(needle) THEN <<"halts">>
        ELSE Rebuilt(s, positions, Len(needle), with, 0)

\* trim.  On the right the characters that are NOT to be trimmed are taken off, down to one
\* that is.
LeftTrimmed(s, characters) ==
    FirstOf({i \in 0 .. Len(s) : i = Len(s) \/ s[i + 1] \notin characters})
RightTrimmed(s, start, characters) ==
    LET stop == Backward({i \in 1 .. Len(s) - 1 : s[i + 1] \in characters})
        dropped == IF stop = None THEN Len(s) - 1 ELSE Len(s) - 1 - stop
    IN  IF s = <<>> \/ dropped > Len(s) - start THEN 0 ELSE Len(s) - start - dropped
Trim(s, characters, left, right) ==
    LET start == IF left THEN LeftTrimmed(s, characters) ELSE 0
    IN  Piece(s, start, IF right THEN RightTrimmed(s, start, characters) ELSE Len(s) - start)

\* matches, with the spans its wild cards stand for.
RECURSIVE Matches(_, _, _), Skipped(_, _, _)
NoMatch == [matched |-> FALSE, spans |-> <<>>]
Skipped(s, mask, sensitive) == \* how far a '*' reaches that is not the last of the mask
    IF s = <<>> \/ Matches(s, mask, sensitive).matched THEN 0 ELSE 1 + Skipped(Tail(s), mask, sensitive)
Moved(spans, by) == [i \in DOMAIN spans |-> <<spans[i][1] + by, spans[i][2]>>]
Behind(first, s, mask, sensitive, by) == \* the loop goes on by characters further
    LET rest == Matches(From(s, by), mask, sensitive)
    IN  IF rest.matched THEN [rest EXCEPT !.spans = first \o Moved(@, by)] ELSE NoMatch
Stars(mask) == \* at the end of the string
    IF \A i \in DOMAIN mask : mask[i] = "*"
    THEN [matched |-> TRUE, spans |-> [i \in DOMAIN mask |-> <<0, 0>>]] ELSE NoMatch
Matches(s, mask, sensitive) ==
    IF s = <<>> THEN Stars(mask)
    ELSE IF mask = <<>> THEN NoMatch
    ELSE LET rest == Tail(mask)
         IN  CASE mask = <<"*">> -> [matched |-> TRUE, spans |-> <<<<0, Len(s)>>>>]
               [] Head(mask) = "*" /\ rest # <<>> ->
                    LET n == Skipped(s, rest, sensitive) IN Behind(<<<<0, n>>>>, s, rest, sensitive, n)
               [] Head(mask) = "?" -> Behind(<<<<0, 1>>>>, s, rest, sensitive, 1)
               [] OTHER -> IF IF sensitive THEN Head(mask) # Head(s) ELSE Lower(Head(mask)) # Lower(Head(s))
                           THEN NoMatch ELSE Behind(<<>>, s, rest, sensitive, 1)

-----------------------------------------------------------------------------
(* StringView                                                              *)

RECURSIVE SplitView(_, _, _), SplitLimit(_, _, _, _, _)
SplitView(s, separator, keepEmpty) == \* for_each_split_view, from where the rest is
    LET i == Find(s, separator, 0)
        part == IF i = None THEN s ELSE Piece(s, 0, i)
        kept == IF keepEmpty \/ part # <<>> THEN <<part>> ELSE <<>>
    IN  IF i = None THEN kept ELSE kept \o SplitView(From(s, i + Len(separator)), separator, keepEmpty)
Split(s, separator, keepEmpty) == IF s = <<>> THEN <<>> ELSE SplitView(s, separator, keepEmpty)
SplitIf(s, predicate, keepEmpty) == \* split_view_if
    LET cuts == SetToSortSeq({i \in DOMAIN s : s[i] \in predicate}, LAMBDA a, b : a < b)
        ends == <<0>> \o cuts \o <<Len(s) + 1>>
        parts == [i \in 1 .. Len(cuts) + 1 |-> SubSeq(s, ends[i] + 1, ends[i + 1] - 1)]
    IN  IF s = <<>> THEN <<>> ELSE SelectSeq(parts, LAMBDA p : keepEmpty \/ p # <<>>)
\* String::split_limit: no separator is looked for once one part less than the limit is there.
SplitLimit(s, separator, limit, keepEmpty, parts) ==
    LET i == FindChar(s, separator, 0)
        part == IF i = None \/ Len(parts) + 1 = limit THEN s ELSE Piece(s, 0, i)
        with == IF keepEmpty \/ part # <<>> THEN Append(parts, part) ELSE parts
    IN  IF i = None \/ Len(parts) + 1 = limit THEN with
        ELSE SplitLimit(From(s, i + 1), separator, limit, keepEmpty, with)
\* lines.  A line feed right behind a carriage return only moves the start of the next line.
\* Mutant: it ends a line of its own.
EndsOwn(c, lastWasCr) == c \in {"cr", "lf"}
EndsLine(c, lastWasCr) == c = "cr" \/ (c = "lf" /\ ~lastWasCr)
RECURSIVE LinesFrom(_, _, _)
LinesFrom(s, line, lastWasCr) ==
    IF s = <<>> THEN IF line = <<>> THEN <<>> ELSE <<line>>
    ELSE LET c == Head(s)
         IN  IF EndsLine(c, lastWasCr) THEN <<line>> \o LinesFrom(Tail(s), <<>>, c = "cr")
             ELSE LinesFrom(Tail(s), IF c = "lf" THEN <<>> ELSE Append(line, c), FALSE)
Lines(s) == LinesFrom(s, <<>>, FALSE)

\* compare: whatever is the shorter one, a prefix of the other makes it 1.
Compare(a, b, rank) ==
    LET n == IF Len(a) < Len(b) THEN Len(a) ELSE Len(b)
        i == FirstOf({j \in 0 .. n - 1 : a[j + 1] # b[j + 1]})
    IN  IF i # None THEN IF rank[a[i + 1]] < rank[b[i + 1]] THEN -1 ELSE 1
        ELSE IF Len(a) = Len(b) THEN 0 ELSE 1

-----------------------------------------------------------------------------
Idle == [op |-> "none"]
Init == call = Idle
Rank == [c \in {"A", "a", "b"} |-> CASE c = "A" -> 1 [] c = "a" -> 2 [] c = "b" -> 3]

Match ==
    \E s \in BoundedSeq(Letter, MaxNeedle), mask \in BoundedSeq({"a", "b", "*", "?"}, MaxMask), sensitive \in BOOLEAN :
        call' = [op |-> "matches", s |-> s, mask |-> mask, sensitive |-> sensitive,
                 result |-> Matches(s, mask, sensitive)]
Search ==
    \E s \in BoundedSeq(Letter, MaxHaystack), needle \in BoundedSeq(Letter, MaxNeedle) :
        call' = [op |-> "search", s |-> s, needle |-> needle,
                 find |-> [i \in 0 .. Len(s) + 1 |-> Find(s, needle, i)], all |-> FindAll(s, needle, 0),
                 chunked |-> IF needle = <<>> THEN <<>>
                             ELSE [i \in 1 .. Len(s) |->
                                      Kmp(<<Piece(s, 0, i), From(s, i)>>, KmpTable(needle), needle, 0, 0)],
                 contains |-> [sensitive \in BOOLEAN |-> ContainsView(s, needle, sensitive)],
                 count |-> Count(s, needle),
                 starts |-> [sensitive \in BOOLEAN |-> StartsWith(s, needle, sensitive)],
                 ends |-> [sensitive \in BOOLEAN |-> EndsWith(s, needle, sensitive)],
                 anyOf |-> [forward \in BOOLEAN |-> FindAnyOf(s, needle, forward)],
                 replaced |-> [all \in BOOLEAN |-> Replace(s, needle, <<"c">>, all)]]
Cut ==
    \E s \in BoundedSeq({"a", "cr", "lf"}, MaxHaystack), limit \in 0 .. 3 :
        call' = [op |-> "split", s |-> s, limit |-> limit, lines |-> Lines(s),
                 split |-> [keep \in BOOLEAN |-> Split(s, <<"lf">>, keep)],
                 pair |-> Split(s, <<"cr", "lf">>, TRUE),
                 splitIf |-> [keep \in BOOLEAN |-> SplitIf(s, {"lf"}, keep)],
                 splitLimit |-> [keep \in BOOLEAN |-> IF s = <<>> THEN <<>> ELSE SplitLimit(s, "lf", limit, keep, <<>>)],
                 trim |-> [mode \in {"left", "right", "both"} |->
                              Trim(s, {"cr", "lf"}, mode # "right", mode # "left")]]
Order ==
    \E a, b \in BoundedSeq(Letter, MaxNeedle) :
        call' = [op |-> "compare", a |-> a, b |-> b, result |-> Compare(a, b, Rank), back |-> Compare(b, a, Rank)]
Next == call = Idle /\ (Match \/ Search \/ Cut \/ Order)
Spec == Init /\ [][Next]_call

-----------------------------------------------------------------------------
(* Properties                                                              *)

Joined(parts, with) == \* the parts with what separated them
    FlattenSeq([i \in 1 .. Len(parts) |-> IF i = 1 THEN parts[i] ELSE with \o parts[i]])
At(s, needle) == {i \in 0 .. Len(s) - Len(needle) : Piece(s, i, Len(needle)) = needle}
Periodic(s) == \E i \in 1 .. Len(s) - 1 : From(s, i) = Piece(s, 0, Len(s) - i)

\* A mask matches exactly if its wild cards can stand for parts of the string, and the spans
\* recorded, one for each wild card, put in its place give the string.
RECURSIVE Denotes(_, _, _)
Denotes(mask, s, sensitive) ==
    IF mask = <<>> THEN s = <<>>
    ELSE \/ Head(mask) = "*" /\ \E n \in 0 .. Len(s) : Denotes(Tail(mask), From(s, n), sensitive)
         \/ /\ s # <<>> /\ Denotes(Tail(mask), Tail(s), sensitive)
            /\ \/ Head(mask) = "?" \/ Head(mask) = Head(s)
               \/ ~sensitive /\ Lower(Head(mask)) = Lower(Head(s))
MasksMean ==
    call.op = "matches" =>
        LET mask == call.mask  spans == call.result.spans
            wild(n) == Cardinality({i \in 1 .. n : mask[i] \in {"*", "?"}})
        IN  /\ call.result.matched = Denotes(mask, call.s, call.sensitive)
            /\ call.result.matched =>
                  /\ Len(spans) = wild(Len(mask))
                  /\ Folded(call.s) = Folded(FlattenSeq([i \in DOMAIN mask |->
                        IF mask[i] \notin {"*", "?"} THEN <<mask[i]>>
                        ELSE Piece(call.s, spans[wild(i)][1], spans[wild(i)][2])]))

\* Every way of searching finds the first place where the needle is, whatever chunks the
\* haystack comes in; what is found ignoring the case is there, and it is found if the needle
\* does not begin again within itself; replacing goes wrong exactly where matches overlap.  (Nothing
\* is claimed of the end of a string ignoring the case, nor of a count that stops: see below.)
SearchesAgree ==
    call.op = "search" =>
        LET s == call.s  needle == call.needle  at == At(s, needle)
            folded == At(Folded(s), Folded(needle))
        IN  /\ \A i \in DOMAIN call.find : call.find[i] = FirstOf({j \in at : j >= i})
            /\ ToSet(call.all) = at /\ \A i, j \in DOMAIN call.all : i < j => call.all[i] < call.all[j]
            /\ \A i \in DOMAIN call.chunked : call.chunked[i] = FirstOf(at)
            /\ call.contains[TRUE] = (s # <<>> /\ at # {})
            /\ call.contains[FALSE] => folded # {}
            /\ s # <<>> /\ folded # {} /\ (\A i \in 2 .. Len(needle) : Lower(needle[i]) # Lower(needle[1])) =>
                  call.contains[FALSE]
            /\ call.count # Halts /\ needle # <<>> => call.count = Cardinality(at)
            /\ call.starts[TRUE] = (0 \in at) /\ call.starts[FALSE] = (0 \in folded)
            /\ call.ends[TRUE] = (Len(s) - Len(needle) \in at)
            /\ needle # <<>> =>
                  /\ (call.replaced[TRUE] = <<"halts">>) = \E i, j \in at : i < j /\ j < i + Len(needle)
                  /\ \A all \in BOOLEAN : call.replaced[all] # <<"halts">> =>
                        /\ Len(call.replaced[all]) - Len(s) =
                              (1 - Len(needle)) * (IF all \/ at = {} THEN Cardinality(at) ELSE 1)
                        /\ all => FlattenSeq([i \in DOMAIN call.replaced[all] |->
                                     IF call.replaced[all][i] = "c" THEN needle ELSE <<call.replaced[all][i]>>]) = s

\* Not so of StringUtils.cpp: a string ends with another ignoring the case exactly if it does (236, which
\* compares it with its own start), what is there ignoring the case is found (281-295 go on behind a partial
\* match), and a count or a replacement gives something (466-476, 454-462).
EndsIgnoringCase ==
    call.op = "search" => call.ends[FALSE] = (Len(call.s) - Len(call.needle) \in At(Folded(call.s), Folded(call.needle)))
FoundIgnoringCase ==
    call.op = "search" /\ call.s # <<>> => call.contains[FALSE] = (At(Folded(call.s), Folded(call.needle)) # {})
CountsAndReplaces ==
    call.op = "search" /\ call.needle # <<>> =>
        call.count # Halts /\ \A all \in BOOLEAN : call.replaced[all] # <<"halts">>

\* StringView.h:146: the lines are what lies between line ends, a line feed, a carriage return
\* or the pair of them; joined with the separator the parts of a split are the string again;
\* with a limit there are no more parts than that; trimming on the left takes off all there is
\* to trim, and trimming on the right, of what is not to be trimmed (316-324), leaves a character to
\* trim at the end, or one character.
RECURSIVE Ends(_)
Ends(s) == \* the string with each line end as one "lf"
    IF s = <<>> THEN <<>>
    ELSE IF Len(s) > 1 /\ s[1] = "cr" /\ s[2] = "lf" THEN <<"lf">> \o Ends(From(s, 2))
    ELSE <<IF s[1] = "cr" THEN "lf" ELSE s[1]>> \o Ends(Tail(s))
PartsJoin ==
    call.op = "split" =>
        LET s == call.s  ended == Ends(s)  cut(keep) == call.splitLimit[keep]
            last(t) == t[Len(t)]
        IN  /\ ended # <<>> => Joined(call.lines, <<"lf">>) =
                  IF last(ended) = "lf" THEN SubSeq(ended, 1, Len(ended) - 1) ELSE ended
            /\ Joined(call.split[TRUE], <<"lf">>) = s /\ Joined(call.pair, <<"cr", "lf">>) = s
            /\ call.split[FALSE] = SelectSeq(call.split[TRUE], LAMBDA p : p # <<>>)
            /\ call.splitIf = call.split
            /\ Joined(cut(TRUE), <<"lf">>) = s
            /\ \A keep \in BOOLEAN : IF call.limit = 0 THEN cut(keep) = call.split[keep] ELSE Len(cut(keep)) <= call.limit
            /\ call.trim["left"] = From(s, FirstOf({i \in 0 .. Len(s) : i = Len(s) \/ s[i + 1] = "a"}))
            /\ Len(call.trim["right"]) > 1 => last(call.trim["right"]) # "a"

\* Not so of StringUtils.cpp:316-324: trimming takes off what is to be trimmed, and no more.
TrimsBlanks ==
    call.op = "split" =>
        LET solid == {i \in DOMAIN call.s : call.s[i] = "a"}
            end == IF solid = {} THEN 0 ELSE CHOOSE i \in solid : \A j \in solid : j <= i
        IN  /\ call.trim["right"] = SubSeq(call.s, 1, end)
            /\ call.trim["both"] = IF solid = {} THEN <<>> ELSE SubSeq(call.s, SetMin(solid), end)

\* Two strings compare as equal exactly if they are, and where neither is a prefix of the
\* other exactly one is before.
ComparesAlike ==
    call.op = "compare" =>
        LET a == call.a  b == call.b
        IN  /\ (call.result = 0) = (a = b)
            /\ 0 \notin At(a, b) \cup At(b, a) => call.result = -call.back
\* Not so of StringView.h:199-228, where a prefix of the other comes behind it as well: one of two
\* strings that differ is before the other.
PrefixesOrdered == call.op = "compare" => call.result = -call.back
=============================================================================
