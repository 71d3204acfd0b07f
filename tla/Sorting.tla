------------------------------ MODULE Sorting ------------------------------
(***************************************************************************)
(* AK/QuickSort.h, BinarySearch.h and FuzzyMatch.h.  Collections are       *)
(* sequences of numbers; offsets count from 0.  An action is a call with   *)
(* its result.                                                             *)
(***************************************************************************)
EXTENDS Integers, Sequences, FiniteSets, SequencesExt

CONSTANTS Element, MaxSize,        \* the collections sorted and searched
          Letter, MaxNeedle, MaxText, \* the strings that are matched; "A" is an upper case "a"
          RecursionLimit, MaxMatches, \* RECURSION_LIMIT and MAX_MATCHES (256)
          IndexValues  \* values of the u8 that holds where a letter matched (256)

VARIABLE call

Swap(s, i, j) == [s EXCEPT ![i + 1] = s[j + 1], ![j + 1] = s[i + 1]]

-----------------------------------------------------------------------------
(* Quick sort                                                              *)

\* dual_pivot_quick_sort: the two pivots are put at the ends of col[start .. end].
Pivoted(s, start, end) ==
    LET third == (end - start + 1) \div 3
        low == start + third
        high == end - third
    IN  IF end - start + 1 > 3
        THEN IF s[low + 1] < s[high + 1] THEN Swap(Swap(s, low, start), high, end)
                                         ELSE Swap(Swap(s, low, end), high, start)
        ELSE IF s[start + 1] >= s[end + 1] THEN Swap(s, start, end) ELSE s

RECURSIVE FromRight(_, _, _, _), Partition(_, _, _, _, _, _)
FromRight(s, right, k, g) == \* past what is not below the right pivot
    IF s[g + 1] >= s[right + 1] /\ k < g THEN FromRight(s, right, k, g - 1) ELSE g
\* What was swapped in from the right may belong to the left.  Mutant: it is left in the middle.
NotLookedAt(s, start, k) == FALSE
BelowLeft(s, start, k) == s[k + 1] < s[start + 1]
Partition(s, start, end, j, k, g) ==
    IF k > g THEN [s |-> s, left |-> j - 1, right |-> g + 1]
    ELSE IF s[k + 1] < s[start + 1] THEN Partition(Swap(s, k, j), start, end, j + 1, k + 1, g)
    ELSE IF s[k + 1] < s[end + 1] THEN Partition(s, start, end, j, k + 1, g)
    ELSE LET from == FromRight(s, end, k, g)
             t == Swap(s, k, from)
         IN  IF BelowLeft(t, start, k) THEN Partition(Swap(t, k, j), start, end, j + 1, k + 1, from - 1)
             ELSE Partition(t, start, end, j, k + 1, from - 1)

\* The order in which the three parts are sorted makes no difference to the result.
RECURSIVE DualPivot(_, _, _), SinglePivot(_, _, _)
DualPivot(s, start, end) ==
    IF start >= end THEN s
    ELSE LET p == Partition(Pivoted(s, start, end), start, end, start + 1, start + 1, end - 1)
             placed == Swap(Swap(p.s, start, p.left), end, p.right)
         IN  DualPivot(DualPivot(DualPivot(placed, start, p.left - 1), p.left + 1, p.right - 1), p.right + 1, end)

\* single_pivot_quick_sort of [start, end): the middle element is the pivot.
Gathered(s, start, end) ==
    FoldLeft(LAMBDA acc, j : IF acc.s[start + j + 1] < acc.s[start + 1]
                             THEN [s |-> Swap(acc.s, start + j, start + acc.i), i |-> acc.i + 1] ELSE acc,
             [s |-> Swap(s, start + (end - start) \div 2, start), i |-> 1],
             [j \in 1 .. end - start - 1 |-> j])
SinglePivot(s, start, end) ==
    IF end - start <= 1 THEN s
    ELSE LET g == Gathered(s, start, end)
             placed == Swap(g.s, start, start + g.i - 1)
         IN  SinglePivot(SinglePivot(placed, start, start + g.i - 1), start + g.i, end)

-----------------------------------------------------------------------------
(* Binary search: the index found, or -1, and the nearby index             *)

RECURSIVE Searched(_, _, _, _)
Searched(s, needle, low, high) ==
    LET middle == low + (high - low) \div 2
        lower == IF low < high THEN low ELSE high
    IN  IF low > high THEN [found |-> -1, nearby |-> lower]
        ELSE IF needle = s[middle + 1] THEN [found |-> middle, nearby |-> middle]
        ELSE IF needle > s[middle + 1] THEN Searched(s, needle, middle + 1, high)
        ELSE IF middle = 0 THEN [found |-> -1, nearby |-> lower] \* the indices are not signed
        ELSE Searched(s, needle, low, middle - 1)
BinarySearch(s, needle) ==
    IF s = <<>> THEN [found |-> -1, nearby |-> 0] ELSE Searched(s, needle, 0, Len(s) - 1)

-----------------------------------------------------------------------------
(* Fuzzy match                                                             *)

Lower(c) == IF c = "A" THEN "a" ELSE c
Upper(c) == IF c = "a" THEN "A" ELSE c
\* calculate_score: whether a match is next to "the one before it" is judged by the first match.
\* The letter before the text's first one is asked for where a later index has become 0.
ScoreStops(points) == \E i \in 2 .. Len(points) : points[i] = 0
Score(text, points) ==
    LET penalty == IF points[1] * 5 > 15 THEN -15 ELSE -(5 * points[1])
        letter(i) == points[i] + 1
        bonus(i) ==
            (IF points[i] = 0 THEN 20 ELSE 0)
            + IF i = 1 THEN 0
              ELSE (IF points[i] - 1 = points[1] THEN 15 ELSE 0)
                   + (IF text[letter(i) - 1] # Upper(text[letter(i) - 1]) /\ text[letter(i)] # Lower(text[letter(i)]) THEN 30 ELSE 0)
                   + (IF text[letter(i) - 1] = "_" THEN 30 ELSE 0)
    IN  100 + penalty - (Len(text) - Len(points)) + FoldLeft(LAMBDA sum, b : sum + b, 0, [i \in DOMAIN points |-> bonus(i)])

\* fuzzy_match_recursive, with the count of the calls made so far going in and coming out.
\* Mutant: whatever letter is there is taken.
AnyLetter(needle, text, n, h) == TRUE
SameLetter(needle, text, n, h) == Lower(needle[n + 1]) = Lower(text[h + 1])
RECURSIVE Fuzzy(_, _, _, _, _, _), Scan(_, _, _, _, _, _)
NoMatch == [outcome |-> "none", score |-> 0, points |-> <<>>]
Stopped == [outcome |-> "stops", score |-> 0, points |-> <<>>]
Fuzzy(needle, text, n, h, points, count) ==
    IF count + 1 >= RecursionLimit \/ n = Len(needle) \/ h = Len(text) THEN [result |-> NoMatch, count |-> count + 1]
    ELSE Scan(needle, text, [n |-> n, h |-> h], points, NoMatch, count + 1)
\* The loop: best is the best of the matches that skip a letter this one takes.
Scan(needle, text, at, points, best, count) ==
    IF at.n < Len(needle) /\ at.h < Len(text)
    THEN IF ~SameLetter(needle, text, at.n, at.h)
         THEN Scan(needle, text, [at EXCEPT !.h = @ + 1], points, best, count)
         ELSE IF Len(points) >= MaxMatches THEN [result |-> NoMatch, count |-> count]
         ELSE LET skip == Fuzzy(needle, text, at.n, at.h + 1, points, count)
                  better == skip.result.outcome = "match" /\ (best.outcome # "match" \/ skip.result.score > best.score)
              IN  IF skip.result = Stopped THEN skip
                  ELSE Scan(needle, text, [n |-> at.n + 1, h |-> at.h + 1], Append(points, at.h % IndexValues),
                            IF better THEN skip.result ELSE best, skip.count)
    ELSE LET own == [outcome |-> "match", score |-> Score(text, points), points |-> points]
         IN  [result |-> IF at.n < Len(needle) THEN NoMatch
                         ELSE IF ScoreStops(points) THEN Stopped
                         ELSE IF best.outcome = "match" /\ best.score > own.score THEN best ELSE own,
              count |-> count]
FuzzyMatch(needle, text) == Fuzzy(needle, text, 0, 0, <<>>, 0).result

-----------------------------------------------------------------------------
Idle == [op |-> "none"]
Init == call = Idle
Sort ==
    \E s \in BoundedSeq(Element, MaxSize) :
        call' = [op |-> "sort", s |-> s, dual |-> DualPivot(s, 0, Len(s) - 1), single |-> SinglePivot(s, 0, Len(s))]
Ascending(s) == \A i \in 1 .. Len(s) - 1 : s[i] <= s[i + 1]
LookUp ==
    \E s \in {t \in BoundedSeq(Element, MaxSize) : Ascending(t)}, needle \in Element :
        call' = [op |-> "search", s |-> s, needle |-> needle, result |-> BinarySearch(s, needle)]
Match ==
    \E needle \in BoundedSeq(Letter, MaxNeedle), text \in BoundedSeq(Letter, MaxText) :
        call' = [op |-> "fuzzy", needle |-> needle, text |-> text, result |-> FuzzyMatch(needle, text)]
Next == call = Idle /\ (Sort \/ LookUp \/ Match)
Spec == Init /\ [][Next]_call

-----------------------------------------------------------------------------
(* Properties                                                              *)

\* Both sorts leave the elements they were given, in order.
SortsAll ==
    call.op = "sort" =>
        \A t \in {call.dual, call.single} :
            /\ Ascending(t) /\ Len(t) = Len(call.s)
            /\ \A e \in ToSet(call.s) : Len(SelectSeq(t, LAMBDA x : x = e)) = Len(SelectSeq(call.s, LAMBDA x : x = e))

\* The search finds a needle exactly if it is there; the nearby index is in the haystack, and
\* all before it is below the needle and all behind it above.
FindsNearby ==
    call.op = "search" =>
        LET s == call.s  near == call.result.nearby
        IN  /\ (call.result.found = -1) = (call.needle \notin ToSet(s))
            /\ call.result.found # -1 => s[call.result.found + 1] = call.needle
            /\ call.result.found = -1 /\ s # <<>> =>
                  /\ near \in 0 .. Len(s) - 1
                  /\ \A i \in 0 .. near - 1 : s[i + 1] < call.needle
                  /\ \A i \in near + 1 .. Len(s) - 1 : s[i + 1] > call.needle

\* A needle that matches has its letters in the text in their order and is no longer than MaxMatches; one
\* that does matches, whatever the limit of the recursion cuts off, or stops the program, which it does only
\* in a text longer than an index counts.  The score is that of letters that match, in the places that
\* are kept of them, and in a shorter text no lower than that of the first ones that do.
RECURSIVE Embeds(_, _), Earliest(_, _, _)
Embeds(needle, text) ==
    needle = <<>> \/ (text # <<>> /\ Embeds(IF Lower(Head(needle)) = Lower(Head(text)) THEN Tail(needle) ELSE needle, Tail(text)))
Earliest(needle, text, h) ==
    IF needle = <<>> THEN <<>>
    ELSE IF Lower(Head(needle)) = Lower(text[h + 1]) THEN <<h>> \o Earliest(Tail(needle), text, h + 1)
    ELSE Earliest(needle, text, h + 1)
MatchesInOrder ==
    call.op = "fuzzy" =>
        LET r == call.result
            counted == Len(call.text) <= IndexValues
            Kept(i, h) == h % IndexValues = r.points[i] /\ Lower(call.text[h + 1]) = Lower(call.needle[i])
        IN  /\ r.outcome \in {"match", "stops"} <=>
                  call.needle # <<>> /\ Embeds(call.needle, call.text) /\ Len(call.needle) <= MaxMatches
            /\ counted => r.outcome # "stops"
            /\ r.outcome = "match" =>
                  /\ Len(r.points) = Len(call.needle) /\ r.score = Score(call.text, r.points)
                  /\ \A i \in DOMAIN r.points : \E h \in 0 .. Len(call.text) - 1 : Kept(i, h)
                  /\ counted => /\ \A i \in 1 .. Len(r.points) - 1 : r.points[i] < r.points[i + 1]
                                /\ r.score >= Score(call.text, Earliest(call.needle, call.text, 0))
\* Not so of FuzzyMatch.h:80-81 and 97: a needle matches if its letters are in the text in their order, and
\* a text is matched however long it is.
EveryMatchFound ==
    call.op = "fuzzy" /\ call.result.outcome # "stops" =>
        (call.result.outcome = "match") = (call.needle # <<>> /\ Embeds(call.needle, call.text))
MatchingEnds == call.op = "fuzzy" => call.result.outcome # "stops"

\* FuzzyMatch.h:17: "bonus for adjacent matches": every match right behind the one before it adds
\* the bonus of 15.
AdjacentMatchesScore ==
    call.op = "fuzzy" /\ call.result.outcome = "match" =>
        LET points == call.result.points
            adjacent == Cardinality({i \in 2 .. Len(points) : points[i] = points[i - 1] + 1})
        IN  call.result.score >= 100 - 15 - Len(call.text) + 15 * adjacent
=============================================================================
