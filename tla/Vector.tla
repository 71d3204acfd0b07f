------------------------------- MODULE Vector -------------------------------
(***************************************************************************)
(* AK/Vector.h: values in an inline buffer until more than fit are asked   *)
(* for, in an allocated one from then on.  Two vectors of non-trivial      *)
(* values are moved, copied, appended and prepended to each other; a slot  *)
(* holds a value, the remains of one that was moved from, or nothing.      *)
(* A failing allocation is an error returned before anything has changed   *)
(* (or a panic, in the operations that MUST succeed), no step.             *)
(***************************************************************************)
EXTENDS Integers, Sequences, FiniteSets, SequencesExt

CONSTANTS Value, Moved,
          InlineCapacity, \* inline_capacity
          MaxSize         \* bound: no operation that makes a vector longer

VARIABLE vectors \* two vectors, and whether the last operation did what it means

\* kmalloc_good_size in elements: an allocation holds an even number of them.
GoodSize(n) == n + (n % 2)
PaddedCapacity(n) == IF n + n \div 4 + 4 < 4 THEN 4 ELSE n + n \div 4 + 4

Fresh == [size |-> 0, cap |-> InlineCapacity, outline |-> FALSE, slot |-> <<>>, lost |-> FALSE]
NoCapacity == [Fresh EXCEPT !.cap = 0]
Init == vectors = [a |-> Fresh, b |-> Fresh, right |-> TRUE]

\* The constructed slots are numbered from 0; m_size of them are the contents.
Contents(v) == [i \in 1 .. v.size |-> v.slot[i - 1]]
Holding(s) == [i \in 0 .. Len(s) - 1 |-> s[i + 1]]

\* new (slot(i)) StorageType(x): a value that was there and not destroyed is lost.
Construct(v, i, x) ==
    [v EXCEPT !.slot = [j \in DOMAIN @ \union {i} |-> IF j = i THEN x ELSE @[j]],
              !.lost = @ \/ (i \in DOMAIN v.slot /\ v.slot[i] # Moved)]
Destroy(v, S) == [v EXCEPT !.slot = [j \in DOMAIN @ \ S |-> @[j]]]

\* "new (slot(i + by)) StorageType(move(at(i))); at(i).~StorageType();" for each i of s
MoveEach(v, s, by) ==
    FoldLeft(LAMBDA w, i : Destroy(Construct(w, i + by, w.slot[i]), {i}), v, s)
\* TypedTransfer::move does not destroy what it moves from.
TransferEach(v, s, by) ==
    FoldLeft(LAMBDA w, i : [Construct(w, i + by, w.slot[i]) EXCEPT !.slot[i] = Moved], v, s)
CopyIn(v, at, s) == FoldLeft(LAMBDA w, i : Construct(w, at + i - 1, s[i]), v, [i \in DOMAIN s |-> i])

Up(from, to) == [i \in 1 .. to - from + 1 |-> from + i - 1]
Down(from, to) == Reverse(Up(to, from))

-----------------------------------------------------------------------------
(* Capacity                                                                *)

TryEnsureCapacity(v, n) ==
    IF v.cap >= n THEN v ELSE [v EXCEPT !.cap = GoodSize(n), !.outline = TRUE]
\* Mutant: the buffer is thought to have room for one more.
GrowLate(v, n) == IF v.cap + 1 >= n THEN v ELSE TryEnsureCapacity(v, PaddedCapacity(n))
TryGrowCapacity(v, n) ==
    IF v.cap >= n THEN v ELSE TryEnsureCapacity(v, PaddedCapacity(n))

ClearWithCapacity(v) == [Destroy(v, 0 .. v.size - 1) EXCEPT !.size = 0]
Clear(v) == [ClearWithCapacity(v) EXCEPT !.outline = FALSE, !.cap = InlineCapacity]

-----------------------------------------------------------------------------
(* Operations on one vector                                                *)

TryAppend(v, s) ==
    IF s = <<>> THEN v
    ELSE [CopyIn(TryGrowCapacity(v, v.size + Len(s)), v.size, s) EXCEPT !.size = @ + Len(s)]

\* Mutant: the elements are moved up from the lowest.
MovedFromBelow(size, index) == Up(index, size - 1)
MovedFromAbove(size, index) == Down(size - 1, index)
TryInsert(v, index, x) ==
    IF index = v.size THEN TryAppend(v, <<x>>)
    ELSE LET w == MoveEach(TryGrowCapacity(v, v.size + 1), MovedFromAbove(v.size, index), 1)
         IN  [Construct(w, index, x) EXCEPT !.size = @ + 1]

\* try_prepend of an array: the values that are there are transferred first.
TryPrepend(v, s) ==
    IF s = <<>> THEN v
    ELSE LET g == TryGrowCapacity(v, v.size + Len(s))
         IN  [CopyIn(TransferEach(g, Down(v.size - 1, 0), Len(s)), 0, s) EXCEPT !.size = @ + Len(s)]

RemoveRange(v, index, count) ==
    IF count = 0 THEN v
    ELSE LET d == Destroy(v, index .. index + count - 1)
         IN  [MoveEach(d, Up(index + count, v.size - 1), -count) EXCEPT !.size = @ - count]

Matches(v, K) == {i \in 0 .. v.size - 1 : v.slot[i] \in K}
Least(S) == CHOOSE i \in S : \A j \in S : i <= j

TryInsertBeforeMatching(v, x, K) ==
    IF Matches(v, K) = {} THEN TryAppend(v, <<x>>) ELSE TryInsert(v, Least(Matches(v, K)), x)

RemoveFirstMatching(v, K) ==
    IF Matches(v, K) = {} THEN v ELSE RemoveRange(v, Least(Matches(v, K)), 1)

\* remove_all_matching looks again at the index whose element it removed.
\* Mutant: it goes on to the next one.
NextAfterRemoval(i) == i
SkipsOne(i) == i + 1
RECURSIVE RemoveAllFrom(_, _, _)
RemoveAllFrom(v, K, i) ==
    IF i >= v.size THEN v
    ELSE IF v.slot[i] \in K THEN RemoveAllFrom(RemoveRange(v, i, 1), K, NextAfterRemoval(i))
    ELSE RemoveAllFrom(v, K, i + 1)

\* take_last; take and take_first are a move and remove.
TakeLast(v) == [Destroy(v, {v.size - 1}) EXCEPT !.size = @ - 1]
UnstableTake(v, i) ==
    TakeLast([v EXCEPT !.slot[i] = v.slot[v.size - 1], !.slot[v.size - 1] = v.slot[i]])

Shrink(v, n, keep) ==
    IF n = v.size THEN v
    ELSE IF n = 0 THEN IF keep THEN ClearWithCapacity(v) ELSE Clear(v)
    ELSE [Destroy(v, n .. v.size - 1) EXCEPT !.size = n]
TryResize(v, n, keep, x) ==
    IF n <= v.size THEN Shrink(v, n, keep)
    ELSE [CopyIn(TryEnsureCapacity(v, n), v.size, [i \in 1 .. n - v.size |-> x]) EXCEPT !.size = n]

RECURSIVE SwapEnds(_, _)
SwapEnds(v, i) ==
    IF i >= v.size \div 2 THEN v
    ELSE SwapEnds([v EXCEPT !.slot[i] = v.slot[v.size - i - 1], !.slot[v.size - i - 1] = v.slot[i]], i + 1)
ReversedInPlace(v) == SwapEnds(v, 0)

-----------------------------------------------------------------------------
(* Operations on two vectors: results for v and for the other              *)

\* The move constructor; move assignment after clear()
Taken(o) == [v |-> [o EXCEPT !.lost = FALSE], other |-> Fresh]
\* The copy constructors start from no capacity, assignment from clear().
CopyOf(start, o) ==
    [CopyIn(TryEnsureCapacity(start, o.size), 0, Contents(o)) EXCEPT !.size = o.size]

TryExtendMoving(v, o) ==
    IF v.size = 0 /\ v.cap <= o.cap THEN Taken(o)
    ELSE [v |-> TryAppend(TryGrowCapacity(v, v.size + o.size), Contents(o)), other |-> Fresh]

TryPrependMoving(v, o) ==
    IF o.size = 0 THEN [v |-> v, other |-> o]
    ELSE IF v.size = 0 THEN Taken(o)
    ELSE LET g == MoveEach(TryGrowCapacity(v, v.size + o.size), Down(v.size - 1, 0), o.size)
         IN  [v |-> [CopyIn(g, 0, Contents(o)) EXCEPT !.size = @ + o.size], other |-> Fresh]

-----------------------------------------------------------------------------
(* Steps: an operation of a, and b, and what it means for the contents     *)

A == vectors.a
B == vectors.b
Does(a, meant) ==
    vectors' = [vectors EXCEPT !.a = a, !.right = Contents(a) = meant]
DoesBoth(ab, meant, meantOther) ==
    vectors' = [a |-> ab.v, b |-> ab.other,
                right |-> Contents(ab.v) = meant /\ Contents(ab.other) = meantOther]

Fits(n) == A.size + n <= MaxSize
Arrays == UNION {[1 .. n -> Value] : n \in 0 .. 2}
ca == Contents(A)
cb == Contents(B)
First(n) == SubSeq(ca, 1, n)
From(n) == SubSeq(ca, n + 1, Len(ca))

Adding ==
    \/ \E s \in Arrays : Fits(Len(s)) /\ Does(TryAppend(A, s), ca \o s)
    \/ \E s \in Arrays : Fits(Len(s)) /\ Does(TryPrepend(A, s), s \o ca)
    \/ \E x \in Value, i \in 0 .. A.size :
          Fits(1) /\ Does(TryInsert(A, i, x), First(i) \o <<x>> \o From(i))
    \/ \E x \in Value, K \in SUBSET Value :
          LET i == IF Matches(A, K) = {} THEN A.size ELSE Least(Matches(A, K))
          IN  Fits(1) /\ Does(TryInsertBeforeMatching(A, x, K), First(i) \o <<x>> \o From(i))

Removing ==
    \/ \E i \in 0 .. A.size, n \in 0 .. A.size :
          i + n <= A.size /\ Does(RemoveRange(A, i, n), First(i) \o From(i + n))
    \/ \E K \in SUBSET Value :
          Does(RemoveFirstMatching(A, K),
               IF Matches(A, K) = {} THEN ca ELSE RemoveAt(ca, Least(Matches(A, K)) + 1))
    \/ \E K \in SUBSET Value :
          Does(RemoveAllFrom(A, K, 0), SelectSeq(ca, LAMBDA x : x \notin K))
    \/ A.size > 0 /\ Does(TakeLast(A), Front(ca))
    \/ \E i \in 1 .. A.size :
          Does(UnstableTake(A, i - 1), Front([ca EXCEPT ![i] = ca[A.size], ![A.size] = ca[i]]))

Sizing ==
    \/ \E n \in 0 .. MaxSize, keep \in BOOLEAN, x \in Value :
          Does(TryResize(A, n, keep, x), IF n <= A.size THEN First(n)
                                         ELSE ca \o [i \in 1 .. n - A.size |-> x])
    \/ \E n \in 0 .. MaxSize : Does(TryEnsureCapacity(A, n), ca)
    \/ Does(Clear(A), <<>>) \/ Does(ClearWithCapacity(A), <<>>)
    \/ Does(ReversedInPlace(A), Reverse(ca))

Together ==
    \/ DoesBoth([v |-> B, other |-> A], cb, ca)
    \/ DoesBoth(Taken(B), cb, <<>>)
    \/ \E start \in {NoCapacity, Clear(A)} : Does(CopyOf(start, B), cb)
    \/ Fits(B.size) /\ Does(TryAppend(A, cb), ca \o cb)
    \/ Fits(B.size) /\ DoesBoth(TryExtendMoving(A, B), ca \o cb, <<>>)
    \/ Fits(B.size) /\ DoesBoth(TryPrependMoving(A, B), cb \o ca, <<>>)

Next == Adding \/ Removing \/ Sizing \/ Together
Spec == Init /\ [][Next]_vectors

-----------------------------------------------------------------------------
(* Properties                                                              *)

\* Every operation changes the contents as it says, moved-from vectors are left empty.
DoesAsMeant == vectors.right

\* The slots that hold something are the first m_size, all values, within the capacity of
\* the buffer in use; no value was constructed over without being destroyed.
SlotsAreContents ==
    \A v \in {A, B} :
        /\ DOMAIN v.slot = 0 .. v.size - 1
        /\ \A i \in DOMAIN v.slot : v.slot[i] # Moved
        /\ v.size <= v.cap
        /\ v.cap > InlineCapacity => v.outline
        /\ ~v.lost
=============================================================================
