-------------------------- MODULE HashTableProofs --------------------------
(***************************************************************************)
(* Proofs about HashTable, for any keys, hashes, double_hash, allocator    *)
(* and number of operations, where the table is not ordered: its lookups   *)
(* find what it holds (FindsAll), its counters are right (CountsRight),    *)
(* its probes end if double_hash goes through all the hashes (ProbesEnd),  *)
(* and it is a set of elements with different keys (ImplementsSet).        *)
(***************************************************************************)
EXTENDS HashTable, FiniteSetTheorems, NaturalsInduction, WellFoundedInduction, TLAPS

-----------------------------------------------------------------------------
(* Numbers and repetition                                                  *)

Below == {p \in Nat \X Nat : p[1] < p[2]}

\* A set of numbers has a least one, which stands for induction here.
LEMMA LeastNumber ==
    ASSUME NEW S \in SUBSET Nat, S # {}
    PROVE  \E n \in S : \A k \in S : n <= k
<1>1. OpToRel(<, Nat) = Below
  BY DEF OpToRel, Below
<1>2. IsWellFoundedOn(Below, Nat) /\ S \subseteq Nat
  BY <1>1, NatLessThanWellFounded
<1>3. PICK n \in S : \A k \in S : ~(<<k, n>> \in Below)
  BY <1>2, WFMin
<1>4. ASSUME NEW k \in S PROVE n <= k
  <2>1. n \in Nat /\ k \in Nat
    OBVIOUS
  <2>2. ~(k < n)
    BY <1>3, <2>1 DEF Below
  <2> QED BY <2>1, <2>2
<1> QED BY <1>4

\* f is what a recursive function definition on 0 .. N gives: it starts with a, and step
\* tells each value from the one before.
Repeats(f, N, a, step) == f = [n \in 0 .. N |-> IF n = 0 THEN a ELSE step[n][f[n - 1]]]

LEMMA RepeatsExists ==
    ASSUME NEW N \in Nat, NEW a, NEW step
    PROVE  \E f : Repeats(f, N, a, step)
<1> DEFINE Wrong == {m \in Nat : ~ \E f : Repeats(f, m, a, step)}
<1> SUFFICES ASSUME Wrong # {} PROVE FALSE
  OBVIOUS
<1>1. PICK m \in Wrong : \A k \in Wrong : m <= k
  <2>1. Wrong \in SUBSET Nat
    OBVIOUS
  <2> HIDE DEF Wrong
  <2> QED BY <2>1, LeastNumber
<1>2. m \in Nat /\ ~ \E f : Repeats(f, m, a, step)
  OBVIOUS
<1>3. CASE m = 0
  <2> DEFINE g == [n \in 0 .. 0 |-> a]
  <2>1. Repeats(g, 0, a, step)
    BY DEF Repeats
  <2> QED BY <1>2, <1>3, <2>1
<1>4. CASE m # 0
  <2>1. m - 1 \in Nat /\ m - 1 \notin Wrong
    BY <1>1, <1>2, <1>4
  <2>2. PICK f : Repeats(f, m - 1, a, step)
    BY <2>1
  <2> DEFINE g == [n \in 0 .. m |-> IF n = m THEN step[m][f[m - 1]] ELSE f[n]]
  <2>3. ASSUME NEW n \in 0 .. m
        PROVE  g[n] = IF n = 0 THEN a ELSE step[n][g[n - 1]]
    <3>1. CASE n = m
      <4>1. g[n] = step[n][f[n - 1]] /\ g[n - 1] = f[n - 1] /\ n # 0
        BY <1>2, <1>4, <3>1
      <4> HIDE DEF g
      <4> QED BY <4>1
    <3>2. CASE n # m
      <4>1. n \in 0 .. m - 1 /\ g[n] = f[n] /\ (n # 0 => g[n - 1] = f[n - 1])
        BY <1>2, <3>2
      <4>2. f[n] = IF n = 0 THEN a ELSE step[n][f[n - 1]]
        BY <2>2, <4>1 DEF Repeats
      <4> HIDE DEF g
      <4> QED BY <4>1, <4>2
    <3> QED BY <3>1, <3>2
  <2>4. g = [n \in 0 .. m |-> g[n]]
    OBVIOUS
  <2> HIDE DEF g
  <2>5. Repeats(g, m, a, step)
    BY <2>3, <2>4 DEF Repeats
  <2> QED BY <1>2, <2>5
<1> QED BY <1>3, <1>4

LEMMA RepeatsIn ==
    ASSUME NEW N \in Nat, NEW S, NEW a \in S, NEW step \in [1 .. N -> [S -> S]],
           NEW f, Repeats(f, N, a, step)
    PROVE  /\ f \in [0 .. N -> S]
           /\ f[0] = a
           /\ \A n \in 1 .. N : f[n] = step[n][f[n - 1]]
<1>1. ASSUME NEW n \in 0 .. N PROVE f[n] = IF n = 0 THEN a ELSE step[n][f[n - 1]]
  BY DEF Repeats
<1>2. f[0] = a /\ \A n \in 1 .. N : f[n] = step[n][f[n - 1]]
  BY <1>1
<1> DEFINE Wrong == {n \in 0 .. N : f[n] \notin S}
<1>3. Wrong = {}
  <2> SUFFICES ASSUME Wrong # {} PROVE FALSE
    OBVIOUS
  <2>1. PICK n \in Wrong : \A k \in Wrong : n <= k
    <3>1. Wrong \in SUBSET Nat
      OBVIOUS
    <3> HIDE DEF Wrong
    <3> QED BY <3>1, LeastNumber
  <2>2. n \in 0 .. N /\ f[n] \notin S
    OBVIOUS
  <2>3. n # 0
    BY <1>2, <2>2
  <2>4. n \in 1 .. N /\ n - 1 \in 0 .. N /\ ~(n <= n - 1)
    BY <2>2, <2>3
  <2>5. n - 1 \notin Wrong
    BY <2>1, <2>4
  <2>6. f[n - 1] \in S /\ step[n] \in [S -> S]
    BY <2>4, <2>5
  <2> QED BY <1>2, <2>2, <2>4, <2>6
<1>4. f = [n \in 0 .. N |-> f[n]]
  BY DEF Repeats
<1> QED BY <1>2, <1>3, <1>4

-----------------------------------------------------------------------------
(* The way of a key                                                        *)

LEMMA Hashes == HashCount \in Nat \ {0} /\ 0 .. HashCount # {} /\ Hash # {}
BY HashTableAssumption DEF Hash

\* Way is what its definition says of each key.
LEMMA WayIs ==
    ASSUME NEW k \in Key
    PROVE  /\ Way[k] \in [0 .. HashCount -> Hash]
           /\ Way[k][0] = HashOf[k]
           /\ \A n \in 1 .. HashCount : Way[k][n] = DoubleHash[Way[k][n - 1]]
<1> DEFINE step == [n \in 1 .. HashCount |-> DoubleHash]
           body(f) == [n \in 0 .. HashCount |-> IF n = 0 THEN HashOf[k] ELSE DoubleHash[f[n - 1]]]
           way == CHOOSE f : f = body(f)
<1>1. Way[k] = way
  BY DEF Way
<1>2. HashCount \in Nat /\ HashOf[k] \in Hash /\ step \in [1 .. HashCount -> [Hash -> Hash]]
  BY HashTableAssumption
<1>3. ASSUME NEW f PROVE body(f) = [n \in 0 .. HashCount |-> IF n = 0 THEN HashOf[k] ELSE step[n][f[n - 1]]]
  <2>1. ASSUME NEW n \in 0 .. HashCount, n # 0 PROVE step[n] = DoubleHash
    BY <1>2, <2>1
  <2> QED BY <2>1
<1>4. \E f : f = body(f)
  <2>1. PICK f : Repeats(f, HashCount, HashOf[k], step)
    BY <1>2, RepeatsExists
  <2>2. body(f) = [n \in 0 .. HashCount |-> IF n = 0 THEN HashOf[k] ELSE step[n][f[n - 1]]]
    BY <1>3
  <2>3. f = body(f)
    <3> HIDE DEF body, step
    <3> QED BY <2>1, <2>2 DEF Repeats
  <2> HIDE DEF body
  <2> QED BY <2>3
<1>5. way = body(way)
  <2> HIDE DEF body
  <2> QED BY <1>4
<1> HIDE DEF way
<1>6. Repeats(way, HashCount, HashOf[k], step)
  BY <1>3, <1>5 DEF Repeats
<1>7. /\ way \in [0 .. HashCount -> Hash] /\ way[0] = HashOf[k]
      /\ \A n \in 1 .. HashCount : way[n] = step[n][way[n - 1]]
  <2> HIDE DEF step
  <2> QED BY <1>2, <1>6, RepeatsIn
<1> QED BY <1>1, <1>7

\* There are no more hashes than steps on the way, so it has come back by its end: the
\* hash after the last one is on it.
LEMMA WayReturns ==
    ASSUME NEW k \in Key
    PROVE  \E n \in 0 .. HashCount : Way[k][n] = DoubleHash[Way[k][HashCount]]
<1> DEFINE N == HashCount
           w == Way[k]
<1>1. /\ N \in Nat \ {0} /\ w \in [0 .. N -> Hash]
      /\ \A n \in 1 .. N : w[n] = DoubleHash[w[n - 1]]
  BY WayIs, Hashes
<1>2. PICK a \in 0 .. N, b \in 0 .. N : a < b /\ w[a] = w[b]
  <2>1. IsFiniteSet(0 .. N) /\ Cardinality(0 .. N) = N + 1
    BY <1>1, FS_Interval
  <2>2. IsFiniteSet(Hash) /\ Cardinality(Hash) = N
    <3>1. 0 \in Int /\ N - 1 \in Int /\ ~(0 > N - 1)
      BY <1>1
    <3>2. IsFiniteSet(0 .. N - 1) /\ Cardinality(0 .. N - 1) = (N - 1) - 0 + 1
      BY <3>1, FS_Interval
    <3> QED BY <1>1, <3>2 DEF Hash
  <2>3. PICK x, y \in 0 .. N : x # y /\ w[x] = w[y]
    <3> HIDE DEF N, w
    <3> QED BY <1>1, <2>1, <2>2, FS_PigeonHole
  <2> QED BY <1>1, <2>3
<1> DEFINE Wrong == {j \in 0 .. N - b : w[a + j] # w[b + j]}
<1> HIDE DEF N, w
<1>3. Wrong = {}
  <2> SUFFICES ASSUME Wrong # {} PROVE FALSE
    OBVIOUS
  <2>1. PICK j \in Wrong : \A m \in Wrong : j <= m
    <3>1. Wrong \in SUBSET Nat
      BY <1>1, <1>2
    <3> HIDE DEF Wrong
    <3> QED BY <3>1, LeastNumber
  <2>2. j \in 0 .. N - b /\ w[a + j] # w[b + j]
    OBVIOUS
  <2>3. j # 0
    BY <1>1, <1>2, <2>2
  <2>4. j - 1 \in 0 .. N - b /\ ~(j <= j - 1)
    BY <1>1, <1>2, <2>2, <2>3
  <2>5. w[a + (j - 1)] = w[b + (j - 1)]
    BY <2>1, <2>4
  <2>6. a + j \in 1 .. N /\ b + j \in 1 .. N /\ (a + j) - 1 = a + (j - 1) /\ (b + j) - 1 = b + (j - 1)
    BY <1>1, <1>2, <2>2, <2>3
  <2> QED BY <1>1, <2>2, <2>5, <2>6
<1>4. N - b \in 0 .. N - b /\ b + (N - b) = N /\ a + (N - b) \in 0 .. N - 1
  BY <1>1, <1>2
<1>5. w[a + (N - b)] = w[N]
  BY <1>3, <1>4
<1>6. w[(a + (N - b)) + 1] = DoubleHash[w[N]] /\ (a + (N - b)) + 1 \in 0 .. N
  <2>1. (a + (N - b)) + 1 \in 1 .. N /\ ((a + (N - b)) + 1) - 1 = a + (N - b)
    BY <1>1, <1>4
  <2> QED BY <1>1, <1>5, <2>1
<1> QED BY <1>6 DEF N, w

-----------------------------------------------------------------------------
(* Where a key's loops end                                                 *)

\* The n-th bucket on the way of a key, and what the way to it passes.
At(k, n) == Way[k][n] % cap
Passes(st, c, k, n, S) == \A j \in 0 .. n - 1 : st[Way[k][j] % c] \in S
Leads(st, c, k, b, S) == \E n \in 0 .. HashCount : Way[k][n] % c = b /\ Passes(st, c, k, n, S)

LEMMA AtIs ==
    ASSUME cap \in Nat \ {0}, NEW k \in Key, NEW n \in 0 .. HashCount
    PROVE  At(k, n) \in Bucket
<1>1. Way[k][n] \in Nat
  BY WayIs, Hashes DEF Hash
<1> QED BY <1>1 DEF At, Bucket

\* FirstOn is what its loop comes to.
LEMMA FirstIs ==
    ASSUME NEW k \in Key, NEW B, cap \in Nat \ {0}, B \subseteq Bucket
    PROVE  \/ FirstOn(k, B) = NoBucket /\ \A n \in 0 .. HashCount : At(k, n) \notin B
           \/ \E n \in 0 .. HashCount :
                 /\ FirstOn(k, B) = At(k, n) /\ At(k, n) \in B
                 /\ \A j \in 0 .. n - 1 : At(k, j) \notin B
<1> DEFINE First(n) == At(k, n) \in B /\ \A j \in 0 .. n - 1 : ~(At(k, j) \in B)
           first == CHOOSE n \in 0 .. HashCount : First(n)
<1>1. FirstOn(k, B) = IF \E n \in 0 .. HashCount : At(k, n) \in B THEN At(k, first) ELSE NoBucket
  BY DEF FirstOn, At
<1>2. CASE \A n \in 0 .. HashCount : At(k, n) \notin B
  BY <1>1, <1>2
<1>3. CASE \E n \in 0 .. HashCount : At(k, n) \in B
  <2> DEFINE hits == {n \in 0 .. HashCount : At(k, n) \in B}
  <2>1. hits \in SUBSET Nat /\ hits # {}
    BY <1>3
  <2>2. PICK n \in hits : \A m \in hits : n <= m
    <3> HIDE DEF hits
    <3> QED BY <2>1, LeastNumber
  <2>3. n \in 0 .. HashCount /\ At(k, n) \in B
    OBVIOUS
  <2>4. ASSUME NEW j \in 0 .. n - 1 PROVE ~(At(k, j) \in B)
    <3>1. j \in 0 .. HashCount /\ ~(n <= j)
      BY <2>3, Hashes
    <3>2. j \notin hits
      BY <2>2, <3>1
    <3> QED BY <3>1, <3>2
  <2>5. \E m \in 0 .. HashCount : First(m)
    BY <2>3, <2>4
  <2> HIDE DEF First
  <2>6. first \in 0 .. HashCount /\ First(first)
    BY <2>5
  <2> HIDE DEF first
  <2>7. At(k, first) \in B /\ \A j \in 0 .. first - 1 : At(k, j) \notin B
    BY <2>6 DEF First
  <2>8. FirstOn(k, B) = At(k, first)
    BY <1>1, <1>3 DEF first
  <2> QED BY <2>6, <2>7, <2>8
<1> QED BY <1>2, <1>3

-----------------------------------------------------------------------------
(* The elements that a rehash takes out                                    *)

\* Elements one after the other, no two of them with one key.
KeysDiffer(s) == \A m, n \in 1 .. Len(s) : s[m].key = s[n].key => m = n
ValuesOf(s) == {s[n] : n \in 1 .. Len(s)}

LEMMA AppendedSeq ==
    ASSUME NEW s \in Seq(Element), NEW t \in Seq(Element)
    PROVE  /\ s \o t \in Seq(Element) /\ Len(s \o t) = Len(s) + Len(t)
           /\ ValuesOf(s \o t) = ValuesOf(s) \union ValuesOf(t)
<1> DEFINE u == s \o t
<1>1. /\ u \in Seq(Element) /\ Len(u) = Len(s) + Len(t) /\ Len(s) \in Nat /\ Len(t) \in Nat
      /\ \A n \in 1 .. Len(s) : u[n] = s[n]
      /\ \A n \in 1 .. Len(t) : u[Len(s) + n] = t[n]
  OBVIOUS
<1> HIDE DEF u
<1>2. ASSUME NEW n \in 1 .. Len(u) PROVE u[n] \in ValuesOf(s) \union ValuesOf(t)
  <2>1. CASE n <= Len(s)
    BY <1>1, <2>1 DEF ValuesOf
  <2>2. CASE n > Len(s)
    <3>1. n - Len(s) \in 1 .. Len(t) /\ Len(s) + (n - Len(s)) = n
      BY <1>1, <2>2
    <3> QED BY <1>1, <3>1 DEF ValuesOf
  <2> QED BY <1>1, <2>1, <2>2
<1>3. ASSUME NEW n \in 1 .. Len(s) PROVE s[n] \in ValuesOf(u)
  BY <1>1 DEF ValuesOf
<1>4. ASSUME NEW n \in 1 .. Len(t) PROVE t[n] \in ValuesOf(u)
  <2>1. Len(s) + n \in 1 .. Len(u)
    BY <1>1
  <2> QED BY <1>1, <2>1 DEF ValuesOf
<1>5. ValuesOf(u) = ValuesOf(s) \union ValuesOf(t)
  BY <1>2, <1>3, <1>4 DEF ValuesOf
<1> QED BY <1>1, <1>5 DEF u

LEMMA AppendedDiffer ==
    ASSUME NEW s \in Seq(Element), NEW t \in Seq(Element), KeysDiffer(s), KeysDiffer(t),
           \A e \in ValuesOf(s), f \in ValuesOf(t) : e.key # f.key
    PROVE  KeysDiffer(s \o t)
<1> DEFINE u == s \o t
<1>1. /\ u \in Seq(Element) /\ Len(u) = Len(s) + Len(t) /\ Len(s) \in Nat /\ Len(t) \in Nat
      /\ \A n \in 1 .. Len(s) : u[n] = s[n]
      /\ \A n \in 1 .. Len(t) : u[Len(s) + n] = t[n]
  OBVIOUS
<1> HIDE DEF u
<1>2. ASSUME NEW m \in 1 .. Len(u)
      PROVE  \/ m \in 1 .. Len(s) /\ u[m] = s[m] /\ u[m] \in ValuesOf(s)
             \/ m - Len(s) \in 1 .. Len(t) /\ u[m] = t[m - Len(s)] /\ u[m] \in ValuesOf(t)
  <2>1. CASE m <= Len(s)
    BY <1>1, <2>1 DEF ValuesOf
  <2>2. CASE m > Len(s)
    <3>1. m - Len(s) \in 1 .. Len(t) /\ Len(s) + (m - Len(s)) = m
      BY <1>1, <2>2
    <3>2. u[m] = t[m - Len(s)]
      BY <1>1, <3>1
    <3>3. t[m - Len(s)] \in ValuesOf(t)
      BY <3>1 DEF ValuesOf
    <3> QED BY <3>1, <3>2, <3>3
  <2> QED BY <1>1, <2>1, <2>2
<1>3. ASSUME NEW m \in 1 .. Len(u), NEW n \in 1 .. Len(u), u[m].key = u[n].key PROVE m = n
  <2>1. CASE m \in 1 .. Len(s) /\ u[m] = s[m] /\ u[m] \in ValuesOf(s)
    <3>1. n \in 1 .. Len(s) /\ u[n] = s[n]
      BY <1>2, <1>3, <2>1
    <3> QED BY <1>3, <2>1, <3>1 DEF KeysDiffer
  <2>2. CASE m - Len(s) \in 1 .. Len(t) /\ u[m] = t[m - Len(s)] /\ u[m] \in ValuesOf(t)
    <3>1. n - Len(s) \in 1 .. Len(t) /\ u[n] = t[n - Len(s)]
      BY <1>2, <1>3, <2>2
    <3>2. m - Len(s) = n - Len(s)
      BY <1>3, <2>2, <3>1 DEF KeysDiffer
    <3> QED BY <1>1, <3>2
  <2> QED BY <1>2, <2>1, <2>2
<1> QED BY <1>3 DEF KeysDiffer, u

-----------------------------------------------------------------------------
(* The invariant                                                           *)

Sweeping == pc \in {"sweep", "move"}
DeletedBuckets == {b \in Bucket : state[b] = "Deleted"}
Passed == {"Used", "Deleted"}
Settled == {"Rehashed"}

Types ==
    /\ cap \in 0 .. MaxCapacity
    /\ state \in [Bucket -> BucketState]
    /\ slot \in [Bucket -> Element \union {NoElement}]
    /\ \A b \in UsedBuckets : slot[b] \in Element
    /\ list = EmptyList(cap)
    /\ size \in Nat /\ deleted \in Nat
    /\ pc \in {"ready", "rehash", "insert", "sweep", "move"}
    /\ op \in PendingSet \union {NoOp}
    /\ todo \in Seq(Element)
    /\ i \in 0 .. cap /\ target \in Hash \union {NoTarget}

\* No key is in two buckets, or in a bucket and still to be moved.
Distinct ==
    /\ \A b, c \in UsedBuckets : slot[b].key = slot[c].key => b = c
    /\ KeysDiffer(todo)
    /\ \A b \in UsedBuckets, e \in ValuesOf(todo) : slot[b].key # e.key

\* The two counters.  A sweep forgets the deleted buckets as it comes to them.
Counted ==
    /\ size = Cardinality(UsedBuckets) + Len(todo)
    /\ ~Sweeping => /\ deleted = Cardinality(DeletedBuckets)
                    /\ \A b \in Bucket : state[b] # "Rehashed"

\* The way of an element leads to it through buckets that a lookup passes; while the
\* table is swept, that of an element in its new place through others in theirs.
Placed ==
    /\ ~Sweeping => \A b \in UsedBuckets : Leads(state, cap, slot[b].key, b, Passed)
    /\ Sweeping => \A b \in Bucket : state[b] = "Rehashed" => Leads(state, cap, slot[b].key, b, Settled)

\* How far a sweep is, and that the bucket it tries is on the way of the element in hand.
Swept ==
    /\ ~Sweeping => i = 0
    /\ Sweeping => \A b \in 0 .. i - 1 : state[b] \in {"Free", "Rehashed"}
    /\ pc = "move" =>
          /\ i < cap /\ state[i] = "Used"
          /\ \E n \in 0 .. HashCount : Way[slot[i].key][n] = target /\ Passes(state, cap, slot[i].key, n, Settled)

\* What each phase has to begin with.
Phases ==
    /\ pc # "rehash" => todo = <<>>
    /\ pc = "rehash" => cap > 0 /\ deleted = 0
    /\ pc = "insert" => op \in PendingSet
    /\ pc \in {"ready", "sweep", "move"} => op = NoOp

\* Buckets stay free: try_set and a rehash have grown the table before they fill one.
Load ==
    /\ pc = "insert" \/ (pc = "rehash" /\ todo = <<>>) => ~ShouldGrow(size, deleted, cap)
    /\ pc # "rehash" => size + deleted < cap \/ (cap = 0 /\ size = 0 /\ deleted = 0)

IInv == Types /\ Distinct /\ Counted /\ Placed /\ Swept /\ Phases /\ Load

-----------------------------------------------------------------------------
(* What the invariant says of lookups                                      *)

\* A way stays as long as the buckets it passes do.
LEMMA SameWay ==
    ASSUME NEW st, NEW st2, NEW c \in Nat \ {0}, NEW k \in Key, NEW b, NEW S, NEW T,
           Leads(st, c, k, b, S), \A d \in 0 .. c - 1 : st[d] \in S => st2[d] \in T
    PROVE  Leads(st2, c, k, b, T)
<1>1. PICK n \in 0 .. HashCount : Way[k][n] % c = b /\ Passes(st, c, k, n, S)
  BY DEF Leads
<1>2. ASSUME NEW j \in 0 .. n - 1 PROVE st2[Way[k][j] % c] \in T
  <2>1. Way[k][j] \in Nat
    <3>1. j \in 0 .. HashCount
      BY Hashes
    <3> QED BY <3>1, WayIs, Hashes DEF Hash
  <2>2. Way[k][j] % c \in 0 .. c - 1
    BY <2>1
  <2>3. st[Way[k][j] % c] \in S
    BY <1>1 DEF Passes
  <2> QED BY <2>2, <2>3
<1> QED BY <1>1, <1>2 DEF Leads, Passes

\* A lookup of a key comes to the bucket that has it.
LEMMA LookedUp ==
    ASSUME Types, Distinct, Placed, ~Sweeping, NEW b \in UsedBuckets
    PROVE  EndOfLookup(slot[b].key) = b
<1> DEFINE k == slot[b].key
           B == {c \in Bucket : Holds(c, k) \/ state[c] \notin Passed}
<1>1. k \in Key /\ b \in Bucket /\ cap \in Nat \ {0}
  BY DEF Types, Element, UsedBuckets, Bucket
<1>2. EndOfLookup(k) = FirstOn(k, B)
  BY DEF EndOfLookup, Passed
<1>3. Holds(b, k) /\ b \in B
  BY <1>1 DEF Holds, UsedBuckets
<1>4. PICK n \in 0 .. HashCount : At(k, n) = b /\ Passes(state, cap, k, n, Passed)
  BY DEF At, Placed, Leads
<1>5. B \subseteq Bucket
  OBVIOUS
<1>6. \A c \in B : Holds(c, k) => c = b
  BY <1>1 DEF Holds, Distinct, UsedBuckets
<1>7. \A c \in B : state[c] \in Passed => Holds(c, k)
  OBVIOUS
<1> HIDE DEF B, k
<1>8. PICK m \in 0 .. HashCount : /\ FirstOn(k, B) = At(k, m) /\ At(k, m) \in B
                                  /\ \A j \in 0 .. m - 1 : At(k, j) \notin B
  BY <1>1, <1>3, <1>4, <1>5, FirstIs
<1>9. m <= n
  <2> SUFFICES ASSUME ~(m <= n) PROVE FALSE
    OBVIOUS
  <2>1. n \in 0 .. m - 1
    BY Hashes
  <2> QED BY <1>3, <1>4, <1>8, <2>1
<1>10. CASE m = n
  BY <1>2, <1>4, <1>8, <1>10 DEF k
<1>11. CASE m # n
  <2>1. m \in 0 .. n - 1
    BY <1>9, <1>11, Hashes
  <2>2. state[At(k, m)] \in Passed
    BY <1>4, <2>1 DEF At, Passes
  <2> QED BY <1>2, <1>6, <1>7, <1>8, <2>2 DEF k
<1> QED BY <1>10, <1>11

\* try_set writes to the bucket that has the key, or, if none has, to an unused one that
\* lookups of the key come to.
LEMMA WrittenWhere ==
    ASSUME Types, Distinct, Placed, ~Sweeping, \A c \in Bucket : state[c] # "Rehashed",
           NEW k \in Key, cap > 0, BucketForWriting(k) # NoBucket
    PROVE  LET b == BucketForWriting(k)
           IN  /\ b \in Bucket
               /\ IsUsed(b) => slot[b].key = k
               /\ ~IsUsed(b) => Leads(state, cap, k, b, {"Used"}) /\ \A c \in UsedBuckets : slot[c].key # k
<1> DEFINE E == {c \in Bucket : Holds(c, k) \/ state[c] = "Free"}
           U == Bucket \ UsedBuckets
           end == FirstOn(k, E)
           b == BucketForWriting(k)
<1>1. cap \in Nat \ {0} /\ E \subseteq Bucket /\ U \subseteq Bucket /\ NoBucket \notin Bucket
  BY DEF Types, NoBucket, Bucket
<1>2. b = IF end = NoBucket \/ Holds(end, k) THEN end ELSE FirstOn(k, U)
  BY DEF BucketForWriting
<1>3. end # NoBucket
  BY <1>2
<1>4. PICK m \in 0 .. HashCount : /\ end = At(k, m) /\ At(k, m) \in E
                                  /\ \A j \in 0 .. m - 1 : At(k, j) \notin E
  <2> HIDE DEF E
  <2> QED BY <1>1, <1>3, FirstIs
<1>5. CASE Holds(end, k)
  <2>1. b = end /\ end \in Bucket /\ IsUsed(b) /\ slot[b].key = k
    BY <1>1, <1>2, <1>4, <1>5 DEF Holds
  <2> QED BY <2>1
<1>6. CASE ~Holds(end, k)
  <2>1. b = FirstOn(k, U)
    BY <1>2, <1>3, <1>6
  <2>2. PICK n \in 0 .. HashCount : /\ b = At(k, n) /\ At(k, n) \in U
                                    /\ \A j \in 0 .. n - 1 : At(k, j) \notin U
    <3> HIDE DEF U
    <3> QED BY <1>1, <2>1, FirstIs
  <2>3. b \in Bucket /\ ~IsUsed(b)
    BY <2>2 DEF UsedBuckets
  <2>4. ASSUME NEW j \in 0 .. n - 1 PROVE state[At(k, j)] \in {"Used"}
    <3>1. At(k, j) \in Bucket
      <4>1. j \in 0 .. HashCount
        BY Hashes
      <4> QED BY <1>1, <4>1, AtIs
    <3>2. IsUsed(At(k, j))
      BY <2>2, <3>1 DEF UsedBuckets
    <3> QED BY <3>1, <3>2 DEF IsUsed, UsedStates
  <2>5. Leads(state, cap, k, b, {"Used"})
    BY <2>2, <2>4 DEF At, Leads, Passes
  <2>6. ASSUME NEW c \in UsedBuckets, slot[c].key = k PROVE FALSE
    <3>1. PICK l \in 0 .. HashCount : At(k, l) = c /\ Passes(state, cap, k, l, Passed)
      BY <2>6 DEF At, Placed, Leads
    <3>2. c \in E
      BY <2>6 DEF UsedBuckets, Holds
    <3> HIDE DEF E, end
    <3>3. m <= l
      <4> SUFFICES ASSUME ~(m <= l) PROVE FALSE
        OBVIOUS
      <4>1. l \in 0 .. m - 1
        BY Hashes
      <4> QED BY <1>4, <3>1, <3>2, <4>1
    <3>4. CASE m = l
      <4>1. end = c
        BY <1>4, <3>1, <3>4
      <4> QED BY <1>6, <2>6, <4>1 DEF Holds, UsedBuckets
    <3>5. CASE m # l
      <4>1. m \in 0 .. l - 1
        BY <3>3, <3>5, Hashes
      <4>2. state[end] \in Passed
        BY <1>4, <3>1, <4>1 DEF At, Passes
      <4> QED BY <1>4, <1>6, <4>2 DEF E, Passed
    <3> QED BY <3>4, <3>5
  <2> QED BY <2>3, <2>5, <2>6
<1> QED BY <1>5, <1>6

LEMMA BucketsFinite ==
    ASSUME Types
    PROVE  /\ IsFiniteSet(Bucket) /\ Cardinality(Bucket) = cap
           /\ IsFiniteSet(UsedBuckets) /\ Cardinality(UsedBuckets) \in Nat
           /\ IsFiniteSet(DeletedBuckets) /\ Cardinality(DeletedBuckets) \in Nat
<1>1. 0 \in Int /\ cap - 1 \in Int /\ cap \in Nat
  BY DEF Types
<1>2. IsFiniteSet(Bucket) /\ Cardinality(Bucket) = cap
  <2>1. IsFiniteSet(0 .. cap - 1) /\ Cardinality(0 .. cap - 1) = IF 0 > cap - 1 THEN 0 ELSE (cap - 1) - 0 + 1
    BY <1>1, FS_Interval
  <2> QED BY <1>1, <2>1 DEF Bucket
<1>3. IsFiniteSet(UsedBuckets) /\ IsFiniteSet(DeletedBuckets)
  BY <1>2, FS_Subset DEF UsedBuckets, DeletedBuckets
<1> QED BY <1>2, <1>3, FS_CardinalityType

-----------------------------------------------------------------------------
(* What the iterator of a table that is not ordered goes through           *)

One(n) == IF IsUsed(n - 1) THEN <<slot[n - 1]>> ELSE <<>>
ByIndexTo(s) == [n \in 0 .. cap |-> IF n = 0 THEN <<>> ELSE s[n - 1] \o One(n)]

LEMMA OneIs ==
    ASSUME Types, NEW n \in 1 .. cap
    PROVE  /\ One(n) \in Seq(Element) /\ KeysDiffer(One(n))
           /\ IsUsed(n - 1) => Len(One(n)) = 1 /\ ValuesOf(One(n)) = {slot[n - 1]}
           /\ ~IsUsed(n - 1) => Len(One(n)) = 0 /\ ValuesOf(One(n)) = {}
<1>1. CASE IsUsed(n - 1)
  <2>1. slot[n - 1] \in Element
    <3>1. n - 1 \in Bucket
      BY DEF Types, Bucket
    <3> QED BY <1>1, <3>1 DEF Types, UsedBuckets
  <2>2. One(n) = <<slot[n - 1]>>
    BY <1>1 DEF One
  <2> QED BY <1>1, <2>1, <2>2 DEF KeysDiffer, ValuesOf
<1>2. CASE ~IsUsed(n - 1)
  <2>1. One(n) = <<>>
    BY <1>2 DEF One
  <2> QED BY <1>2, <2>1 DEF KeysDiffer, ValuesOf
<1> QED BY <1>1, <1>2

LEMMA ByIndexUnfolds ==
    ASSUME Types
    PROVE  \E s : s = ByIndexTo(s) /\ ByIndex = s[cap]
<1> DEFINE step == [n \in 1 .. cap |-> [s \in Seq(Element) |-> s \o One(n)]]
           upTo == CHOOSE s : s = ByIndexTo(s)
<1>1. cap \in Nat /\ <<>> \in Seq(Element)
  BY DEF Types
<1>2. step \in [1 .. cap -> [Seq(Element) -> Seq(Element)]]
  <2>1. ASSUME NEW n \in 1 .. cap, NEW s \in Seq(Element) PROVE s \o One(n) \in Seq(Element)
    BY OneIs
  <2> QED BY <2>1
<1>3. ASSUME NEW n \in 1 .. cap, NEW s \in Seq(Element) PROVE step[n][s] = s \o One(n)
  OBVIOUS
<1>4. \E s : s = ByIndexTo(s)
  <2>1. PICK s : Repeats(s, cap, <<>>, step)
    BY <1>1, RepeatsExists
  <2> HIDE DEF step
  <2>2. /\ s \in [0 .. cap -> Seq(Element)] /\ s[0] = <<>>
        /\ \A n \in 1 .. cap : s[n] = step[n][s[n - 1]]
    <3> DEFINE S == Seq(Element)
               a == <<>>
    <3>1. a \in S /\ step \in [1 .. cap -> [S -> S]] /\ Repeats(s, cap, a, step)
      BY <1>1, <1>2, <2>1
    <3> HIDE DEF S, a
    <3>2. s \in [0 .. cap -> S] /\ s[0] = a /\ \A n \in 1 .. cap : s[n] = step[n][s[n - 1]]
      BY <1>1, <3>1, RepeatsIn
    <3> QED BY <3>2 DEF S, a
  <2>3. ASSUME NEW n \in 0 .. cap PROVE s[n] = IF n = 0 THEN <<>> ELSE s[n - 1] \o One(n)
    <3>1. CASE n = 0
      BY <2>2, <3>1
    <3>2. CASE n # 0
      <4>1. n \in 1 .. cap /\ n - 1 \in 0 .. cap
        BY <1>1, <3>2
      <4>2. s[n - 1] \in Seq(Element)
        BY <2>2, <4>1
      <4> QED BY <1>3, <2>2, <3>2, <4>1, <4>2
    <3> QED BY <3>1, <3>2
  <2>4. s = [n \in 0 .. cap |-> s[n]]
    BY <2>2
  <2> QED BY <2>3, <2>4 DEF ByIndexTo
<1>5. upTo = ByIndexTo(upTo)
  BY <1>4
<1>6. ByIndex = upTo[cap]
  BY DEF ByIndex, ByIndexTo, One
<1> HIDE DEF upTo
<1> QED BY <1>5, <1>6

\* The elements of all used buckets, each once.
LEMMA IteratedIs ==
    ASSUME Types, Distinct, ~IsOrdered
    PROVE  /\ Iterated \in Seq(Element) /\ KeysDiffer(Iterated)
           /\ Len(Iterated) = Cardinality(UsedBuckets)
           /\ ValuesOf(Iterated) = {slot[b] : b \in UsedBuckets}
<1>1. PICK s : s = ByIndexTo(s) /\ ByIndex = s[cap]
  BY ByIndexUnfolds
<1> DEFINE U(n) == {b \in UsedBuckets : b < n}
           Right(n) == /\ s[n] \in Seq(Element) /\ KeysDiffer(s[n])
                       /\ IsFiniteSet(U(n)) /\ Len(s[n]) = Cardinality(U(n))
                       /\ ValuesOf(s[n]) = {slot[b] : b \in U(n)}
           Wrong == {n \in 0 .. cap : ~Right(n)}
<1>2. cap \in Nat
  BY DEF Types
<1>3. \A n \in 0 .. cap : s[n] = IF n = 0 THEN <<>> ELSE s[n - 1] \o One(n)
  BY <1>1 DEF ByIndexTo
<1>4. Wrong = {}
  <2> SUFFICES ASSUME Wrong # {} PROVE FALSE
    OBVIOUS
  <2>1. PICK n \in Wrong : \A k \in Wrong : n <= k
    <3>1. Wrong \in SUBSET Nat
      OBVIOUS
    <3> HIDE DEF Wrong
    <3> QED BY <3>1, LeastNumber
  <2>2. n \in 0 .. cap /\ ~Right(n)
    OBVIOUS
  <2>3. CASE n = 0
    <3>1. U(n) = {}
      BY <1>2, <2>3 DEF UsedBuckets, Bucket
    <3>2. s[n] = <<>>
      BY <1>2, <1>3, <2>3
    <3>3. Right(n)
      <4>1. <<>> \in Seq(Element) /\ Len(<<>>) = 0 /\ KeysDiffer(<<>>) /\ ValuesOf(<<>>) = {}
        BY DEF KeysDiffer, ValuesOf
      <4>2. IsFiniteSet({}) /\ Cardinality({}) = 0
        BY FS_EmptySet
      <4>3. {slot[b] : b \in {}} = {}
        OBVIOUS
      <4> QED BY <3>1, <3>2, <4>1, <4>2, <4>3
    <3> QED BY <2>2, <3>3
  <2>4. CASE n # 0
    <3> DEFINE m == n - 1
    <3>1. m \in 0 .. cap /\ m \in Bucket /\ n \in 1 .. cap /\ ~(n <= m)
      BY <1>2, <2>2, <2>4 DEF Bucket
    <3>2. Right(m)
      <4>1. m \notin Wrong
        BY <2>1, <3>1
      <4> QED BY <3>1, <4>1
    <3>3. s[n] = s[m] \o One(n)
      BY <1>3, <2>2, <2>4
    <3>4. IF IsUsed(m) THEN U(n) = U(m) \union {m} ELSE U(n) = U(m)
      BY <1>2, <3>1 DEF UsedBuckets, Bucket
    <3>5. m \notin U(m)
      BY <1>2, <3>1
    <3>6. s[m] \in Seq(Element) /\ One(n) \in Seq(Element) /\ KeysDiffer(s[m]) /\ KeysDiffer(One(n))
      BY <3>1, <3>2, OneIs
    <3>7. s[n] \in Seq(Element) /\ Len(s[n]) = Len(s[m]) + Len(One(n))
          /\ ValuesOf(s[n]) = ValuesOf(s[m]) \union ValuesOf(One(n))
      BY <3>3, <3>6, AppendedSeq
    <3>8. ASSUME NEW e \in ValuesOf(s[m]), NEW f \in ValuesOf(One(n)) PROVE e.key # f.key
      <4>1. PICK b \in U(m) : e = slot[b]
        BY <3>2
      <4>2. IsUsed(m) /\ f = slot[m]
        BY <3>1, OneIs
      <4>3. m \in UsedBuckets /\ b \in UsedBuckets /\ b # m
        BY <3>1, <3>5, <4>2 DEF UsedBuckets
      <4> QED BY <4>1, <4>2, <4>3 DEF Distinct
    <3>9. KeysDiffer(s[n])
      BY <3>3, <3>6, <3>8, AppendedDiffer
    <3> HIDE DEF U
    <3>10. CASE IsUsed(m)
      <4>1. Len(One(n)) = 1 /\ ValuesOf(One(n)) = {slot[m]}
        BY <3>1, <3>10, OneIs
      <4>2. U(n) = U(m) \union {m}
        BY <3>4, <3>10
      <4>3. IsFiniteSet(U(n)) /\ Cardinality(U(n)) = Cardinality(U(m)) + 1
        BY <3>2, <3>5, <4>2, FS_AddElement
      <4>4. ValuesOf(s[n]) = {slot[b] : b \in U(n)}
        BY <3>2, <3>7, <4>1, <4>2
      <4> QED BY <2>2, <3>2, <3>7, <3>9, <4>1, <4>3, <4>4
    <3>11. CASE ~IsUsed(m)
      <4>1. Len(One(n)) = 0 /\ ValuesOf(One(n)) = {}
        BY <3>1, <3>11, OneIs
      <4>2. U(n) = U(m)
        BY <3>4, <3>11
      <4>3. Len(s[m]) \in Nat
        BY <3>6
      <4> QED BY <2>2, <3>2, <3>7, <3>9, <4>1, <4>2, <4>3
    <3> QED BY <3>10, <3>11
  <2> QED BY <2>3, <2>4
<1>5. U(cap) = UsedBuckets
  BY <1>2 DEF UsedBuckets, Bucket
<1>6. Right(cap)
  <2> HIDE DEF Right
  <2>1. cap \in 0 .. cap
    BY <1>2
  <2> QED BY <1>4, <2>1
<1>7. Iterated = s[cap]
  BY <1>1 DEF Iterated
<1> HIDE DEF U
<1> QED BY <1>5, <1>6, <1>7

-----------------------------------------------------------------------------
(* Operations on a table that is not being swept                           *)

\* try_rehash into a new array: all the elements are to be moved, none is in it.
LEMMA RehashAnew ==
    ASSUME IInv, ~Sweeping, ~IsOrdered, NEW n \in 0 .. 2 * MaxCapacity, ~(n = cap /\ n >= 4), Rehash(n),
           op' \in PendingSet \union {NoOp}
    PROVE  IInv' /\ contents' = contents
<1>1. /\ NewCapacity(n) <= MaxCapacity /\ Emptied(NewCapacity(n)) /\ deleted' = 0
      /\ todo' = Iterated \o todo /\ pc' = "rehash" /\ UNCHANGED <<size, i, target>>
  BY DEF Rehash, inPlace
<1>2. Types /\ Distinct /\ Counted /\ Swept /\ Phases
  BY DEF IInv
<1>3. NewCapacity(n) \in 4 .. MaxCapacity
  BY <1>1, HashTableAssumption DEF NewCapacity
<1>4. /\ cap' \in 4 .. MaxCapacity /\ state' = [b \in 0 .. cap' - 1 |-> "Free"]
      /\ slot' = [b \in 0 .. cap' - 1 |-> NoElement] /\ list' = EmptyList(cap')
  BY <1>1, <1>3 DEF Emptied
<1>5. UsedBuckets' = {} /\ DeletedBuckets' = {} /\ \A b \in Bucket' : state'[b] = "Free"
  BY <1>4 DEF UsedBuckets, DeletedBuckets, IsUsed, UsedStates, Bucket
<1>6. /\ Iterated \in Seq(Element) /\ KeysDiffer(Iterated) /\ Len(Iterated) = Cardinality(UsedBuckets)
      /\ ValuesOf(Iterated) = {slot[b] : b \in UsedBuckets}
  BY <1>2, IteratedIs
<1>7. todo \in Seq(Element) /\ KeysDiffer(todo)
  BY <1>2 DEF Types, Distinct
<1>8. /\ todo' \in Seq(Element) /\ Len(todo') = Cardinality(UsedBuckets) + Len(todo)
      /\ ValuesOf(todo') = {slot[b] : b \in UsedBuckets} \union ValuesOf(todo)
  BY <1>1, <1>6, <1>7, AppendedSeq
<1>9. KeysDiffer(todo')
  <2>1. \A e \in ValuesOf(Iterated), f \in ValuesOf(todo) : e.key # f.key
    BY <1>2, <1>6 DEF Distinct
  <2> QED BY <1>1, <1>6, <1>7, <2>1, AppendedDiffer
<1>10. ~Sweeping /\ ~Sweeping'
  BY <1>1 DEF Sweeping
<1>11. Types'
  <2>1. i' \in 0 .. cap' /\ i = 0
    BY <1>1, <1>2, <1>4, <1>10 DEF Swept
  <2>2. state' \in [Bucket' -> BucketState] /\ slot' \in [Bucket' -> Element \union {NoElement}]
    BY <1>4 DEF Bucket, BucketState
  <2> QED BY <1>1, <1>2, <1>4, <1>5, <1>8, <2>1, <2>2, HashTableAssumption DEF Types
<1>12. Distinct'
  BY <1>5, <1>9 DEF Distinct
<1>13. Cardinality(UsedBuckets') = 0 /\ Cardinality(DeletedBuckets') = 0
  BY <1>5, FS_EmptySet
<1>14. Counted'
  <2>1. Len(todo') \in Nat
    BY <1>8
  <2>2. size = Len(todo')
    BY <1>2, <1>8 DEF Counted
  <2> QED BY <1>1, <1>5, <1>13, <2>1, <2>2 DEF Counted
<1>15. Placed'
  BY <1>5, <1>10 DEF Placed
<1>16. Swept' /\ Phases'
  <2>1. i' = 0 /\ pc' # "move"
    BY <1>1, <1>2 DEF Swept
  <2>2. Swept'
    BY <1>10, <2>1 DEF Swept
  <2>3. cap' > 0
    BY <1>4
  <2> QED BY <1>1, <2>2, <2>3 DEF Phases
<1>17. Load'
  <2>1. todo' = <<>> => size' = 0
    BY <1>1, <1>2, <1>8 DEF Counted
  <2>2. todo' = <<>> => ~ShouldGrow(size', deleted', cap')
    <3> SUFFICES ASSUME todo' = <<>> PROVE ~ShouldGrow(size', deleted', cap')
      OBVIOUS
    <3>1. size' = 0 /\ deleted' = 0 /\ cap' \in Nat /\ cap' >= 4
      BY <1>1, <1>4, <2>1, HashTableAssumption
    <3>2. ASSUME NEW c \in Nat, c >= 4 PROVE ~ShouldGrow(0, 0, c)
      BY <3>2 DEF ShouldGrow
    <3> QED BY <3>1, <3>2
  <2> QED BY <1>1, <2>2 DEF Load
<1>18. contents' = contents
  <2>1. \A s \in Seq(Element) : ToSet(s) = ValuesOf(s)
    BY DEF ToSet, ValuesOf
  <2>2. ToSet(todo') = ValuesOf(todo') /\ ToSet(todo) = ValuesOf(todo)
    BY <1>7, <1>8, <2>1
  <2>3. {slot'[b] : b \in UsedBuckets'} = {}
    BY <1>5
  <2> QED BY <1>8, <2>2, <2>3 DEF contents
<1> QED BY <1>11, <1>12, <1>14, <1>15, <1>16, <1>17, <1>18 DEF IInv

\* An element is put into the bucket that its key's probes come to.
LEMMA Filled ==
    ASSUME Types, Placed, ~Sweeping, \A c \in Bucket : state[c] # "Rehashed",
           \A b, c \in UsedBuckets : slot[b].key = slot[c].key => b = c,
           NEW e \in Element, NEW b \in Bucket, ~IsUsed(b), Leads(state, cap, e.key, b, {"Used"}),
           \A c \in UsedBuckets : slot[c].key # e.key,
           cap' = cap, Fill(b, e), ~IsOrdered
    PROVE  /\ UsedBuckets' = UsedBuckets \union {b}
           /\ Cardinality(UsedBuckets') = Cardinality(UsedBuckets) + 1
           /\ DeletedBuckets' = DeletedBuckets \ {b}
           /\ \A c \in Bucket : state'[c] # "Rehashed"
           /\ \A c, d \in UsedBuckets' : slot'[c].key = slot'[d].key => c = d
           /\ \A c \in UsedBuckets' : Leads(state', cap', slot'[c].key, c, Passed)
           /\ \A c \in UsedBuckets : slot'[c] = slot[c]
           /\ slot'[b] = e /\ list' = list
           /\ state' \in [Bucket -> BucketState] /\ slot' \in [Bucket -> Element \union {NoElement}]
           /\ \A c \in UsedBuckets' : slot'[c] \in Element
           /\ {slot'[c] : c \in UsedBuckets'} = {slot[c] : c \in UsedBuckets} \union {e}
<1>1. /\ slot' = [slot EXCEPT ![b] = e] /\ state' = [state EXCEPT ![b] = "Used"] /\ list' = list
  BY DEF Fill, IfOrdered
<1>2. /\ state \in [Bucket -> BucketState] /\ slot \in [Bucket -> Element \union {NoElement}]
      /\ Bucket' = Bucket /\ cap \in Nat \ {0}
      /\ \A c \in UsedBuckets : slot[c] \in Element
  BY DEF Types, Bucket
<1>3. UsedBuckets' = UsedBuckets \union {b} /\ b \notin UsedBuckets
  BY <1>1, <1>2 DEF UsedBuckets, IsUsed, UsedStates
<1>4. Cardinality(UsedBuckets') = Cardinality(UsedBuckets) + 1
  BY <1>3, BucketsFinite, FS_AddElement
<1>5. DeletedBuckets' = DeletedBuckets \ {b}
  BY <1>1, <1>2 DEF DeletedBuckets
<1>6. \A c \in Bucket : state'[c] # "Rehashed"
  BY <1>1, <1>2
<1>7. slot'[b] = e /\ \A c \in UsedBuckets : slot'[c] = slot[c]
  BY <1>1, <1>2, <1>3 DEF UsedBuckets
<1>8. \A c, d \in UsedBuckets' : slot'[c].key = slot'[d].key => c = d
  BY <1>3, <1>7
<1>9. \A c \in UsedBuckets' : Leads(state', cap', slot'[c].key, c, Passed)
  <2>1. \A S : S \in {{"Used"}, Passed} =>
            \A c \in Bucket : state[c] \in S => state'[c] \in Passed
    BY <1>1, <1>2 DEF Passed
  <2>2. Leads(state', cap', e.key, b, Passed)
    <3>1. e.key \in Key /\ \A c \in Bucket : state[c] \in {"Used"} => state'[c] \in Passed
      BY <2>1 DEF Element
    <3> QED BY <1>2, <3>1, SameWay DEF Bucket
  <2>3. ASSUME NEW c \in UsedBuckets PROVE Leads(state', cap', slot[c].key, c, Passed)
    <3>1. Leads(state, cap, slot[c].key, c, Passed) /\ slot[c].key \in Key
      BY <1>2 DEF Placed, Element
    <3>2. \A d \in Bucket : state[d] \in Passed => state'[d] \in Passed
      BY <2>1
    <3> QED BY <1>2, <3>1, <3>2, SameWay DEF Bucket
  <2> QED BY <1>3, <1>7, <2>2, <2>3
<1>10. /\ state' \in [Bucket -> BucketState] /\ slot' \in [Bucket -> Element \union {NoElement}]
       /\ \A c \in UsedBuckets' : slot'[c] \in Element
  BY <1>1, <1>2, <1>3, <1>7 DEF BucketState
<1>11. {slot'[c] : c \in UsedBuckets'} = {slot[c] : c \in UsedBuckets} \union {e}
  BY <1>3, <1>7
<1> QED BY <1>1, <1>3, <1>4, <1>5, <1>6, <1>7, <1>8, <1>9, <1>10, <1>11

LEMMA TailIs ==
    ASSUME NEW s \in Seq(Element), s # <<>>
    PROVE  /\ Head(s) \in Element /\ Tail(s) \in Seq(Element) /\ Len(s) = Len(Tail(s)) + 1
           /\ ValuesOf(s) = ValuesOf(Tail(s)) \union {Head(s)}
           /\ KeysDiffer(s) => KeysDiffer(Tail(s)) /\ \A e \in ValuesOf(Tail(s)) : e.key # Head(s).key
<1> DEFINE t == Tail(s)
<1>1. /\ Head(s) = s[1] /\ Head(s) \in Element /\ t \in Seq(Element) /\ Len(s) = Len(t) + 1
      /\ Len(t) \in Nat /\ \A n \in 1 .. Len(t) : t[n] = s[n + 1]
  OBVIOUS
<1> HIDE DEF t
<1>2. ASSUME NEW n \in 1 .. Len(s) PROVE s[n] \in ValuesOf(t) \union {Head(s)}
  <2>1. CASE n = 1
    BY <1>1, <2>1
  <2>2. CASE n # 1
    <3>1. n - 1 \in 1 .. Len(t) /\ (n - 1) + 1 = n
      BY <1>1, <2>2
    <3> QED BY <1>1, <3>1 DEF ValuesOf
  <2> QED BY <2>1, <2>2
<1>3. ASSUME NEW n \in 1 .. Len(t) PROVE t[n] \in ValuesOf(s)
  BY <1>1 DEF ValuesOf
<1>4. ValuesOf(s) = ValuesOf(t) \union {Head(s)}
  <2>1. Head(s) \in ValuesOf(s)
    BY <1>1 DEF ValuesOf
  <2> QED BY <1>2, <1>3, <2>1 DEF ValuesOf
<1>5. KeysDiffer(s) => KeysDiffer(t) /\ \A e \in ValuesOf(t) : e.key # Head(s).key
  <2> SUFFICES ASSUME KeysDiffer(s) PROVE KeysDiffer(t) /\ \A e \in ValuesOf(t) : e.key # Head(s).key
    OBVIOUS
  <2>1. \A m, n \in 1 .. Len(s) : s[m].key = s[n].key => m = n
    BY DEF KeysDiffer
  <2>2. ASSUME NEW m \in 1 .. Len(t), NEW n \in 1 .. Len(t), t[m].key = t[n].key PROVE m = n
    <3>1. m + 1 \in 1 .. Len(s) /\ n + 1 \in 1 .. Len(s) /\ s[m + 1] = t[m] /\ s[n + 1] = t[n]
      BY <1>1
    <3>2. m + 1 = n + 1
      BY <2>1, <2>2, <3>1
    <3> QED BY <3>2
  <2>3. ASSUME NEW m \in 1 .. Len(t) PROVE t[m].key # Head(s).key
    <3>1. m + 1 \in 1 .. Len(s) /\ 1 \in 1 .. Len(s) /\ m + 1 # 1 /\ s[m + 1] = t[m]
      BY <1>1
    <3> QED BY <1>1, <2>1, <3>1
  <2> QED BY <2>2, <2>3 DEF KeysDiffer, ValuesOf
<1> QED BY <1>1, <1>4, <1>5 DEF t

LEMMA ContentsAre == ASSUME todo \in Seq(Element) PROVE contents = {slot[b] : b \in UsedBuckets} \union ValuesOf(todo)
BY DEF contents, ToSet, ValuesOf

LEMMA ContentsBecome ==
    ASSUME todo' \in Seq(Element)
    PROVE  contents' = {slot'[b] : b \in UsedBuckets'} \union ValuesOf(todo')
BY DEF contents, ToSet, ValuesOf

LEMMA MoveOneKeeps ==
    ASSUME IInv, ~IsOrdered, MoveOne
    PROVE  IInv' /\ contents' = contents
<1>1. /\ pc = "rehash" /\ todo # <<>> /\ UNCHANGED op
      /\ Types /\ Distinct /\ Counted /\ Placed /\ Swept /\ Phases /\ Load
  BY DEF MoveOne, IInv
<1>2. ~Sweeping /\ cap \in Nat \ {0} /\ cap <= MaxCapacity /\ deleted = 0
  BY <1>1 DEF Sweeping, Types, Phases
<1>3. CASE ShouldGrow(size, deleted, cap) /\ Rehash(2 * cap)
  <2>1. 2 * cap \in 0 .. 2 * MaxCapacity /\ 2 * cap # cap
    BY <1>2, HashTableAssumption
  <2>2. op' \in PendingSet \union {NoOp}
    BY <1>1 DEF Types
  <2> QED BY <1>2, <1>3, <2>1, <2>2, RehashAnew
<1>4. CASE /\ ~ShouldGrow(size, deleted, cap) /\ BucketForWriting(Head(todo).key) # NoBucket
           /\ Fill(BucketForWriting(Head(todo).key), Head(todo)) /\ todo' = Tail(todo)
           /\ UNCHANGED <<cap, counts, pc, inPlace>>
  <2> DEFINE e == Head(todo)
             b == BucketForWriting(e.key)
  <2>1. todo \in Seq(Element) /\ KeysDiffer(todo)
    BY <1>1 DEF Types, Distinct
  <2>2. /\ e \in Element /\ Tail(todo) \in Seq(Element) /\ Len(todo) = Len(Tail(todo)) + 1
        /\ ValuesOf(todo) = ValuesOf(Tail(todo)) \union {e}
        /\ KeysDiffer(Tail(todo)) /\ \A f \in ValuesOf(Tail(todo)) : f.key # e.key
    BY <1>1, <2>1, TailIs
  <2>3. /\ UNCHANGED <<cap, size, deleted, pc, i, target>> /\ todo' = Tail(todo)
    BY <1>4 DEF counts, inPlace
  <2>4. \A c \in Bucket : state[c] # "Rehashed"
    BY <1>1, <1>2 DEF Counted
  <2>5. e.key \in Key
    BY <2>2 DEF Element
  <2>6. b \in Bucket /\ ~IsUsed(b) /\ Leads(state, cap, e.key, b, {"Used"}) /\ \A c \in UsedBuckets : slot[c].key # e.key
    <3>1. \A c \in UsedBuckets : slot[c].key # e.key
      BY <1>1, <2>2 DEF Distinct
    <3>2. b \in Bucket /\ (IsUsed(b) => slot[b].key = e.key) /\ (~IsUsed(b) => Leads(state, cap, e.key, b, {"Used"}))
      BY <1>1, <1>2, <1>4, <2>4, <2>5, WrittenWhere
    <3> QED BY <3>1, <3>2 DEF UsedBuckets
  <2>7. /\ UsedBuckets' = UsedBuckets \union {b}
        /\ Cardinality(UsedBuckets') = Cardinality(UsedBuckets) + 1
        /\ DeletedBuckets' = DeletedBuckets \ {b}
        /\ \A c \in Bucket : state'[c] # "Rehashed"
        /\ \A c, d \in UsedBuckets' : slot'[c].key = slot'[d].key => c = d
        /\ \A c \in UsedBuckets' : Leads(state', cap', slot'[c].key, c, Passed)
        /\ \A c \in UsedBuckets : slot'[c] = slot[c]
        /\ slot'[b] = e /\ list' = list
        /\ state' \in [Bucket -> BucketState] /\ slot' \in [Bucket -> Element \union {NoElement}]
        /\ \A c \in UsedBuckets' : slot'[c] \in Element
        /\ {slot'[c] : c \in UsedBuckets'} = {slot[c] : c \in UsedBuckets} \union {e}
    <3> HIDE DEF e, b
    <3>1. \A c, d \in UsedBuckets : slot[c].key = slot[d].key => c = d
      BY <1>1 DEF Distinct
    <3>2. Fill(b, e) /\ cap' = cap
      BY <1>4, <2>3 DEF e, b
    <3> QED BY <1>1, <1>2, <2>2, <2>4, <2>6, <3>1, <3>2, Filled
  <2> HIDE DEF e, b
  <2>8. Bucket' = Bucket /\ ~Sweeping'
    BY <1>1, <2>3 DEF Bucket, Sweeping
  <2>9. Types'
    BY <1>1, <2>2, <2>3, <2>7, <2>8 DEF Types
  <2>10. Distinct'
    <3>1. ASSUME NEW c \in UsedBuckets', NEW f \in ValuesOf(todo') PROVE slot'[c].key # f.key
      <4>1. f \in ValuesOf(todo) /\ f.key # e.key
        BY <2>2, <2>3
      <4>2. CASE c = b
        BY <2>7, <4>1, <4>2
      <4>3. CASE c \in UsedBuckets
        BY <1>1, <2>7, <4>1, <4>3 DEF Distinct
      <4> QED BY <2>7, <4>2, <4>3
    <3> QED BY <2>2, <2>3, <2>7, <3>1 DEF Distinct
  <2>11. Counted'
    <3>1. Cardinality(DeletedBuckets) = 0
      BY <1>1, <1>2 DEF Counted
    <3>2. DeletedBuckets' = {}
      BY <1>1, <2>7, <3>1, BucketsFinite, FS_EmptySet
    <3>3. Cardinality(DeletedBuckets') = 0
      BY <3>2, FS_EmptySet
    <3>4. size = Cardinality(UsedBuckets) + Len(todo) /\ Cardinality(UsedBuckets) \in Nat /\ Len(Tail(todo)) \in Nat
      BY <1>1, <2>2, BucketsFinite DEF Counted
    <3>5. size' = Cardinality(UsedBuckets') + Len(todo')
      BY <2>2, <2>3, <2>7, <3>4
    <3> QED BY <1>2, <2>3, <2>7, <2>8, <3>3, <3>5 DEF Counted
  <2>12. Placed'
    BY <2>7, <2>8 DEF Placed
  <2>13. Swept' /\ Phases'
    <3>1. i' = 0 /\ pc' = "rehash" /\ cap' > 0 /\ deleted' = 0
      BY <1>1, <1>2, <2>3 DEF Swept
    <3> QED BY <2>8, <3>1 DEF Swept, Phases
  <2>14. Load'
    BY <1>1, <1>4, <2>3 DEF Load
  <2>15. contents' = contents
    <3>1. contents' = {slot'[c] : c \in UsedBuckets'} \union ValuesOf(todo')
      BY <2>2, <2>3, ContentsBecome
    <3>2. contents = {slot[c] : c \in UsedBuckets} \union ValuesOf(todo)
      BY <2>1, ContentsAre
    <3> QED BY <2>2, <2>3, <2>7, <3>1, <3>2
  <2> QED BY <2>9, <2>10, <2>11, <2>12, <2>13, <2>14, <2>15 DEF IInv
<1> QED BY <1>3, <1>4 DEF MoveOne

LEMMA RehashDoneKeeps ==
    ASSUME IInv, RehashDone
    PROVE  IInv' /\ contents' = contents
<1>1. /\ pc = "rehash" /\ todo = <<>> /\ pc' = AfterRehash
      /\ UNCHANGED <<cap, state, slot, list, size, deleted, op, todo, i, target>>
      /\ Types /\ Distinct /\ Counted /\ Placed /\ Swept /\ Phases /\ Load
  BY DEF RehashDone, IInv, counts, inPlace
<1>2. pc' \in {"ready", "insert"} /\ (pc' = "insert" => op \in PendingSet) /\ (pc' = "ready" => op = NoOp)
  BY <1>1 DEF AfterRehash, Types
<1>3. Bucket' = Bucket /\ UsedBuckets' = UsedBuckets /\ DeletedBuckets' = DeletedBuckets
  BY <1>1 DEF Bucket, UsedBuckets, IsUsed, DeletedBuckets
<1>4. ~Sweeping /\ ~Sweeping'
  BY <1>1, <1>2 DEF Sweeping
<1>5. Types'
  BY <1>1, <1>2, <1>3 DEF Types
<1>6. Distinct' /\ Counted'
  BY <1>1, <1>3, <1>4 DEF Distinct, Counted
<1>7. Placed'
  BY <1>1, <1>3, <1>4 DEF Placed
<1>8. Swept' /\ Phases'
  BY <1>1, <1>2, <1>4 DEF Swept, Phases
<1>9. Load'
  <2>1. ~ShouldGrow(size, deleted, cap) /\ size \in Nat /\ deleted \in Nat /\ cap \in Nat
    BY <1>1 DEF Load, Types
  <2>2. size + deleted < cap
    BY <2>1 DEF ShouldGrow
  <2> QED BY <1>1, <1>2, <2>1, <2>2 DEF Load
<1>10. contents' = contents
  BY <1>1, <1>3 DEF contents
<1> QED BY <1>5, <1>6, <1>7, <1>8, <1>9, <1>10 DEF IInv

LEMMA InsertKeeps ==
    ASSUME IInv, ~IsOrdered, Insert
    PROVE  IInv' /\ [Abstract!Next]_contents
<1> DEFINE e == op.element
           b == BucketForWriting(e.key)
<1>1. /\ pc = "insert" /\ b # NoBucket /\ pc' = "ready" /\ op' = NoOp
      /\ UNCHANGED <<cap, todo, i, target>>
      /\ Types /\ Distinct /\ Counted /\ Placed /\ Swept /\ Phases /\ Load
  BY DEF Insert, IInv, inPlace
<1>2. e \in Element /\ e.key \in Key /\ todo = <<>> /\ op \in PendingSet
  BY <1>1 DEF Phases, PendingSet, Element
<1>3. ~Sweeping /\ ~Sweeping' /\ \A c \in Bucket : state[c] # "Rehashed"
  BY <1>1 DEF Sweeping, Counted
<1>4. size \in Nat /\ deleted \in Nat /\ cap \in Nat \ {0} /\ size + deleted + 1 < cap
  <2>1. size \in Nat /\ deleted \in Nat /\ cap \in Nat /\ ~ShouldGrow(size, deleted, cap)
    BY <1>1 DEF Types, Load
  <2> QED BY <2>1 DEF ShouldGrow
<1>5. /\ b \in Bucket /\ (IsUsed(b) => slot[b].key = e.key)
      /\ ~IsUsed(b) => Leads(state, cap, e.key, b, {"Used"}) /\ \A c \in UsedBuckets : slot[c].key # e.key
  BY <1>1, <1>2, <1>3, <1>4, WrittenWhere
<1>6. /\ Bucket' = Bucket /\ todo' \in Seq(Element) /\ Len(todo') = 0 /\ ValuesOf(todo') = {} /\ KeysDiffer(todo')
  BY <1>1, <1>2 DEF Bucket, ValuesOf, KeysDiffer
<1>7. contents = {slot[c] : c \in UsedBuckets}
  BY <1>1, <1>2, ContentsAre DEF Types, ValuesOf
<1>8. contents' = {slot'[c] : c \in UsedBuckets'}
  BY <1>6, ContentsBecome
<1>9. Swept' /\ Phases'
  BY <1>1, <1>2, <1>3 DEF Swept, Phases
<1> HIDE DEF b
<1>10. CASE IsUsed(b) /\ op.keep /\ UNCHANGED <<state, slot, list, counts>>
  <2>1. UNCHANGED <<cap, state, slot, list, size, deleted, todo, i, target>>
    BY <1>1, <1>10 DEF counts
  <2>2. UsedBuckets' = UsedBuckets /\ DeletedBuckets' = DeletedBuckets
    BY <1>6, <2>1 DEF UsedBuckets, IsUsed, DeletedBuckets
  <2>3. Types'
    BY <1>1, <1>6, <2>1, <2>2 DEF Types
  <2>4. Distinct' /\ Counted' /\ Placed'
    BY <1>1, <1>3, <1>6, <2>1, <2>2 DEF Distinct, Counted, Placed
  <2>5. Load'
    BY <1>1, <1>4, <2>1 DEF Load
  <2>6. contents' = contents
    BY <1>7, <1>8, <2>1, <2>2
  <2> QED BY <1>9, <2>3, <2>4, <2>5, <2>6 DEF IInv
<1>11. CASE IsUsed(b) /\ ~op.keep /\ slot' = [slot EXCEPT ![b] = e] /\ UNCHANGED <<state, list, counts>>
  <2>1. UNCHANGED <<cap, state, list, size, deleted, todo, i, target>>
    BY <1>1, <1>11 DEF counts
  <2>2. UsedBuckets' = UsedBuckets /\ DeletedBuckets' = DeletedBuckets /\ b \in UsedBuckets
    BY <1>5, <1>6, <1>11, <2>1 DEF UsedBuckets, IsUsed, DeletedBuckets
  <2>3. slot \in [Bucket -> Element \union {NoElement}] /\ slot[b].key = e.key
    BY <1>1, <1>5, <1>11 DEF Types
  <2>4. /\ \A c \in Bucket : slot'[c] = IF c = b THEN e ELSE slot[c]
        /\ slot' \in [Bucket -> Element \union {NoElement}]
    BY <1>2, <1>5, <1>11, <2>3
  <2>5. \A c \in Bucket : slot'[c].key = slot[c].key
    BY <2>3, <2>4
  <2>6. Types'
    BY <1>1, <1>2, <1>6, <2>1, <2>2, <2>4 DEF Types, UsedBuckets
  <2>7. Distinct'
    BY <1>1, <1>6, <2>2, <2>5 DEF Distinct, UsedBuckets
  <2>8. Counted'
    BY <1>1, <1>3, <1>6, <2>1, <2>2 DEF Counted
  <2>9. Placed'
    BY <1>1, <1>3, <2>1, <2>2, <2>5 DEF Placed, UsedBuckets
  <2>10. Load'
    BY <1>1, <1>4, <2>1 DEF Load
  <2>11. contents' = {f \in contents : f.key # e.key} \union {e}
    <3>1. \A c \in UsedBuckets : slot[c].key = e.key <=> c = b
      BY <1>1, <2>2, <2>3 DEF Distinct
    <3>2. \A c \in UsedBuckets : slot'[c] = IF c = b THEN e ELSE slot[c]
      BY <2>4 DEF UsedBuckets
    <3> HIDE DEF e
    <3> QED BY <1>7, <1>8, <2>2, <3>1, <3>2
  <2>12. Abstract!Next
    <3>1. e \in Abstract!Element
      BY <1>2 DEF Abstract!Element, Element
    <3> HIDE DEF e
    <3> QED BY <2>11, <3>1 DEF Abstract!Next, Abstract!Replace
  <2> QED BY <1>9, <2>6, <2>7, <2>8, <2>9, <2>10, <2>12 DEF IInv
<1>12. CASE ~IsUsed(b) /\ Fill(b, e) /\ deleted' = Remaining(b) /\ size' = size + 1
  <2>1. /\ UsedBuckets' = UsedBuckets \union {b}
        /\ Cardinality(UsedBuckets') = Cardinality(UsedBuckets) + 1
        /\ DeletedBuckets' = DeletedBuckets \ {b}
        /\ \A c \in Bucket : state'[c] # "Rehashed"
        /\ \A c, d \in UsedBuckets' : slot'[c].key = slot'[d].key => c = d
        /\ \A c \in UsedBuckets' : Leads(state', cap', slot'[c].key, c, Passed)
        /\ \A c \in UsedBuckets : slot'[c] = slot[c]
        /\ slot'[b] = e /\ list' = list
        /\ state' \in [Bucket -> BucketState] /\ slot' \in [Bucket -> Element \union {NoElement}]
        /\ \A c \in UsedBuckets' : slot'[c] \in Element
        /\ {slot'[c] : c \in UsedBuckets'} = {slot[c] : c \in UsedBuckets} \union {e}
    <3> HIDE DEF e
    <3>1. \A c, d \in UsedBuckets : slot[c].key = slot[d].key => c = d
      BY <1>1 DEF Distinct
    <3>2. cap' = cap
      BY <1>1
    <3> QED BY <1>1, <1>2, <1>3, <1>5, <1>12, <3>1, <3>2, Filled
  <2>2. deleted' \in Nat /\ deleted' <= deleted /\ deleted' = Cardinality(DeletedBuckets')
    <3>1. deleted = Cardinality(DeletedBuckets) /\ IsFiniteSet(DeletedBuckets)
      BY <1>1, <1>3, BucketsFinite DEF Counted
    <3>2. CASE state[b] = "Deleted"
      <4>1. b \in DeletedBuckets /\ deleted' = deleted - 1
        BY <1>5, <1>12, <3>2 DEF DeletedBuckets, Remaining
      <4>2. Cardinality(DeletedBuckets') = Cardinality(DeletedBuckets) - 1
        BY <2>1, <3>1, <4>1, FS_RemoveElement
      <4>3. IsFiniteSet(DeletedBuckets') /\ Cardinality(DeletedBuckets') \in Nat
        BY <2>1, <3>1, FS_Subset, FS_CardinalityType
      <4> QED BY <1>4, <3>1, <4>1, <4>2, <4>3
    <3>3. CASE state[b] # "Deleted"
      <4>1. DeletedBuckets' = DeletedBuckets /\ deleted' = deleted
        BY <1>12, <2>1, <3>3 DEF DeletedBuckets, Remaining
      <4> QED BY <1>4, <3>1, <4>1
    <3> QED BY <3>2, <3>3
  <2>3. Types'
    BY <1>1, <1>4, <1>6, <1>12, <2>1, <2>2 DEF Types
  <2>4. Distinct'
    BY <1>6, <2>1 DEF Distinct
  <2>5. Counted'
    <3>1. size = Cardinality(UsedBuckets) /\ Cardinality(UsedBuckets) \in Nat
      BY <1>1, <1>2, BucketsFinite DEF Counted
    <3>2. size' = Cardinality(UsedBuckets') + Len(todo')
      BY <1>6, <1>12, <2>1, <3>1
    <3> QED BY <1>3, <1>6, <2>1, <2>2, <3>2 DEF Counted
  <2>6. Placed'
    BY <1>3, <2>1 DEF Placed
  <2>7. Load'
    <3>1. size' + deleted' < cap' /\ pc' = "ready"
      BY <1>1, <1>4, <1>12, <2>2
    <3> QED BY <3>1 DEF Load
  <2>8. contents' = {f \in contents : f.key # e.key} \union {e}
    <3> HIDE DEF e
    <3>1. contents' = contents \union {e}
      BY <1>7, <1>8, <2>1
    <3>2. \A f \in contents : f.key # e.key
      BY <1>5, <1>7, <1>12
    <3> QED BY <3>1, <3>2
  <2>9. Abstract!Next
    <3>1. e \in Abstract!Element
      BY <1>2 DEF Abstract!Element, Element
    <3> HIDE DEF e
    <3> QED BY <2>8, <3>1 DEF Abstract!Next, Abstract!Replace
  <2> QED BY <1>9, <2>3, <2>4, <2>5, <2>6, <2>7, <2>9 DEF IInv
<1> QED BY <1>10, <1>11, <1>12 DEF Insert, b

LEMMA TrySetKeeps ==
    ASSUME IInv, ~IsOrdered, NEW e \in Element, NEW keep \in BOOLEAN, TrySet(e, keep)
    PROVE  IInv' /\ contents' = contents
<1>1. /\ pc = "ready" /\ op' = [element |-> e, keep |-> keep] /\ op' \in PendingSet
      /\ Types /\ Distinct /\ Counted /\ Placed /\ Swept /\ Phases /\ Load
  BY DEF TrySet, IInv, PendingSet
<1>2. ~Sweeping /\ cap \in Nat /\ cap <= MaxCapacity /\ todo = <<>>
  BY <1>1 DEF Sweeping, Types, Phases
<1>3. CASE ShouldGrow(size, deleted, cap) /\ Rehash(2 * cap)
  <2>1. 2 * cap \in 0 .. 2 * MaxCapacity /\ ~(2 * cap = cap /\ 2 * cap >= 4)
    BY <1>2, HashTableAssumption
  <2> QED BY <1>1, <1>2, <1>3, <2>1, RehashAnew
<1>4. CASE ~ShouldGrow(size, deleted, cap) /\ pc' = "insert" /\ UNCHANGED <<cap, state, slot, list, counts, todo, inPlace>>
  <2>1. UNCHANGED <<cap, state, slot, list, size, deleted, todo, i, target>> /\ pc' = "insert"
    BY <1>4 DEF counts, inPlace
  <2>2. Bucket' = Bucket /\ UsedBuckets' = UsedBuckets /\ DeletedBuckets' = DeletedBuckets
    BY <2>1 DEF Bucket, UsedBuckets, IsUsed, DeletedBuckets
  <2>3. ~Sweeping'
    BY <2>1 DEF Sweeping
  <2>4. Types'
    BY <1>1, <2>1, <2>2 DEF Types
  <2>5. Distinct' /\ Counted'
    BY <1>1, <1>2, <2>1, <2>2, <2>3 DEF Distinct, Counted
  <2>6. Placed'
    BY <1>1, <1>2, <2>1, <2>2, <2>3 DEF Placed
  <2>7. Swept' /\ Phases'
    BY <1>1, <1>2, <2>1, <2>3 DEF Swept, Phases
  <2>8. Load'
    BY <1>1, <1>4, <2>1 DEF Load
  <2>9. contents' = contents
    BY <2>1, <2>2 DEF contents
  <2> QED BY <2>4, <2>5, <2>6, <2>7, <2>8, <2>9 DEF IInv
<1> QED BY <1>3, <1>4 DEF TrySet

LEMMA EnsureCapacityKeeps ==
    ASSUME IInv, ~IsOrdered, NEW c \in 0 .. MaxCapacity \div 2, EnsureCapacity(c)
    PROVE  IInv' /\ contents' = contents
<1>1. /\ pc = "ready" /\ Rehash(2 * c) /\ UNCHANGED op
      /\ Types /\ Distinct /\ Counted /\ Placed /\ Swept /\ Phases /\ Load
  BY DEF EnsureCapacity, IInv
<1>2. ~Sweeping /\ todo = <<>> /\ i = 0 /\ op' \in PendingSet \union {NoOp}
  BY <1>1 DEF Sweeping, Types, Phases, Swept
<1>3. 2 * c \in 0 .. 2 * MaxCapacity
  BY HashTableAssumption
<1>4. CASE ~(2 * c = cap /\ 2 * c >= 4)
  BY <1>1, <1>2, <1>3, <1>4, RehashAnew
<1>5. CASE 2 * c = cap /\ 2 * c >= 4
  <2>1. pc' = "sweep" /\ i' = 0 /\ UNCHANGED <<cap, state, slot, list, size, deleted, todo, op, target>>
    BY <1>1, <1>5 DEF Rehash, counts
  <2>2. Bucket' = Bucket /\ UsedBuckets' = UsedBuckets
    BY <2>1 DEF Bucket, UsedBuckets, IsUsed
  <2>3. Sweeping' /\ \A b \in Bucket' : state'[b] # "Rehashed"
    BY <1>1, <1>2, <2>1, <2>2 DEF Sweeping, Counted
  <2>4. Types'
    BY <1>1, <1>2, <2>1, <2>2 DEF Types
  <2>5. Distinct' /\ Counted'
    BY <1>1, <2>1, <2>2, <2>3 DEF Distinct, Counted
  <2>6. Placed'
    BY <2>3 DEF Placed
  <2>7. Swept' /\ Phases'
    BY <1>1, <1>2, <2>1, <2>3 DEF Swept, Phases
  <2>8. Load'
    BY <1>1, <2>1 DEF Load
  <2>9. contents' = contents
    BY <2>1, <2>2 DEF contents
  <2> QED BY <2>4, <2>5, <2>6, <2>7, <2>8, <2>9 DEF IInv
<1> QED BY <1>4, <1>5

\* Buckets are deleted: what is left is found as before, as lookups pass deleted buckets.
LEMMA DeleteKeeps ==
    ASSUME IInv, ~IsOrdered, pc = "ready", NEW B \in SUBSET UsedBuckets, Delete(B)
    PROVE  /\ IInv' /\ UsedBuckets' = UsedBuckets \ B
           /\ \A b \in UsedBuckets' : slot'[b] = slot[b]
<1>1. /\ Types /\ Distinct /\ Counted /\ Placed /\ Swept /\ Phases /\ Load
      /\ ~Sweeping /\ todo = <<>> /\ i = 0
  BY DEF IInv, Sweeping, Phases, Swept
<1>2. /\ state' = [b \in Bucket |-> IF b \in B THEN "Deleted" ELSE state[b]]
      /\ slot' = [b \in Bucket |-> IF b \in B THEN NoElement ELSE slot[b]]
      /\ list' = list /\ size' = size - Cardinality(B) /\ deleted' = deleted + Cardinality(B)
      /\ pc' \in {"ready", "sweep"} /\ UNCHANGED <<cap, op, todo, i, target>>
  BY DEF Delete, IfOrdered, inPlace
<1>3. Bucket' = Bucket /\ B \subseteq Bucket /\ cap \in Nat
  BY <1>1, <1>2 DEF Bucket, UsedBuckets, Types
<1>4. /\ UsedBuckets' = UsedBuckets \ B /\ DeletedBuckets' = DeletedBuckets \union B
      /\ DeletedBuckets \cap B = {}
  BY <1>2, <1>3 DEF UsedBuckets, DeletedBuckets, IsUsed, UsedStates
<1>5. /\ IsFiniteSet(B) /\ Cardinality(B) \in Nat /\ Cardinality(UsedBuckets) \in Nat /\ Cardinality(DeletedBuckets) \in Nat
      /\ Cardinality(UsedBuckets') = Cardinality(UsedBuckets) - Cardinality(B)
      /\ Cardinality(UsedBuckets') \in Nat
      /\ Cardinality(DeletedBuckets') = Cardinality(DeletedBuckets) + Cardinality(B)
  <2>1. IsFiniteSet(UsedBuckets) /\ IsFiniteSet(DeletedBuckets)
    BY <1>1, BucketsFinite
  <2>2. IsFiniteSet(B) /\ IsFiniteSet(UsedBuckets \ B)
    BY <2>1, FS_Subset
  <2>3. UsedBuckets \cap B = B
    OBVIOUS
  <2>4. Cardinality(UsedBuckets \ B) = Cardinality(UsedBuckets) - Cardinality(B)
    BY <2>1, <2>3, FS_Difference
  <2>5. Cardinality(DeletedBuckets \union B) = Cardinality(DeletedBuckets) + Cardinality(B) - Cardinality({})
    BY <1>4, <2>1, <2>2, FS_Union
  <2>6. Cardinality({}) = 0
    BY FS_EmptySet
  <2>7. /\ Cardinality(B) \in Nat /\ Cardinality(UsedBuckets) \in Nat /\ Cardinality(DeletedBuckets) \in Nat
        /\ Cardinality(UsedBuckets \ B) \in Nat
    BY <2>1, <2>2, FS_CardinalityType
  <2> QED BY <1>4, <2>2, <2>4, <2>5, <2>6, <2>7
<1>6. /\ \A b \in UsedBuckets' : b \in UsedBuckets /\ slot'[b] = slot[b]
      /\ \A b \in Bucket : state'[b] # "Rehashed"
  BY <1>1, <1>2, <1>4 DEF UsedBuckets, Counted
<1>7. size = Cardinality(UsedBuckets) /\ deleted = Cardinality(DeletedBuckets) /\ Len(todo) = 0
      /\ size' = Cardinality(UsedBuckets') /\ deleted' = Cardinality(DeletedBuckets')
      /\ size' + deleted' = size + deleted /\ size' \in Nat /\ deleted' \in Nat
  <2>1. size = Cardinality(UsedBuckets) + Len(todo) /\ deleted = Cardinality(DeletedBuckets) /\ Len(todo) = 0
    BY <1>1 DEF Counted
  <2> QED BY <1>2, <1>5, <2>1
<1>8. Types'
  <2>1. state' \in [Bucket -> BucketState] /\ slot' \in [Bucket -> Element \union {NoElement}]
    BY <1>1, <1>2 DEF Types, BucketState
  <2>2. \A b \in UsedBuckets' : slot'[b] \in Element
    BY <1>1, <1>6 DEF Types
  <2> QED BY <1>1, <1>2, <1>3, <1>7, <2>1, <2>2 DEF Types
<1>9. Distinct'
  <2>1. \A b, c \in UsedBuckets' : slot'[b].key = slot'[c].key => b = c
    BY <1>1, <1>6 DEF Distinct
  <2>2. KeysDiffer(todo') /\ ValuesOf(todo') = {}
    BY <1>1, <1>2 DEF KeysDiffer, ValuesOf
  <2> QED BY <2>1, <2>2 DEF Distinct
<1>10. Counted'
  BY <1>2, <1>3, <1>5, <1>6, <1>7 DEF Counted
<1>11. Placed'
  <2>1. ASSUME NEW b \in UsedBuckets' PROVE Leads(state', cap', slot'[b].key, b, Passed)
    <3>1. Leads(state, cap, slot[b].key, b, Passed) /\ slot[b].key \in Key /\ cap \in Nat \ {0}
      BY <1>1, <1>3, <1>6 DEF Placed, Types, Element, UsedBuckets, Bucket
    <3>2. \A c \in 0 .. cap - 1 : state[c] \in Passed => state'[c] \in Passed
      BY <1>2 DEF Passed, Bucket
    <3> QED BY <1>2, <1>6, <3>1, <3>2, SameWay
  <2> QED BY <1>3, <1>6, <2>1 DEF Placed
<1>12. Swept' /\ Phases'
  BY <1>1, <1>2 DEF Swept, Phases
<1>13. Load'
  <2>1. size + deleted < cap \/ (cap = 0 /\ size = 0 /\ deleted = 0)
    BY <1>1 DEF Load
  <2>2. size' + deleted' < cap' \/ (cap' = 0 /\ size' = 0 /\ deleted' = 0)
    <3>1. size \in Nat /\ deleted \in Nat /\ cap' = cap
      BY <1>1, <1>2 DEF Types
    <3>2. size' \in Nat /\ deleted' \in Nat /\ size' + deleted' = size + deleted
      BY <1>7
    <3>3. CASE size + deleted < cap
      BY <3>1, <3>2, <3>3
    <3>4. CASE cap = 0 /\ size = 0 /\ deleted = 0
      <4>1. ASSUME NEW m \in Nat, NEW n \in Nat, m + n = 0 PROVE m = 0 /\ n = 0
        BY <4>1
      <4>2. size' + deleted' = 0
        <5>1. size + deleted = 0
          BY <3>4
        <5> QED BY <3>2, <5>1
      <4> QED BY <3>1, <3>2, <3>4, <4>1, <4>2
    <3> QED BY <2>1, <3>3, <3>4
  <2> QED BY <1>2, <2>2 DEF Load
<1> QED BY <1>4, <1>6, <1>8, <1>9, <1>10, <1>11, <1>12, <1>13 DEF IInv

LEMMA RemoveKeeps ==
    ASSUME IInv, ~IsOrdered, pc = "ready", NEW K \in SUBSET Key,
           Delete({b \in UsedBuckets : slot[b].key \in K})
    PROVE  IInv' /\ [Abstract!Next]_contents
<1> DEFINE B == {b \in UsedBuckets : slot[b].key \in K}
<1>1. /\ IInv' /\ UsedBuckets' = UsedBuckets \ B
      /\ \A b \in UsedBuckets' : slot'[b] = slot[b]
  BY DeleteKeeps
<1>2. todo = <<>> /\ todo' = <<>>
  BY DEF IInv, Phases, Delete
<1>3. contents = {slot[b] : b \in UsedBuckets} /\ contents' = {slot'[b] : b \in UsedBuckets'}
  <2>1. <<>> \in Seq(Element) /\ ValuesOf(<<>>) = {}
    BY DEF ValuesOf
  <2> QED BY <1>2, <2>1, ContentsAre, ContentsBecome
<1>4. contents' = {f \in contents : f.key \notin K}
  BY <1>1, <1>3
<1> QED BY <1>1, <1>4 DEF Abstract!Next, Abstract!RemoveAll

LEMMA RemoveOneKeeps ==
    ASSUME IInv, ~IsOrdered, NEW k \in Key, RemoveOne(k)
    PROVE  IInv' /\ [Abstract!Next]_contents
<1>1. pc = "ready"
  BY DEF RemoveOne
<1>2. PICK b \in Bucket : Holds(b, k) /\ Delete({b})
  BY DEF RemoveOne, Finds
<1>3. {b} = {c \in UsedBuckets : slot[c].key \in {k}}
  BY <1>2 DEF IInv, Distinct, Holds, UsedBuckets
<1>4. Delete({c \in UsedBuckets : slot[c].key \in {k}})
  BY <1>2, <1>3
<1>5. {k} \in SUBSET Key
  OBVIOUS
<1> QED BY <1>1, <1>4, <1>5, RemoveKeeps

\* A table that is emptied, with or without its buckets.
LEMMA ClearKeeps ==
    ASSUME IInv, pc = "ready", NEW n \in 0 .. MaxCapacity, Emptied(n), Forget
    PROVE  IInv' /\ [Abstract!Next]_contents
<1>1. /\ cap' = n /\ state' = [b \in 0 .. n - 1 |-> "Free"]
      /\ slot' = [b \in 0 .. n - 1 |-> NoElement] /\ list' = EmptyList(n)
      /\ size' = 0 /\ deleted' = 0 /\ UNCHANGED <<pc, op, todo, i, target>>
      /\ Types /\ todo = <<>> /\ i = 0 /\ op = NoOp
  BY DEF Emptied, Forget, inPlace, IInv, Phases, Swept, Sweeping
<1>2. Bucket' = 0 .. n - 1 /\ UsedBuckets' = {} /\ DeletedBuckets' = {} /\ \A b \in Bucket' : state'[b] = "Free"
  BY <1>1 DEF UsedBuckets, DeletedBuckets, IsUsed, UsedStates, Bucket
<1>3. ~Sweeping /\ ~Sweeping'
  BY <1>1 DEF Sweeping
<1>4. Types'
  <2>1. state' \in [Bucket' -> BucketState] /\ slot' \in [Bucket' -> Element \union {NoElement}]
    BY <1>1, <1>2 DEF BucketState
  <2>2. i' \in 0 .. cap' /\ cap' \in 0 .. MaxCapacity
    BY <1>1, HashTableAssumption
  <2> QED BY <1>1, <1>2, <2>1, <2>2 DEF Types
<1>5. Distinct'
  BY <1>1, <1>2 DEF Distinct, KeysDiffer, ValuesOf
<1>6. Counted'
  <2>1. Cardinality(UsedBuckets') = 0 /\ Cardinality(DeletedBuckets') = 0 /\ Len(todo') = 0
    BY <1>1, <1>2, FS_EmptySet
  <2> QED BY <1>1, <1>2, <2>1 DEF Counted
<1>7. Placed'
  BY <1>2, <1>3 DEF Placed
<1>8. Swept' /\ Phases'
  <2>1. pc' = "ready" /\ op' = NoOp /\ todo' = <<>> /\ i' = 0
    BY <1>1
  <2> QED BY <1>3, <2>1 DEF Swept, Phases
<1>9. Load'
  <2>1. size' + deleted' < cap' \/ (cap' = 0 /\ size' = 0 /\ deleted' = 0)
    BY <1>1
  <2> QED BY <1>1, <2>1 DEF Load
<1>10. contents' = {}
  <2>1. <<>> \in Seq(Element) /\ ValuesOf(<<>>) = {}
    BY DEF ValuesOf
  <2> QED BY <1>1, <1>2, <2>1, ContentsBecome
<1>11. Abstract!Next
  <2>1. contents = {slot[b] : b \in UsedBuckets}
    <3>1. <<>> \in Seq(Element) /\ ValuesOf(<<>>) = {}
      BY DEF ValuesOf
    <3> QED BY <1>1, <3>1, ContentsAre
  <2>2. \A f \in contents : f.key \in Key
    BY <1>1, <2>1 DEF Types, Element
  <2>3. contents' = {f \in contents : f.key \notin Key}
    BY <1>10, <2>2
  <2>4. Key \in SUBSET Key
    OBVIOUS
  <2> QED BY <2>3, <2>4 DEF Abstract!Next, Abstract!RemoveAll
<1> QED BY <1>4, <1>5, <1>6, <1>7, <1>8, <1>9, <1>11 DEF IInv

-----------------------------------------------------------------------------
(* The sweep in place                                                      *)

\* The facts of the invariant in a sweep, whose elements are all in buckets.
LEMMA InSweep ==
    ASSUME IInv, Sweeping
    PROVE  /\ Types /\ todo = <<>> /\ cap \in Nat /\ i \in 0 .. cap
           /\ \A b, c \in UsedBuckets : slot[b].key = slot[c].key => b = c
           /\ size = Cardinality(UsedBuckets)
           /\ \A b \in Bucket : state[b] = "Rehashed" => Leads(state, cap, slot[b].key, b, Settled)
           /\ \A b \in 0 .. i - 1 : state[b] \in {"Free", "Rehashed"}
           /\ size + deleted < cap \/ (cap = 0 /\ size = 0 /\ deleted = 0)
           /\ contents = {slot[b] : b \in UsedBuckets}
<1>1. Types /\ todo = <<>> /\ pc \notin {"rehash", "insert", "ready"}
  BY DEF IInv, Sweeping, Phases
<1>2. Len(todo) = 0 /\ todo \in Seq(Element) /\ ValuesOf(todo) = {}
  BY <1>1 DEF ValuesOf
<1>3. size = Cardinality(UsedBuckets)
  <2>1. Cardinality(UsedBuckets) \in Nat
    BY <1>1, BucketsFinite
  <2> QED BY <1>2, <2>1 DEF IInv, Counted
<1>4. contents = {slot[b] : b \in UsedBuckets}
  BY <1>2, ContentsAre
<1> QED BY <1>1, <1>3, <1>4 DEF IInv, Types, Distinct, Placed, Swept, Load

\* It is enough for a step of a sweep that buckets are exchanged and the elements in their
\* new places are found.
LEMMA SweepStep ==
    ASSUME IInv, Sweeping, pc' \in {"sweep", "move"},
           UNCHANGED <<cap, size, deleted, op, todo>>, list' = list,
           state' \in [Bucket -> BucketState], slot' \in [Bucket -> Element \union {NoElement}],
           \A b \in UsedBuckets' : slot'[b] \in Element,
           \A b, c \in UsedBuckets' : slot'[b].key = slot'[c].key => b = c,
           Cardinality(UsedBuckets') = Cardinality(UsedBuckets),
           {slot'[b] : b \in UsedBuckets'} = {slot[b] : b \in UsedBuckets},
           \A b \in Bucket : state'[b] = "Rehashed" => Leads(state', cap', slot'[b].key, b, Settled),
           i' \in 0 .. cap, target' \in Hash \union {NoTarget},
           \A b \in 0 .. i' - 1 : state'[b] \in {"Free", "Rehashed"},
           pc' = "move" =>
               /\ i' < cap /\ state'[i'] = "Used"
               /\ \E n \in 0 .. HashCount : /\ Way[slot'[i'].key][n] = target'
                                            /\ Passes(state', cap', slot'[i'].key, n, Settled)
    PROVE  IInv' /\ contents' = contents
<1>1. /\ Types /\ todo = <<>> /\ size = Cardinality(UsedBuckets)
      /\ size + deleted < cap \/ (cap = 0 /\ size = 0 /\ deleted = 0)
      /\ contents = {slot[b] : b \in UsedBuckets}
  BY InSweep
<1>2. Bucket' = Bucket /\ Sweeping' /\ todo' = <<>> /\ Len(todo') = 0 /\ ValuesOf(todo') = {} /\ KeysDiffer(todo')
      /\ todo' \in Seq(Element)
  BY <1>1 DEF Bucket, Sweeping, ValuesOf, KeysDiffer
<1>3. Types'
  BY <1>1, <1>2 DEF Types
<1>4. Distinct'
  BY <1>2 DEF Distinct
<1>5. Counted'
  <2>1. Cardinality(UsedBuckets) \in Nat
    BY <1>1, BucketsFinite
  <2> QED BY <1>1, <1>2, <2>1 DEF Counted
<1>6. Placed'
  BY <1>2 DEF Placed
<1>7. Swept'
  BY <1>2 DEF Swept
<1>8. Phases' /\ Load'
  <2>1. op = NoOp
    BY DEF IInv, Phases, Sweeping
  <2> QED BY <1>1, <1>2, <2>1 DEF Phases, Load
<1>9. contents' = contents
  BY <1>1, <1>2, ContentsBecome
<1> QED BY <1>3, <1>4, <1>5, <1>6, <1>7, <1>8, <1>9 DEF IInv

\* The bucket of the hash that is tried is on the way of the element in hand, behind
\* buckets whose elements are in place.
LEMMA InHand ==
    ASSUME IInv, pc = "move"
    PROVE  /\ i \in Bucket /\ Target \in Bucket /\ cap \in Nat \ {0} /\ state[i] = "Used" /\ i \in UsedBuckets
           /\ slot[i] \in Element /\ slot[i].key \in Key /\ target \in Hash
           /\ Leads(state, cap, slot[i].key, Target, Settled)
<1>1. /\ Types /\ i < cap /\ state[i] = "Used"
      /\ \E n \in 0 .. HashCount : Way[slot[i].key][n] = target /\ Passes(state, cap, slot[i].key, n, Settled)
  BY DEF IInv, Swept
<1>2. i \in Bucket /\ cap \in Nat \ {0} /\ i \in UsedBuckets
  BY <1>1 DEF Types, Bucket, UsedBuckets, IsUsed, UsedStates
<1>3. slot[i] \in Element /\ slot[i].key \in Key
  BY <1>1, <1>2 DEF Types, Element
<1>4. PICK n \in 0 .. HashCount : Way[slot[i].key][n] = target /\ Passes(state, cap, slot[i].key, n, Settled)
  BY <1>1
<1>5. target \in Hash
  BY <1>3, <1>4, WayIs
<1>6. Target \in Bucket
  BY <1>2, <1>5, Hashes DEF Target, Hash, Bucket
<1>7. Leads(state, cap, slot[i].key, Target, Settled)
  BY <1>4 DEF Leads, Target
<1> QED BY <1>1, <1>2, <1>3, <1>5, <1>6, <1>7

\* Elements in place stay there, and the ways to them.
LEMMA StaySettled ==
    ASSUME IInv, Sweeping, cap' = cap,
           \A b \in Bucket : state[b] = "Rehashed" => state'[b] = "Rehashed"
    PROVE  /\ \A b \in Bucket : state[b] = "Rehashed" => Leads(state', cap', slot[b].key, b, Settled)
           /\ \A k \in Key, b \in Bucket : Leads(state, cap, k, b, Settled) => Leads(state', cap', k, b, Settled)
<1>1. ASSUME NEW k \in Key, NEW b \in Bucket, Leads(state, cap, k, b, Settled)
      PROVE  Leads(state', cap', k, b, Settled)
  <2>1. cap \in Nat \ {0}
    BY InSweep DEF Bucket
  <2>2. \A d \in 0 .. cap - 1 : state[d] \in Settled => state'[d] \in Settled
    BY DEF Settled, Bucket
  <2> QED BY <1>1, <2>1, <2>2, SameWay
<1>2. ASSUME NEW b \in Bucket, state[b] = "Rehashed" PROVE Leads(state', cap', slot[b].key, b, Settled)
  <2>1. Leads(state, cap, slot[b].key, b, Settled)
    BY <1>2, InSweep
  <2>2. slot[b].key \in Key
    BY <1>2, InSweep DEF Types, UsedBuckets, IsUsed, UsedStates, Element
  <2> QED BY <1>1, <2>1, <2>2
<1> QED BY <1>1, <1>2

LEMMA SweepKeeps ==
    ASSUME IInv, Sweep
    PROVE  IInv' /\ contents' = contents
<1>1. /\ pc = "sweep" /\ i < cap /\ Sweeping
      /\ UNCHANGED <<cap, slot, list, size, deleted, op, todo>>
  BY DEF Sweep, Sweeping, counts
<1>2. /\ Types /\ cap \in Nat /\ i \in 0 .. cap
      /\ \A b, c \in UsedBuckets : slot[b].key = slot[c].key => b = c
      /\ \A b \in 0 .. i - 1 : state[b] \in {"Free", "Rehashed"}
  BY <1>1, InSweep
<1>3. i \in Bucket /\ i + 1 \in 0 .. cap /\ Bucket' = Bucket /\ cap \in Nat \ {0}
      /\ state \in [Bucket -> BucketState] /\ slot \in [Bucket -> Element \union {NoElement}]
  BY <1>1, <1>2 DEF Bucket, Types
<1>4. ASSUME /\ \A b \in Bucket : b # i => state'[b] = state[b]
             /\ state' \in [Bucket -> BucketState]
             /\ (IsUsed(i) /\ state'[i] \in UsedStates) \/ (~IsUsed(i) /\ state'[i] \notin UsedStates)
      PROVE  UsedBuckets' = UsedBuckets
  BY <1>3, <1>4 DEF UsedBuckets, IsUsed
<1>5. ASSUME /\ \A b \in Bucket : b # i => state'[b] = state[b]
             /\ state' \in [Bucket -> BucketState] /\ state'[i] \in {"Free", "Rehashed"}
             /\ UsedBuckets' = UsedBuckets /\ NextBucket
             /\ \A b \in Bucket : state'[b] = "Rehashed" => Leads(state', cap', slot[b].key, b, Settled)
      PROVE  IInv' /\ contents' = contents
  <2>1. i' = i + 1 /\ pc' = "sweep" /\ target' = NoTarget
    BY <1>5 DEF NextBucket
  <2>2. \A b \in 0 .. i' - 1 : state'[b] \in {"Free", "Rehashed"}
    BY <1>2, <1>3, <1>5, <2>1 DEF Bucket
  <2>3. \A b \in UsedBuckets' : slot'[b] \in Element
    BY <1>1, <1>2, <1>5 DEF Types
  <2>4. \A b, c \in UsedBuckets' : slot'[b].key = slot'[c].key => b = c
    BY <1>1, <1>2, <1>5
  <2>5. i' \in 0 .. cap /\ target' \in Hash \union {NoTarget} /\ pc' \in {"sweep", "move"} /\ pc' # "move"
    BY <1>3, <2>1
  <2> QED BY <1>1, <1>3, <1>5, <2>2, <2>3, <2>4, <2>5, SweepStep
<1>6. CASE state[i] \in {"Rehashed", "Free"} /\ UNCHANGED state /\ NextBucket
  <2>1. UsedBuckets' = UsedBuckets
    BY <1>3, <1>6 DEF UsedBuckets, IsUsed
  <2>2. \A b \in Bucket : state'[b] = "Rehashed" => Leads(state', cap', slot[b].key, b, Settled)
    BY <1>1, <1>6, InSweep
  <2> QED BY <1>3, <1>5, <1>6, <2>1, <2>2
<1>7. CASE state[i] = "Deleted" /\ state' = [state EXCEPT ![i] = "Free"] /\ NextBucket
  <2>1. state' \in [Bucket -> BucketState] /\ \A b \in Bucket : state'[b] = IF b = i THEN "Free" ELSE state[b]
    BY <1>3, <1>7 DEF BucketState
  <2>2. UsedBuckets' = UsedBuckets
    BY <1>3, <1>4, <1>7, <2>1 DEF IsUsed, UsedStates
  <2>3. \A b \in Bucket : state[b] = "Rehashed" => state'[b] = "Rehashed"
    BY <1>7, <2>1
  <2>4. \A b \in Bucket : state'[b] = "Rehashed" => Leads(state', cap', slot[b].key, b, Settled)
    BY <1>1, <2>1, <2>3, StaySettled
  <2> QED BY <1>3, <1>5, <1>7, <2>1, <2>2, <2>4
<1>8. CASE state[i] = "Used" /\ Home(i) = i /\ state' = [state EXCEPT ![i] = "Rehashed"] /\ NextBucket
  <2>1. state' \in [Bucket -> BucketState] /\ \A b \in Bucket : state'[b] = IF b = i THEN "Rehashed" ELSE state[b]
    BY <1>3, <1>8 DEF BucketState
  <2>2. UsedBuckets' = UsedBuckets
    BY <1>3, <1>4, <1>8, <2>1 DEF IsUsed, UsedStates
  <2>3. \A b \in Bucket : state[b] = "Rehashed" => state'[b] = "Rehashed"
    BY <2>1
  <2>4. Leads(state', cap', slot[i].key, i, Settled)
    <3>1. slot[i].key \in Key
      BY <1>2, <1>3, <1>8 DEF Types, UsedBuckets, IsUsed, UsedStates, Element
    <3>2. Way[slot[i].key][0] % cap = i /\ 0 \in 0 .. HashCount
      BY <1>8, <3>1, WayIs, Hashes DEF Home
    <3> QED BY <1>1, <3>2 DEF Leads, Passes
  <2>5. \A b \in Bucket : state'[b] = "Rehashed" => Leads(state', cap', slot[b].key, b, Settled)
    BY <1>1, <2>1, <2>3, <2>4, StaySettled
  <2> QED BY <1>3, <1>5, <1>8, <2>1, <2>2, <2>5
<1>9. CASE state[i] = "Used" /\ Home(i) # i /\ target' = HashOf[slot[i].key] /\ pc' = "move" /\ UNCHANGED <<state, i>>
  <2>1. UsedBuckets' = UsedBuckets
    BY <1>3, <1>9 DEF UsedBuckets, IsUsed
  <2>2. slot[i].key \in Key
    BY <1>2, <1>3, <1>9 DEF Types, UsedBuckets, IsUsed, UsedStates, Element
  <2>3. target' \in Hash /\ Way[slot[i].key][0] = target' /\ 0 \in 0 .. HashCount
    BY <1>9, <2>2, WayIs, Hashes, HashTableAssumption
  <2>4. Passes(state', cap', slot'[i'].key, 0, Settled)
    BY DEF Passes
  <2>5. \E n \in 0 .. HashCount : Way[slot'[i'].key][n] = target' /\ Passes(state', cap', slot'[i'].key, n, Settled)
    BY <1>1, <1>9, <2>3, <2>4
  <2>6. \A b \in Bucket : state'[b] = "Rehashed" => Leads(state', cap', slot'[b].key, b, Settled)
    BY <1>1, <1>9, InSweep
  <2>7. /\ \A b \in UsedBuckets' : slot'[b] \in Element
        /\ \A b, c \in UsedBuckets' : slot'[b].key = slot'[c].key => b = c
    BY <1>1, <1>2, <2>1 DEF Types
  <2>8. /\ i' \in 0 .. cap /\ target' \in Hash \union {NoTarget} /\ pc' \in {"sweep", "move"}
        /\ \A b \in 0 .. i' - 1 : state'[b] \in {"Free", "Rehashed"}
        /\ i' < cap /\ state'[i'] = "Used"
    BY <1>1, <1>2, <1>9, <2>3
  <2> QED BY <1>1, <1>3, <1>9, <2>1, <2>5, <2>6, <2>7, <2>8, SweepStep
<1> QED BY <1>6, <1>7, <1>8, <1>9 DEF Sweep

LEMMA StayHereKeeps ==
    ASSUME IInv, StayHere
    PROVE  IInv' /\ contents' = contents
<1>1. /\ pc = "move" /\ Target = i /\ state' = [state EXCEPT ![i] = "Rehashed"] /\ Sweeping
      /\ i' = i + 1 /\ pc' = "sweep" /\ target' = NoTarget
      /\ UNCHANGED <<cap, slot, list, size, deleted, op, todo>>
  BY DEF StayHere, Sweeping, counts, NextBucket
<1>2. /\ Types /\ \A b, c \in UsedBuckets : slot[b].key = slot[c].key => b = c
      /\ \A b \in 0 .. i - 1 : state[b] \in {"Free", "Rehashed"}
  BY <1>1, InSweep
<1>3. /\ i \in Bucket /\ cap \in Nat \ {0} /\ state[i] = "Used" /\ i \in UsedBuckets
      /\ slot[i].key \in Key /\ Leads(state, cap, slot[i].key, i, Settled)
  BY <1>1, InHand
<1>4. /\ Bucket' = Bucket /\ state' \in [Bucket -> BucketState]
      /\ \A b \in Bucket : state'[b] = IF b = i THEN "Rehashed" ELSE state[b]
  BY <1>1, <1>2, <1>3 DEF Bucket, BucketState, Types
<1>5. UsedBuckets' = UsedBuckets
  BY <1>3, <1>4 DEF UsedBuckets, IsUsed, UsedStates
<1>6. \A b \in Bucket : state'[b] = "Rehashed" => Leads(state', cap', slot'[b].key, b, Settled)
  <2>1. \A b \in Bucket : state[b] = "Rehashed" => state'[b] = "Rehashed"
    BY <1>4
  <2>2. /\ \A b \in Bucket : state[b] = "Rehashed" => Leads(state', cap', slot[b].key, b, Settled)
        /\ Leads(state', cap', slot[i].key, i, Settled)
    BY <1>1, <1>3, <2>1, StaySettled
  <2> QED BY <1>1, <1>4, <2>2
<1>7. \A b \in 0 .. i' - 1 : state'[b] \in {"Free", "Rehashed"}
  BY <1>1, <1>2, <1>3, <1>4 DEF Bucket
<1>8. /\ \A b \in UsedBuckets' : slot'[b] \in Element
      /\ \A b, c \in UsedBuckets' : slot'[b].key = slot'[c].key => b = c
      /\ slot' \in [Bucket -> Element \union {NoElement}]
  BY <1>1, <1>2, <1>5 DEF Types
<1>9. i' \in 0 .. cap /\ target' \in Hash \union {NoTarget} /\ pc' \in {"sweep", "move"} /\ pc' # "move"
  BY <1>1, <1>3 DEF Bucket
<1>10. /\ Cardinality(UsedBuckets') = Cardinality(UsedBuckets)
       /\ {slot'[b] : b \in UsedBuckets'} = {slot[b] : b \in UsedBuckets}
  BY <1>1, <1>5
<1> QED BY <1>1, <1>4, <1>6, <1>7, <1>8, <1>9, <1>10, SweepStep

LEMMA MoveToFreeKeeps ==
    ASSUME IInv, ~IsOrdered, MoveToFree
    PROVE  IInv' /\ contents' = contents
<1> DEFINE t == Target
           e == slot[i]
<1>1. /\ pc = "move" /\ t # i /\ state[t] \in FreeStates /\ Sweeping
      /\ slot' = [slot EXCEPT ![t] = e, ![i] = NoElement]
      /\ state' = [state EXCEPT ![t] = "Rehashed", ![i] = "Free"]
      /\ list' = list /\ i' = i + 1 /\ pc' = "sweep" /\ target' = NoTarget
      /\ UNCHANGED <<cap, size, deleted, op, todo>>
  BY DEF MoveToFree, Sweeping, counts, NextBucket, IfOrdered
<1>2. /\ Types /\ \A b, c \in UsedBuckets : slot[b].key = slot[c].key => b = c
      /\ \A b \in 0 .. i - 1 : state[b] \in {"Free", "Rehashed"}
  BY <1>1, InSweep
<1>3. /\ i \in Bucket /\ t \in Bucket /\ cap \in Nat \ {0} /\ state[i] = "Used" /\ i \in UsedBuckets
      /\ e \in Element /\ e.key \in Key /\ Leads(state, cap, e.key, t, Settled)
  BY <1>1, InHand
<1> HIDE DEF t, e
<1>4. /\ Bucket' = Bucket /\ state' \in [Bucket -> BucketState] /\ slot' \in [Bucket -> Element \union {NoElement}]
      /\ \A b \in Bucket : state'[b] = IF b = i THEN "Free" ELSE IF b = t THEN "Rehashed" ELSE state[b]
      /\ \A b \in Bucket : slot'[b] = IF b = i THEN NoElement ELSE IF b = t THEN e ELSE slot[b]
  BY <1>1, <1>2, <1>3 DEF Bucket, BucketState, Types
<1>5. UsedBuckets' = (UsedBuckets \ {i}) \union {t} /\ t \notin UsedBuckets
  BY <1>1, <1>3, <1>4 DEF UsedBuckets, IsUsed, UsedStates, FreeStates
<1>6. Cardinality(UsedBuckets') = Cardinality(UsedBuckets)
  <2>1. IsFiniteSet(UsedBuckets) /\ Cardinality(UsedBuckets) \in Nat
    BY <1>2, BucketsFinite
  <2>2. IsFiniteSet(UsedBuckets \ {i}) /\ Cardinality(UsedBuckets \ {i}) = Cardinality(UsedBuckets) - 1
    BY <1>3, <2>1, FS_RemoveElement
  <2>3. Cardinality((UsedBuckets \ {i}) \union {t}) = Cardinality(UsedBuckets \ {i}) + 1
    BY <1>5, <2>2, FS_AddElement
  <2> QED BY <1>5, <2>1, <2>2, <2>3
<1>7. \A b \in UsedBuckets' : slot'[b] = IF b = t THEN e ELSE slot[b]
  BY <1>1, <1>3, <1>4, <1>5 DEF UsedBuckets
<1>8. /\ \A b \in UsedBuckets' : slot'[b] \in Element
      /\ \A b, c \in UsedBuckets' : slot'[b].key = slot'[c].key => b = c
      /\ {slot'[b] : b \in UsedBuckets'} = {slot[b] : b \in UsedBuckets}
  <2>1. e = slot[i]
    BY DEF e
  <2>2. \A b \in UsedBuckets' : b # t => b \in UsedBuckets /\ b # i
    BY <1>5
  <2>3. ASSUME NEW b \in UsedBuckets', NEW c \in UsedBuckets', slot'[b].key = slot'[c].key PROVE b = c
    BY <1>2, <1>3, <1>7, <2>1, <2>2, <2>3
  <2>4. \A b \in UsedBuckets' : slot'[b] \in Element
    BY <1>2, <1>3, <1>7, <2>2 DEF Types
  <2>5. {slot'[b] : b \in UsedBuckets'} = {slot[b] : b \in UsedBuckets}
    <3>1. \A b \in UsedBuckets' : \E c \in UsedBuckets : slot'[b] = slot[c]
      BY <1>3, <1>7, <2>1, <2>2
    <3>2. ASSUME NEW c \in UsedBuckets PROVE \E b \in UsedBuckets' : slot[c] = slot'[b]
      <4>1. CASE c = i
        <5>1. t \in UsedBuckets' /\ slot'[t] = slot[c]
          BY <1>5, <1>7, <2>1, <4>1
        <5> QED BY <5>1
      <4>2. CASE c # i
        <5>1. c \in UsedBuckets' /\ c # t /\ slot'[c] = slot[c]
          BY <1>5, <1>7, <4>2
        <5> QED BY <5>1
      <4> QED BY <4>1, <4>2
    <3> QED BY <3>1, <3>2
  <2> QED BY <2>3, <2>4, <2>5
<1>9. \A b \in Bucket : state'[b] = "Rehashed" => Leads(state', cap', slot'[b].key, b, Settled)
  <2>1. \A b \in Bucket : state[b] = "Rehashed" => state'[b] = "Rehashed"
    BY <1>3, <1>4
  <2>2. /\ \A b \in Bucket : state[b] = "Rehashed" => Leads(state', cap', slot[b].key, b, Settled)
        /\ Leads(state', cap', e.key, t, Settled)
    BY <1>1, <1>3, <2>1, StaySettled
  <2> QED BY <1>3, <1>4, <2>2
<1>10. \A b \in 0 .. i' - 1 : state'[b] \in {"Free", "Rehashed"}
  BY <1>1, <1>2, <1>3, <1>4 DEF Bucket
<1>11. i' \in 0 .. cap /\ target' \in Hash \union {NoTarget} /\ pc' \in {"sweep", "move"} /\ pc' # "move"
  BY <1>1, <1>3 DEF Bucket
<1> QED BY <1>1, <1>4, <1>6, <1>8, <1>9, <1>10, <1>11, SweepStep

LEMMA ProbeOnKeeps ==
    ASSUME IInv, ProbeOn
    PROVE  IInv' /\ contents' = contents
<1> DEFINE k == slot[i].key
<1>1. /\ pc = "move" /\ state[Target] = "Rehashed" /\ Sweeping /\ target' = DoubleHash[target]
      /\ UNCHANGED <<cap, state, slot, list, size, deleted, pc, op, todo, i>>
  BY DEF ProbeOn, Sweeping, counts, NewTarget
<1>2. /\ Types /\ \A b, c \in UsedBuckets : slot[b].key = slot[c].key => b = c
      /\ \A b \in 0 .. i - 1 : state[b] \in {"Free", "Rehashed"}
  BY <1>1, InSweep
<1>3. k \in Key /\ target \in Hash /\ cap \in Nat \ {0} /\ i < cap /\ state[i] = "Used"
  BY <1>1, InHand DEF Bucket
<1>4. PICK n \in 0 .. HashCount : Way[k][n] = target /\ Passes(state, cap, k, n, Settled)
  BY <1>1 DEF IInv, Swept
<1> HIDE DEF k
<1>5. \A j \in 0 .. n : state[Way[k][j] % cap] \in Settled
  <2>1. state[Way[k][n] % cap] \in Settled
    BY <1>1, <1>4 DEF Target, Settled
  <2> QED BY <1>4, <2>1, Hashes DEF Passes
<1>6. \E m \in 0 .. HashCount : Way[k][m] = target' /\ Passes(state, cap, k, m, Settled)
  <2>1. CASE n < HashCount
    <3>1. n + 1 \in 1 .. HashCount /\ (n + 1) - 1 = n /\ n + 1 \in 0 .. HashCount
      BY <2>1, Hashes
    <3>2. Way[k][n + 1] = target'
      BY <1>1, <1>3, <1>4, <3>1, WayIs
    <3>3. Passes(state, cap, k, n + 1, Settled)
      BY <1>5, <3>1 DEF Passes
    <3> QED BY <3>1, <3>2, <3>3
  <2>2. CASE n = HashCount
    <3>1. PICK m \in 0 .. HashCount : Way[k][m] = target'
      BY <1>1, <1>3, <1>4, <2>2, WayReturns
    <3>2. Passes(state, cap, k, m, Settled)
      BY <1>5, <2>2, Hashes DEF Passes
    <3> QED BY <3>1, <3>2
  <2> QED BY <2>1, <2>2, Hashes
<1>7. Bucket' = Bucket /\ UsedBuckets' = UsedBuckets
  BY <1>1 DEF Bucket, UsedBuckets, IsUsed
<1>8. target' \in Hash
  BY <1>1, <1>3, HashTableAssumption
<1>9. \E m \in 0 .. HashCount : Way[slot'[i'].key][m] = target' /\ Passes(state', cap', slot'[i'].key, m, Settled)
  BY <1>1, <1>6 DEF k
<1>10. \A b \in Bucket : state'[b] = "Rehashed" => Leads(state', cap', slot'[b].key, b, Settled)
  BY <1>1, InSweep
<1>11. /\ \A b \in UsedBuckets' : slot'[b] \in Element
       /\ \A b, c \in UsedBuckets' : slot'[b].key = slot'[c].key => b = c
       /\ Cardinality(UsedBuckets') = Cardinality(UsedBuckets)
       /\ {slot'[b] : b \in UsedBuckets'} = {slot[b] : b \in UsedBuckets}
       /\ state' \in [Bucket -> BucketState] /\ slot' \in [Bucket -> Element \union {NoElement}]
       /\ i' \in 0 .. cap
  BY <1>1, <1>2, <1>7 DEF Types
<1>12. /\ \A b \in 0 .. i' - 1 : state'[b] \in {"Free", "Rehashed"}
       /\ i' < cap /\ state'[i'] = "Used" /\ pc' \in {"sweep", "move"}
  BY <1>1, <1>2, <1>3
<1> QED BY <1>1, <1>8, <1>9, <1>10, <1>11, <1>12, SweepStep

LEMMA SwapWithKeeps ==
    ASSUME IInv, ~IsOrdered, SwapWith
    PROVE  IInv' /\ contents' = contents
<1> DEFINE t == Target
           e == slot[i]
           f == slot[t]
<1>1. /\ pc = "move" /\ t # i /\ state[t] = "Used" /\ Sweeping
      /\ slot' = [slot EXCEPT ![i] = f, ![t] = e]
      /\ \/ /\ Home(t) # i /\ state' = [state EXCEPT ![t] = "Rehashed"]
            /\ target' = HashOf[f.key] /\ UNCHANGED <<pc, i>>
         \/ /\ Home(t) = i /\ state' = [state EXCEPT ![t] = "Rehashed", ![i] = "Rehashed"]
            /\ NextBucket
      /\ list' = list /\ UNCHANGED <<cap, size, deleted, op, todo>>
  BY DEF SwapWith, Sweeping, counts, IfOrdered
<1>2. /\ Types /\ \A b, c \in UsedBuckets : slot[b].key = slot[c].key => b = c
      /\ \A b \in 0 .. i - 1 : state[b] \in {"Free", "Rehashed"}
  BY <1>1, InSweep
<1>3. /\ i \in Bucket /\ t \in Bucket /\ cap \in Nat \ {0} /\ state[i] = "Used" /\ i \in UsedBuckets
      /\ e \in Element /\ e.key \in Key /\ Leads(state, cap, e.key, t, Settled)
  BY <1>1, InHand
<1>4. t \in UsedBuckets /\ f \in Element /\ f.key \in Key
  BY <1>1, <1>2, <1>3 DEF UsedBuckets, IsUsed, UsedStates, Types, Element
<1>5. Home(t) = HashOf[f.key] % cap
  BY DEF Home
<1> HIDE DEF t, e, f
<1>6. /\ Bucket' = Bucket /\ slot' \in [Bucket -> Element \union {NoElement}]
      /\ \A b \in Bucket : slot'[b] = IF b = i THEN f ELSE IF b = t THEN e ELSE slot[b]
  BY <1>1, <1>2, <1>3, <1>4 DEF Bucket, Types
<1>7. /\ state' \in [Bucket -> BucketState] /\ state'[t] = "Rehashed"
      /\ \A b \in Bucket : b # t /\ b # i => state'[b] = state[b]
      /\ state'[i] = IF Home(t) = i THEN "Rehashed" ELSE "Used"
  BY <1>1, <1>2, <1>3 DEF Types, BucketState
<1>8. UsedBuckets' = UsedBuckets
  BY <1>3, <1>4, <1>6, <1>7 DEF UsedBuckets, IsUsed, UsedStates
<1>9. /\ e = slot[i] /\ f = slot[t]
      /\ \A b \in UsedBuckets' : slot'[b] = IF b = i THEN f ELSE IF b = t THEN e ELSE slot[b]
  BY <1>6, <1>8 DEF e, f, UsedBuckets
<1>10. /\ \A b \in UsedBuckets' : slot'[b] \in Element
       /\ \A b, c \in UsedBuckets' : slot'[b].key = slot'[c].key => b = c
       /\ Cardinality(UsedBuckets') = Cardinality(UsedBuckets)
       /\ {slot'[b] : b \in UsedBuckets'} = {slot[b] : b \in UsedBuckets}
  <2>1. ASSUME NEW b \in UsedBuckets', NEW c \in UsedBuckets', slot'[b].key = slot'[c].key PROVE b = c
    BY <1>1, <1>2, <1>3, <1>4, <1>8, <1>9, <2>1
  <2>2. \A b \in UsedBuckets' : slot'[b] \in Element
    BY <1>2, <1>3, <1>4, <1>8, <1>9 DEF Types
  <2>3. \A b \in UsedBuckets' : \E c \in UsedBuckets : slot'[b] = slot[c]
    BY <1>3, <1>4, <1>8, <1>9
  <2>4. ASSUME NEW c \in UsedBuckets PROVE \E b \in UsedBuckets' : slot[c] = slot'[b]
    <3>1. CASE c = i
      <4>1. t \in UsedBuckets' /\ slot'[t] = slot[c]
        BY <1>1, <1>4, <1>8, <1>9, <3>1
      <4> QED BY <4>1
    <3>2. CASE c = t
      <4>1. i \in UsedBuckets' /\ slot'[i] = slot[c]
        BY <1>3, <1>8, <1>9, <3>2
      <4> QED BY <4>1
    <3>3. CASE c # i /\ c # t
      <4>1. c \in UsedBuckets' /\ slot'[c] = slot[c]
        BY <1>8, <1>9, <3>3
      <4> QED BY <4>1
    <3> QED BY <3>1, <3>2, <3>3
  <2>5. {slot'[b] : b \in UsedBuckets'} = {slot[b] : b \in UsedBuckets}
    BY <2>3, <2>4
  <2> QED BY <1>8, <2>1, <2>2, <2>5
<1>11. ASSUME NEW b \in Bucket, b # i, state'[b] = "Rehashed" PROVE Leads(state', cap', slot'[b].key, b, Settled)
  <2>1. \A c \in Bucket : state[c] = "Rehashed" => state'[c] = "Rehashed"
    BY <1>3, <1>7
  <2>2. /\ \A c \in Bucket : state[c] = "Rehashed" => Leads(state', cap', slot[c].key, c, Settled)
        /\ Leads(state', cap', e.key, t, Settled)
    BY <1>1, <1>3, <2>1, StaySettled
  <2>3. CASE b = t
    BY <1>3, <1>6, <1>11, <2>2, <2>3
  <2>4. CASE b # t
    <3>1. state[b] = "Rehashed" /\ slot'[b] = slot[b]
      BY <1>6, <1>7, <1>11, <2>4
    <3> QED BY <2>2, <3>1
  <2> QED BY <2>3, <2>4
<1>12. Way[f.key][0] = HashOf[f.key] /\ 0 \in 0 .. HashCount /\ HashOf[f.key] \in Hash
       /\ \A st, c : Passes(st, c, f.key, 0, Settled)
  BY <1>4, WayIs, Hashes, HashTableAssumption DEF Passes
<1>13. \A b \in 0 .. i - 1 : b \in Bucket /\ b # i /\ state'[b] \in {"Free", "Rehashed"}
  <2>1. \A b \in 0 .. i - 1 : b \in Bucket /\ b # i
    BY <1>3 DEF Bucket
  <2>2. \A b \in 0 .. i - 1 : state[b] \in {"Free", "Rehashed"}
    BY <1>2
  <2> QED BY <1>7, <2>1, <2>2
<1>14. CASE Home(t) # i
  <2>1. target' = HashOf[f.key] /\ pc' = "move" /\ i' = i
    BY <1>1, <1>14
  <2>2. slot'[i'] = f /\ state'[i'] = "Used"
    BY <1>3, <1>6, <1>7, <1>14, <2>1
  <2>3. \A b \in Bucket : state'[b] = "Rehashed" => Leads(state', cap', slot'[b].key, b, Settled)
    BY <1>7, <1>11, <1>14
  <2>4. \E n \in 0 .. HashCount : Way[slot'[i'].key][n] = target' /\ Passes(state', cap', slot'[i'].key, n, Settled)
    BY <1>12, <2>1, <2>2
  <2>5. i' \in 0 .. cap /\ i' < cap /\ target' \in Hash \union {NoTarget} /\ pc' \in {"sweep", "move"}
        /\ \A b \in 0 .. i' - 1 : state'[b] \in {"Free", "Rehashed"}
    BY <1>3, <1>12, <1>13, <2>1 DEF Bucket
  <2> QED BY <1>1, <1>6, <1>7, <1>10, <2>2, <2>3, <2>4, <2>5, SweepStep
<1>15. CASE Home(t) = i
  <2>1. i' = i + 1 /\ pc' = "sweep" /\ target' = NoTarget
    BY <1>1, <1>15 DEF NextBucket
  <2>2. slot'[i] = f /\ state'[i] = "Rehashed"
    BY <1>3, <1>6, <1>7, <1>15
  <2>3. Leads(state', cap', slot'[i].key, i, Settled)
    <3>1. Way[f.key][0] % cap' = i
      BY <1>1, <1>5, <1>12, <1>15
    <3> QED BY <1>12, <2>2, <3>1 DEF Leads
  <2>4. \A b \in Bucket : state'[b] = "Rehashed" => Leads(state', cap', slot'[b].key, b, Settled)
    BY <1>11, <2>3
  <2>5. i' \in 0 .. cap /\ target' \in Hash \union {NoTarget} /\ pc' \in {"sweep", "move"} /\ pc' # "move"
    BY <1>3, <2>1 DEF Bucket
  <2>6. \A b \in 0 .. i' - 1 : state'[b] \in {"Free", "Rehashed"}
    BY <1>3, <1>13, <2>1, <2>2 DEF Bucket
  <2> QED BY <1>1, <1>6, <1>7, <1>10, <2>4, <2>5, <2>6, SweepStep
<1> QED BY <1>14, <1>15

LEMMA SweepDoneKeeps ==
    ASSUME IInv, SweepDone
    PROVE  IInv' /\ contents' = contents
<1>1. /\ pc = "sweep" /\ i = cap /\ Sweeping
      /\ state' = [b \in Bucket |-> IF state[b] = "Rehashed" THEN "Used" ELSE state[b]]
      /\ deleted' = 0 /\ pc' = AfterRehash /\ i' = 0
      /\ UNCHANGED <<cap, slot, list, size, op, todo, target>>
  BY DEF SweepDone, Sweeping
<1>2. /\ Types /\ todo = <<>> /\ cap \in Nat
      /\ \A b, c \in UsedBuckets : slot[b].key = slot[c].key => b = c
      /\ size = Cardinality(UsedBuckets)
      /\ \A b \in Bucket : state[b] = "Rehashed" => Leads(state, cap, slot[b].key, b, Settled)
      /\ \A b \in Bucket : state[b] \in {"Free", "Rehashed"}
      /\ size + deleted < cap \/ (cap = 0 /\ size = 0 /\ deleted = 0)
      /\ contents = {slot[b] : b \in UsedBuckets}
  BY <1>1, InSweep DEF Bucket
<1>3. /\ Bucket' = Bucket /\ UsedBuckets' = UsedBuckets /\ DeletedBuckets' = {}
      /\ \A b \in Bucket : state'[b] \in {"Free", "Used"} /\ state' \in [Bucket -> BucketState]
  BY <1>1, <1>2 DEF Bucket, UsedBuckets, IsUsed, UsedStates, DeletedBuckets, BucketState
<1>4. pc' = "ready" /\ op' = NoOp
  BY <1>1 DEF IInv, Phases, AfterRehash
<1>5. ~Sweeping' /\ todo' = <<>> /\ Len(todo') = 0 /\ todo' \in Seq(Element) /\ ValuesOf(todo') = {} /\ KeysDiffer(todo')
  BY <1>1, <1>2, <1>4 DEF Sweeping, ValuesOf, KeysDiffer
<1>6. Types'
  <2>1. i' \in 0 .. cap'
    BY <1>1, <1>2
  <2>2. \A b \in UsedBuckets' : slot'[b] \in Element
    BY <1>1, <1>2, <1>3 DEF Types
  <2> QED BY <1>1, <1>2, <1>3, <1>4, <2>1, <2>2 DEF Types
<1>7. Distinct'
  BY <1>1, <1>2, <1>3, <1>5 DEF Distinct
<1>8. Counted'
  <2>1. Cardinality(DeletedBuckets') = 0 /\ Cardinality(UsedBuckets) \in Nat
    BY <1>2, <1>3, BucketsFinite, FS_EmptySet
  <2> QED BY <1>1, <1>2, <1>3, <1>5, <2>1 DEF Counted
<1>9. Placed'
  <2>1. ASSUME NEW b \in UsedBuckets PROVE Leads(state', cap', slot'[b].key, b, Passed)
    <3>1. b \in Bucket /\ state[b] = "Rehashed" /\ slot[b].key \in Key /\ cap \in Nat \ {0}
      BY <1>2 DEF UsedBuckets, IsUsed, UsedStates, Types, Element, Bucket
    <3>2. \A c \in 0 .. cap - 1 : state[c] \in Settled => state'[c] \in Passed
      BY <1>1 DEF Settled, Passed, Bucket
    <3> QED BY <1>1, <1>2, <3>1, <3>2, SameWay
  <2> QED BY <1>3, <1>5, <2>1 DEF Placed
<1>10. Swept' /\ Phases'
  BY <1>1, <1>4, <1>5 DEF Swept, Phases
<1>11. Load'
  <2>1. size \in Nat /\ deleted \in Nat
    BY <1>2 DEF Types
  <2>2. size' + deleted' < cap' \/ (cap' = 0 /\ size' = 0 /\ deleted' = 0)
    BY <1>1, <1>2, <2>1
  <2> QED BY <1>4, <2>2 DEF Load
<1>12. contents' = contents
  <2>1. contents' = {slot'[b] : b \in UsedBuckets'}
    BY <1>5, ContentsBecome
  <2> QED BY <1>1, <1>2, <1>3, <2>1
<1> QED BY <1>6, <1>7, <1>8, <1>9, <1>10, <1>11, <1>12 DEF IInv

-----------------------------------------------------------------------------
(* Theorems                                                                *)

LEMMA Begins ==
    ASSUME Init PROVE IInv /\ Abstract!Init
<1>1. /\ cap = 0 /\ state = <<>> /\ slot = <<>> /\ list = EmptyList(0) /\ size = 0 /\ deleted = 0
      /\ pc = "ready" /\ op = NoOp /\ todo = <<>> /\ i = 0 /\ target = NoTarget
  BY DEF Init
<1>2. Bucket = {} /\ UsedBuckets = {} /\ DeletedBuckets = {}
  BY <1>1 DEF Bucket, UsedBuckets, DeletedBuckets
<1>3. Types
  <2>1. <<>> \in [{} -> BucketState] /\ <<>> \in [{} -> Element \union {NoElement}] /\ <<>> \in Seq(Element)
    OBVIOUS
  <2>2. 0 \in 0 .. MaxCapacity /\ 0 \in 0 .. 0
    BY HashTableAssumption
  <2> QED BY <1>1, <1>2, <2>1, <2>2 DEF Types
<1>4. KeysDiffer(todo) /\ ValuesOf(todo) = {} /\ todo \in Seq(Element) /\ Len(todo) = 0 /\ ~Sweeping
  BY <1>1 DEF KeysDiffer, ValuesOf, Sweeping
<1>5. Distinct /\ Placed /\ Swept /\ Phases /\ Load
  BY <1>1, <1>2, <1>4 DEF Distinct, Placed, Swept, Phases, Load
<1>6. Counted
  <2>1. Cardinality({}) = 0
    BY FS_EmptySet
  <2> QED BY <1>1, <1>2, <1>4, <2>1 DEF Counted
<1>7. contents = {}
  BY <1>2, <1>4, ContentsAre
<1> QED BY <1>3, <1>5, <1>6, <1>7 DEF IInv, Abstract!Init

LEMMA Stutters ==
    ASSUME IInv, UNCHANGED vars PROVE IInv' /\ contents' = contents
<1>1. UNCHANGED <<cap, state, slot, list, size, deleted, pc, op, todo, i, target>>
  BY DEF vars, counts, inPlace
<1>2. Bucket' = Bucket /\ UsedBuckets' = UsedBuckets /\ DeletedBuckets' = DeletedBuckets /\ Sweeping' = Sweeping
  BY <1>1 DEF Bucket, UsedBuckets, IsUsed, DeletedBuckets, Sweeping
<1>3. Types' /\ Distinct' /\ Counted' /\ Placed'
  BY <1>1, <1>2 DEF IInv, Types, Distinct, Counted, Placed
<1>4. Swept' /\ Phases' /\ Load'
  BY <1>1, <1>2 DEF IInv, Swept, Phases, Load
<1>5. contents' = contents
  BY <1>1, <1>2 DEF contents
<1> QED BY <1>3, <1>4, <1>5 DEF IInv

LEMMA StepKeeps ==
    ASSUME IInv, ~IsOrdered, [Next]_vars
    PROVE  IInv' /\ [Abstract!Next]_contents
<1>1. CASE Steps
  BY <1>1, MoveOneKeeps, RehashDoneKeeps, SweepKeeps, StayHereKeeps, MoveToFreeKeeps, ProbeOnKeeps,
     SwapWithKeeps, SweepDoneKeeps, InsertKeeps DEF Steps
<1>2. CASE \E e \in Element, keep \in BOOLEAN : TrySet(e, keep)
  BY <1>2, TrySetKeeps
<1>3. CASE \E c \in 0 .. MaxCapacity \div 2 : EnsureCapacity(c)
  BY <1>3, EnsureCapacityKeeps
<1>4. CASE \E k \in Key : RemoveOne(k)
  BY <1>4, RemoveOneKeeps
<1>5. CASE \E K \in SUBSET Key : RemoveAllMatching(K)
  BY <1>5, RemoveKeeps DEF RemoveAllMatching
<1>6. CASE Clear
  <2>1. 0 \in 0 .. MaxCapacity
    BY HashTableAssumption
  <2> QED BY <1>6, <2>1, ClearKeeps DEF Clear
<1>7. CASE ClearWithCapacity
  <2>1. cap \in 0 .. MaxCapacity
    BY DEF IInv, Types
  <2>2. pc = "ready" /\ Emptied(cap) /\ Forget
    BY <1>7 DEF ClearWithCapacity
  <2> QED BY <2>1, <2>2, ClearKeeps
<1>8. CASE UNCHANGED vars
  BY <1>8, Stutters
<1> QED BY <1>1, <1>2, <1>3, <1>4, <1>5, <1>6, <1>7, <1>8 DEF Next

\* The inductive invariant: keys are in one place each, the counters are the numbers of
\* buckets, every element is on its key's way, a sweep leaves only settled and free buckets
\* behind, and the table has room.
THEOREM Inductive == ASSUME ~IsOrdered PROVE Spec => []IInv
<1>1. Init => IInv
  BY Begins
<1>2. IInv /\ [Next]_vars => IInv'
  BY StepKeeps
<1> QED BY <1>1, <1>2, PTL DEF Spec

\* HashTable: the type of the state.  No counter passes below zero, and no index or hash
\* leaves its range.
THEOREM TypeCorrect == ASSUME ~IsOrdered PROVE Spec => []TypeOK
<1>1. IInv => TypeOK
  <2> SUFFICES ASSUME Types PROVE TypeOK
    BY DEF IInv
  <2>1. /\ list.prev \in [Bucket -> Bucket \union {NoBucket}] /\ list.next \in [Bucket -> Bucket \union {NoBucket}]
        /\ {list.head, list.tail} \subseteq Bucket \union {NoBucket}
    BY DEF Types, EmptyList, Null, Bucket
  <2> QED BY <2>1 DEF Types, TypeOK
<1> QED BY <1>1, Inductive, PTL

\* HashTable::find: between operations each element of the table is found, in the bucket
\* that has it.
THEOREM EveryElementFound == ASSUME ~IsOrdered PROVE Spec => []FindsAll
<1>1. IInv => FindsAll
  <2> SUFFICES ASSUME IInv, pc = "ready", NEW b \in UsedBuckets PROVE Finds(slot[b].key, b)
    BY DEF FindsAll
  <2>1. Types /\ Distinct /\ Placed /\ Counted /\ Phases /\ ~Sweeping
    BY DEF IInv, Sweeping
  <2>2. EndOfLookup(slot[b].key) = b
    BY <2>1, LookedUp
  <2>3. size > 0
    <3>1. size = Cardinality(UsedBuckets) + Len(todo) /\ todo = <<>> /\ IsFiniteSet(UsedBuckets)
      BY <2>1, BucketsFinite DEF Counted, Phases
    <3>2. Cardinality(UsedBuckets) # 0 /\ Cardinality(UsedBuckets) \in Nat
      BY <3>1, FS_EmptySet, FS_CardinalityType
    <3> QED BY <3>1, <3>2
  <2>4. Holds(b, slot[b].key)
    BY DEF Holds, UsedBuckets
  <2> QED BY <2>2, <2>3, <2>4 DEF Finds
<1> QED BY <1>1, Inductive, PTL

\* HashTable::m_size and m_deleted_count: between operations they are the numbers of used
\* and of deleted buckets, which the load factor is computed from.
THEOREM CountersRight == ASSUME ~IsOrdered PROVE Spec => []CountsRight
<1>1. IInv => CountsRight
  <2> SUFFICES ASSUME IInv, pc = "ready"
               PROVE  /\ size = Cardinality(UsedBuckets) /\ deleted = Cardinality(DeletedBuckets)
                      /\ \A b \in Bucket : state[b] # "Rehashed"
    BY DEF CountsRight, DeletedBuckets
  <2>1. Types /\ Counted /\ Phases /\ ~Sweeping
    BY DEF IInv, Sweeping
  <2>2. size = Cardinality(UsedBuckets) + Len(todo) /\ todo = <<>> /\ Cardinality(UsedBuckets) \in Nat
    BY <2>1, BucketsFinite DEF Counted, Phases
  <2> QED BY <2>1, <2>2 DEF Counted
<1> QED BY <1>1, Inductive, PTL

\* double_hash goes through all the hashes before it comes back, and they are at least as
\* many as a table has buckets.
EveryHashTried ==
    /\ \A k \in Key, h \in Hash : \E n \in 0 .. HashCount : Way[k][n] = h
    /\ MaxCapacity <= HashCount

\* HashTable::lookup_with_hash: a lookup of any key ends, as the load factor leaves a free
\* bucket and the probes come to every bucket.
THEOREM LookupsEnd == ASSUME ~IsOrdered, EveryHashTried PROVE Spec => []ProbesEnd
<1>1. IInv => ProbesEnd
  <2> SUFFICES ASSUME IInv, pc = "insert" \/ (pc = "ready" /\ size > 0), NEW k \in Key
               PROVE  EndOfLookup(k) # NoBucket
    BY DEF ProbesEnd
  <2>1. Types /\ Counted /\ Phases /\ Load /\ ~Sweeping
    BY DEF IInv, Sweeping
  <2>2. cap \in Nat \ {0} /\ size \in Nat /\ deleted \in Nat /\ size + deleted < cap
    BY <2>1 DEF Types, Load, ShouldGrow
  <2>3. PICK b \in Bucket : state[b] \notin Passed
    <3> SUFFICES ASSUME \A b \in Bucket : state[b] \in Passed PROVE FALSE
      OBVIOUS
    <3>1. Bucket = UsedBuckets \union DeletedBuckets /\ UsedBuckets \cap DeletedBuckets = {}
      BY DEF UsedBuckets, DeletedBuckets, IsUsed, UsedStates, Passed
    <3>2. /\ IsFiniteSet(UsedBuckets) /\ IsFiniteSet(DeletedBuckets) /\ Cardinality(Bucket) = cap
          /\ Cardinality(UsedBuckets) \in Nat /\ Cardinality(DeletedBuckets) \in Nat
      BY <2>1, BucketsFinite
    <3>3. Cardinality(UsedBuckets \union DeletedBuckets) =
              Cardinality(UsedBuckets) + Cardinality(DeletedBuckets) - Cardinality(UsedBuckets \cap DeletedBuckets)
      BY <3>2, FS_Union
    <3>4. Cardinality(UsedBuckets \cap DeletedBuckets) = 0
      BY <3>1, FS_EmptySet
    <3>5. size = Cardinality(UsedBuckets) /\ deleted = Cardinality(DeletedBuckets)
      <4>1. size = Cardinality(UsedBuckets) + Len(todo) /\ todo = <<>> /\ deleted = Cardinality(DeletedBuckets)
        BY <2>1 DEF Counted, Phases
      <4> QED BY <3>2, <4>1
    <3> QED BY <2>2, <3>1, <3>2, <3>3, <3>4, <3>5
  <2>4. b \in Hash /\ b % cap = b
    <3>1. b \in 0 .. cap - 1 /\ cap \in Nat /\ cap <= MaxCapacity /\ MaxCapacity \in Nat /\ HashCount \in Nat
      BY <2>1, Hashes, HashTableAssumption DEF Bucket, Types
    <3>2. b \in 0 .. HashCount - 1
      BY <3>1 DEF EveryHashTried
    <3>3. b % cap = b
      BY <3>1
    <3> QED BY <3>2, <3>3 DEF Hash
  <2>5. PICK n \in 0 .. HashCount : At(k, n) = b
    BY <2>4 DEF EveryHashTried, At
  <2> DEFINE B == {c \in Bucket : Holds(c, k) \/ state[c] \notin Passed}
  <2>6. EndOfLookup(k) = FirstOn(k, B)
    BY DEF EndOfLookup, Passed
  <2>7. b \in B /\ B \subseteq Bucket /\ NoBucket \notin B
    BY <2>3 DEF NoBucket, Bucket
  <2> HIDE DEF B
  <2>8. PICK m \in 0 .. HashCount : FirstOn(k, B) = At(k, m) /\ At(k, m) \in B
    BY <2>2, <2>5, <2>7, FirstIs
  <2> QED BY <2>6, <2>7, <2>8
<1> QED BY <1>1, Inductive, PTL

\* AK::HashTable is a set of elements with different keys: set adds, replaces or keeps,
\* remove and clear remove, and no growing, shrinking or rehashing changes what is in it.
THEOREM IsKeyedSet == ASSUME ~IsOrdered PROVE Spec => ImplementsSet
<1>1. Init => Abstract!Init
  BY Begins
<1>2. IInv /\ [Next]_vars => [Abstract!Next]_Abstract!vars
  BY StepKeeps DEF Abstract!vars
<1> QED BY <1>1, <1>2, Inductive, PTL DEF Spec, ImplementsSet, Abstract!Spec
=============================================================================
