------------------------ MODULE ProcessorTrapsProofs ------------------------
(***************************************************************************)
(* For any depth of interrupts, exceptions and drains above one another,   *)
(* m_in_irq and m_in_critical come back to what each trap and each section *)
(* found, do_leave_critical's VERIFY holds, and the scheduler is entered   *)
(* only where nothing below forbids it.  If deferred_call_queue is called  *)
(* with interrupts disabled, no deferred call is lost, run twice, run      *)
(* after its entry was given back, or forgotten.                           *)
(*                                                                         *)
(* The two counters are sums over the stack, and a sum is a recursion.     *)
(* What stands for it here is the function of the partial sums: a step     *)
(* that changes, adds or removes the running context changes that function *)
(* at its end only.  The lists are linked through the entries themselves;  *)
(* what stands for following the links is a sequence for every place that  *)
(* an entry can be in, and each step says what it does to those sequences. *)
(***************************************************************************)
EXTENDS ProcessorTraps, FiniteSetTheorems, TLAPS

\* The share of a context in m_in_irq; Sections is the one in m_in_critical.
Handling(x) == IF x.kind = "irq" /\ x.at # "exit" THEN 1 ELSE 0

\* f[i] is w[1] + ... + w[i]; the last two conjuncts are what that implies.
Sums(f, w, n) ==
    /\ n \in Nat \ {0}
    /\ w \in [1..n -> Nat] /\ f \in [1..n -> Nat]
    /\ f[1] = w[1]
    /\ \A i \in 1..n : i < n => f[i + 1] = f[i] + w[i + 1]
    /\ \A i, j \in 1..n : i < j => f[i] + w[j] <= f[j]
    /\ \A i \in 1..n : w[i] <= f[i]

SectionsOf(s) == [i \in 1..Len(s) |-> Sections(s[i])]
HandlingOf(s) == [i \in 1..Len(s) |-> Handling(s[i])]

\* A trap remembers the level below it, and a leave goes on from level one.
Adds(f, g, s) ==
    /\ Sums(f, SectionsOf(s), Len(s)) /\ Sums(g, HandlingOf(s), Len(s))
    /\ \A i \in 1..Len(s) : i > 1 /\ s[i].kind \in {"irq", "fault"} => s[i].prev = g[i - 1]
    /\ \A i \in 1..Len(s) : s[i].at = "leave" => f[i] = 1

Levels(s, irqs, crits) ==
    \E f, g : Adds(f, g, s) /\ f[Len(s)] = crits /\ g[Len(s)] = irqs

\* What a context may be, wherever it stands.
HasFields(x) ==
    x = [kind |-> x.kind, at |-> x.at, flags |-> x.flags, was |-> x.was, prev |-> x.prev,
         held |-> x.held, entry |-> x.entry, read |-> x.read, todo |-> x.todo]

IsContext(x) ==
    /\ HasFields(x)
    /\ x.kind \in Kinds /\ x.held \in Nat
    /\ x.at = "exit" => x.held = 0 /\ x.kind \in {"irq", "fault"}

IsSequence(s) == \E S : s \in Seq(S)

\* The thread is at the bottom, and a drain above a function that waits for it.
Stacked(s) ==
    /\ IsSequence(s) /\ Len(s) > 0
    /\ \A i \in 1..Len(s) :
        /\ IsContext(s[i])
        /\ s[i].kind = "thread" <=> i = 1
        /\ s[i].kind = "drain" => i > 1 /\ s[i - 1].at \in {"exit", "leave"}

IInv == Stacked(stack) /\ Levels(stack, inIrq, crit)

-----------------------------------------------------------------------------
(* Sequences                                                                *)

LEMMA FrontOf ==
    ASSUME NEW S, NEW s \in Seq(S), Len(s) > 0
    PROVE  /\ Front(s) \in Seq(S) /\ Len(Front(s)) = Len(s) - 1 /\ Len(s) \in Nat
           /\ \A i \in 1..Len(s) - 1 : Front(s)[i] = s[i]
<1>1. CASE Len(s) > 1
  BY <1>1 DEF Front
<1>2. CASE Len(s) = 1
  <2>1. Front(s) = SubSeq(s, 1, 0)
    BY <1>2 DEF Front
  <2>2. SubSeq(s, 1, 0) \in Seq(S) /\ Len(SubSeq(s, 1, 0)) = 0
    BY <1>2
  <2> QED BY <1>2, <2>1, <2>2
<1>3. Len(s) > 1 \/ Len(s) = 1
  <2>1. Len(s) \in Nat
    OBVIOUS
  <2>2. \A k \in Nat : k > 0 => k > 1 \/ k = 1
    OBVIOUS
  <2> QED BY <2>1, <2>2
<1> QED BY <1>1, <1>2, <1>3

\* Taking the last context away.
LEMMA Popped ==
    ASSUME NEW s, IsSequence(s), Len(s) > 0
    PROVE  /\ IsSequence(Front(s)) /\ Len(Front(s)) = Len(s) - 1 /\ Len(s) \in Nat
           /\ \A i \in 1..Len(s) - 1 : Front(s)[i] = s[i]
BY FrontOf DEF IsSequence

\* Putting another context in the place of the last.
LEMMA FrontReplaced ==
    ASSUME NEW s, NEW c, IsSequence(s), Len(s) > 0
    PROVE  LET t == Front(s) \o <<c>>
           IN  /\ IsSequence(t) /\ Len(t) = Len(s)
               /\ \A i \in 1..Len(s) : t[i] = IF i = Len(s) THEN c ELSE s[i]
<1>1. PICK S : s \in Seq(S)
  BY DEF IsSequence
<1> DEFINE T == S \union {c}
<1>2. s \in Seq(T) /\ Len(s) \in Nat /\ c \in T
  BY <1>1
<1>3. /\ Front(s) \in Seq(T) /\ Len(Front(s)) = Len(s) - 1
      /\ \A i \in 1..Len(s) - 1 : Front(s)[i] = s[i]
  <2> HIDE DEF T
  <2> QED BY <1>2, FrontOf
<1>4. <<c>> \in Seq(T) /\ Len(<<c>>) = 1 /\ <<c>>[1] = c
  BY <1>2
<1> HIDE DEF T
<1>5. Front(s) \o <<c>> \in Seq(T) /\ Len(Front(s) \o <<c>>) = Len(s)
  BY <1>2, <1>3, <1>4
<1>6. ASSUME NEW i \in 1..Len(s) PROVE (Front(s) \o <<c>>)[i] = IF i = Len(s) THEN c ELSE s[i]
  BY <1>2, <1>3, <1>4
<1> QED BY <1>5, <1>6 DEF IsSequence

LEMMA Pushed ==
    ASSUME NEW s, NEW c, IsSequence(s)
    PROVE  /\ Append(s, c) = s \o <<c>>
           /\ IsSequence(Append(s, c)) /\ Len(Append(s, c)) = Len(s) + 1 /\ Len(s) \in Nat
           /\ \A i \in 1..Len(s) + 1 : Append(s, c)[i] = IF i = Len(s) + 1 THEN c ELSE s[i]
<1>1. PICK S : s \in Seq(S)
  BY DEF IsSequence
<1> DEFINE T == S \union {c}
<1>2. s \in Seq(T) /\ Len(s) \in Nat /\ c \in T
  BY <1>1
<1> HIDE DEF T
<1>3. Append(s, c) \in Seq(T) /\ Len(Append(s, c)) = Len(s) + 1
  BY <1>2
<1>4. \A i \in 1..Len(s) + 1 : Append(s, c)[i] = IF i = Len(s) + 1 THEN c ELSE s[i]
  BY <1>2
<1>5. Append(s, c) = s \o <<c>>
  BY <1>2
<1> QED BY <1>2, <1>3, <1>4, <1>5 DEF IsSequence

-----------------------------------------------------------------------------
(* Partial sums                                                             *)

LEMMA SumsChange ==
    ASSUME NEW n, NEW f, NEW w, Sums(f, w, n), NEW v \in [1..n -> Nat],
           \A i \in 1..n : i # n => v[i] = w[i]
    PROVE  LET g == [i \in 1..n |-> IF i = n THEN f[n] - w[n] + v[n] ELSE f[i]]
           IN  Sums(g, v, n)
<1> DEFINE g == [i \in 1..n |-> IF i = n THEN f[n] - w[n] + v[n] ELSE f[i]]
<1>1. n \in Nat \ {0} /\ w \in [1..n -> Nat] /\ f \in [1..n -> Nat] /\ w[n] <= f[n] /\ n \in 1..n /\ 1 \in 1..n
  BY DEF Sums
<1>2. g \in [1..n -> Nat]
  BY <1>1
<1>3. g[1] = v[1]
  BY <1>1 DEF Sums
<1>4. ASSUME NEW i \in 1..n, i < n PROVE g[i + 1] = g[i] + v[i + 1]
  <2>1. i + 1 \in 1..n /\ f[i + 1] = f[i] + w[i + 1] /\ g[i] = f[i]
    BY <1>1, <1>4 DEF Sums
  <2>2. g[i + 1] = IF i + 1 = n THEN f[n] - w[n] + v[n] ELSE f[i + 1]
    BY <2>1
  <2>3. i + 1 # n => v[i + 1] = w[i + 1]
    BY <2>1
  <2>4. f[i] \in Nat /\ w[i + 1] \in Nat /\ v[i + 1] \in Nat /\ f[n] \in Nat /\ w[n] \in Nat
    BY <1>1, <2>1
  <2> HIDE DEF g
  <2>5. CASE i + 1 = n
    BY <2>1, <2>2, <2>4, <2>5
  <2>6. CASE i + 1 # n
    BY <2>1, <2>2, <2>3, <2>4, <2>6
  <2> QED BY <2>5, <2>6
<1>5. ASSUME NEW i \in 1..n, NEW j \in 1..n, i < j PROVE g[i] + v[j] <= g[j]
  <2>1. f[i] + w[j] <= f[j] /\ g[i] = f[i]
    BY <1>1, <1>5 DEF Sums
  <2>2. g[j] = IF j = n THEN f[n] - w[n] + v[n] ELSE f[j]
    OBVIOUS
  <2>3. j # n => v[j] = w[j]
    OBVIOUS
  <2>4. f[i] \in Nat /\ f[j] \in Nat /\ w[j] \in Nat /\ v[j] \in Nat
    BY <1>1
  <2> HIDE DEF g
  <2>5. CASE j = n
    BY <2>1, <2>2, <2>4, <2>5
  <2>6. CASE j # n
    BY <2>1, <2>2, <2>3, <2>4, <2>6
  <2> QED BY <2>5, <2>6
<1>6. ASSUME NEW i \in 1..n PROVE v[i] <= g[i]
  BY <1>1 DEF Sums
<1> HIDE DEF g
<1>7. Sums(g, v, n)
  BY <1>1, <1>2, <1>3, <1>4, <1>5, <1>6 DEF Sums
<1> QED BY <1>7 DEF g

LEMMA SumsPush ==
    ASSUME NEW n, NEW f, NEW w, Sums(f, w, n), NEW m, m = n + 1, NEW v \in [1..m -> Nat],
           \A i \in 1..n : v[i] = w[i]
    PROVE  LET g == [i \in 1..m |-> IF i = m THEN f[n] + v[m] ELSE f[i]]
           IN  Sums(g, v, m)
<1> DEFINE g == [i \in 1..m |-> IF i = m THEN f[n] + v[m] ELSE f[i]]
<1>1. n \in Nat \ {0} /\ w \in [1..n -> Nat] /\ f \in [1..n -> Nat] /\ m \in Nat \ {0}
      /\ m \in 1..m /\ n \in 1..n /\ 1 \in 1..n /\ v[m] \in Nat
  BY DEF Sums
<1>2. g \in [1..m -> Nat]
  BY <1>1
<1>3. g[1] = v[1]
  BY <1>1 DEF Sums
<1>4. ASSUME NEW i \in 1..m, i < m PROVE g[i + 1] = g[i] + v[i + 1]
  BY <1>1, <1>4 DEF Sums
<1>5. ASSUME NEW i \in 1..m, NEW j \in 1..m, i < j PROVE g[i] + v[j] <= g[j]
  <2>1. i \in 1..n
    BY <1>1, <1>5
  <2>2. CASE j = m
    <3>1. f[i] <= f[n]
      <4>1. i = n \/ f[i] + w[n] <= f[n]
        BY <1>1, <2>1 DEF Sums
      <4>2. f[i] \in Nat /\ f[n] \in Nat /\ w[n] \in Nat
        BY <1>1, <2>1
      <4> QED BY <4>1, <4>2
    <3> QED BY <1>1, <2>1, <2>2, <3>1
  <2>3. CASE j # m
    BY <1>1, <1>5, <2>1, <2>3 DEF Sums
  <2> QED BY <2>2, <2>3
<1>6. ASSUME NEW i \in 1..m PROVE v[i] <= g[i]
  BY <1>1 DEF Sums
<1> HIDE DEF g
<1>7. Sums(g, v, m)
  BY <1>1, <1>2, <1>3, <1>4, <1>5, <1>6 DEF Sums
<1> QED BY <1>7 DEF g

LEMMA SumsPop ==
    ASSUME NEW n, NEW f, NEW w, Sums(f, w, n), n > 1, NEW m, m = n - 1,
           NEW v \in [1..m -> Nat], \A i \in 1..m : v[i] = w[i]
    PROVE  LET g == [i \in 1..m |-> f[i]]
           IN  Sums(g, v, m)
<1> DEFINE g == [i \in 1..m |-> f[i]]
<1>1. n \in Nat /\ w \in [1..n -> Nat] /\ f \in [1..n -> Nat] /\ m \in Nat \ {0} /\ 1 \in 1..m
  BY DEF Sums
<1>2. g \in [1..m -> Nat]
  BY <1>1
<1>3. g[1] = v[1]
  BY <1>1 DEF Sums
<1>4. ASSUME NEW i \in 1..m, i < m PROVE g[i + 1] = g[i] + v[i + 1]
  BY <1>1, <1>4 DEF Sums
<1>5. ASSUME NEW i \in 1..m, NEW j \in 1..m, i < j PROVE g[i] + v[j] <= g[j]
  BY <1>1, <1>5 DEF Sums
<1>6. ASSUME NEW i \in 1..m PROVE v[i] <= g[i]
  BY <1>1 DEF Sums
<1> HIDE DEF g
<1>7. Sums(g, v, m)
  BY <1>1, <1>2, <1>3, <1>4, <1>5, <1>6 DEF Sums
<1> QED BY <1>7 DEF g

-----------------------------------------------------------------------------
(* Counting                                                                 *)

Below == {p \in Nat \X Nat : p[1] < p[2]}

\* A set of numbers has a least one, which stands for induction here.
LEMMA LeastNumber ==
    ASSUME NEW S \in SUBSET Nat, S # {}
    PROVE  \E n \in S : \A k \in S : n <= k
<1>1. OpToRel(<, Nat) = Below
  BY DEF OpToRel, Below
<1>2. IsWellFoundedOn(Below, Nat) /\ S \subseteq Nat
  BY <1>1, NatLessThanWellFounded
<1>3. PICK n \in S : \A k \in S : ~(<<k, n>> \in Below)
  BY <1>2, WFMin
<1>4. ASSUME NEW k \in S PROVE n <= k
  <2>1. n \in Nat /\ k \in Nat
    OBVIOUS
  <2>2. ~(k < n)
    BY <1>3, <2>1 DEF Below
  <2> QED BY <2>1, <2>2
<1> QED BY <1>4

\* Disjoint sets of w[1], ..., w[n] elements have as many together as the sum says.
LEMMA SumsCount ==
    ASSUME NEW n, NEW f, NEW w, Sums(f, w, n), NEW F,
           \A i \in 1..n : IsFiniteSet(F[i]) /\ Cardinality(F[i]) = w[i],
           \A i, j \in 1..n : i # j => F[i] \cap F[j] = {}
    PROVE  Cardinality(UNION {F[i] : i \in 1..n}) = f[n]
<1> DEFINE U(j) == UNION {F[i] : i \in 1..j}
           Right(j) == IsFiniteSet(U(j)) /\ Cardinality(U(j)) = f[j]
           Wrong == {j \in 1..n : ~Right(j)}
<1>1. n \in Nat \ {0} /\ f[1] = w[1] /\ \A i \in 1..n : i < n => f[i + 1] = f[i] + w[i + 1]
  BY DEF Sums
<1>2. Wrong = {}
  <2> SUFFICES ASSUME Wrong # {} PROVE FALSE
    OBVIOUS
  <2>1. Wrong \in SUBSET Nat
    BY <1>1
  <2>2. PICK j \in Wrong : \A k \in Wrong : j <= k
    <3> HIDE DEF Wrong
    <3> QED BY <2>1, LeastNumber
  <2>3. j \in 1..n /\ ~Right(j)
    OBVIOUS
  <2>4. CASE j = 1
    <3>1. U(1) = F[1]
      OBVIOUS
    <3> QED BY <1>1, <2>3, <2>4, <3>1
  <2>5. CASE j # 1
    <3> DEFINE i == j - 1
    <3>1. i \in 1..n /\ i < n /\ i < j /\ i + 1 = j
      BY <1>1, <2>3, <2>5
    <3>2. Right(i)
      <4> SUFFICES ASSUME ~Right(i) PROVE FALSE
        OBVIOUS
      <4>1. i \in Wrong
        BY <3>1
      <4>2. j <= i
        BY <2>2, <4>1
      <4> QED BY <2>3, <3>1, <4>2
    <3>3. U(j) = U(i) \union F[j]
      BY <3>1, <2>3
    <3>4. U(i) \cap F[j] = {}
      <4> SUFFICES ASSUME NEW x \in U(i), x \in F[j] PROVE FALSE
        OBVIOUS
      <4>1. PICK k \in 1..i : x \in F[k]
        OBVIOUS
      <4>2. k \in 1..n /\ k # j
        <5>1. i \in Nat /\ n \in Nat /\ i < n /\ i < j /\ j \in Nat /\ k \in 1..i
          BY <1>1, <2>3, <3>1
        <5> HIDE DEF i
        <5> QED BY <5>1
      <4> QED BY <2>3, <4>1, <4>2
    <3>5. IsFiniteSet(F[j]) /\ Cardinality(F[j]) = w[j]
      BY <2>3
    <3>6. f[j] = f[i] + w[j]
      BY <1>1, <3>1
    <3> HIDE DEF U, i
    <3>7. IsFiniteSet(U(j)) /\ Cardinality(U(j)) = Cardinality(U(i)) + Cardinality(F[j])
      <4>1. Cardinality({}) = 0 /\ Cardinality(U(i)) \in Nat /\ Cardinality(F[j]) \in Nat
        BY <3>2, <3>5, FS_EmptySet, FS_CardinalityType
      <4>2. /\ IsFiniteSet(U(i) \union F[j])
            /\ Cardinality(U(i) \union F[j])
                 = Cardinality(U(i)) + Cardinality(F[j]) - Cardinality(U(i) \cap F[j])
        BY <3>2, <3>5, FS_Union
      <4>3. Cardinality(U(i) \cap F[j]) = 0
        BY <3>4, <4>1
      <4> QED BY <3>3, <4>1, <4>2, <4>3
    <3> QED BY <2>3, <3>2, <3>5, <3>6, <3>7
  <2> QED BY <2>4, <2>5
<1>3. n \in 1..n
  BY <1>1
<1> QED BY <1>2, <1>3

-----------------------------------------------------------------------------
(* The three things a step does to the stack                                *)

\* An assignment to one field of a context.
LEMMA WasSet ==
    ASSUME NEW x, HasFields(x), NEW v
    PROVE  LET y == [x EXCEPT !.was = v]
           IN  HasFields(y) /\ y.kind = x.kind /\ y.prev = x.prev /\ y.at = x.at /\ y.held = x.held
BY DEF HasFields

LEMMA EntrySet ==
    ASSUME NEW x, HasFields(x), NEW v
    PROVE  LET y == [x EXCEPT !.entry = v]
           IN  HasFields(y) /\ y.kind = x.kind /\ y.prev = x.prev /\ y.at = x.at /\ y.held = x.held
BY DEF HasFields

LEMMA ReadSet ==
    ASSUME NEW x, HasFields(x), NEW v
    PROVE  LET y == [x EXCEPT !.read = v]
           IN  HasFields(y) /\ y.kind = x.kind /\ y.prev = x.prev /\ y.at = x.at /\ y.held = x.held
BY DEF HasFields

LEMMA TodoSet ==
    ASSUME NEW x, HasFields(x), NEW v
    PROVE  LET y == [x EXCEPT !.todo = v]
           IN  HasFields(y) /\ y.kind = x.kind /\ y.prev = x.prev /\ y.at = x.at /\ y.held = x.held
BY DEF HasFields

LEMMA AtSet ==
    ASSUME NEW x, HasFields(x), NEW v
    PROVE  LET y == [x EXCEPT !.at = v]
           IN  HasFields(y) /\ y.kind = x.kind /\ y.prev = x.prev /\ y.at = v /\ y.held = x.held
BY DEF HasFields

LEMMA HeldSet ==
    ASSUME NEW x, HasFields(x), NEW v
    PROVE  LET y == [x EXCEPT !.held = v]
           IN  HasFields(y) /\ y.kind = x.kind /\ y.prev = x.prev /\ y.at = x.at /\ y.held = v
BY DEF HasFields

LEMMA Shares ==
    ASSUME NEW x, IsContext(x)
    PROVE  /\ Sections(x) \in Nat /\ Handling(x) \in {0, 1}
           /\ x.at \in {"exit", "leave"} => Sections(x) = x.held + 1
           /\ x.at \notin {"exit", "leave"} => Sections(x) = x.held
BY DEF IsContext, Sections, Handling

LEMMA SharesOf ==
    ASSUME NEW s, Stacked(s)
    PROVE  /\ SectionsOf(s) \in [1..Len(s) -> Nat] /\ HandlingOf(s) \in [1..Len(s) -> Nat]
           /\ \A i \in 1..Len(s) : SectionsOf(s)[i] = Sections(s[i]) /\ HandlingOf(s)[i] = Handling(s[i])
           /\ Len(s) \in Nat \ {0} /\ Len(s) \in 1..Len(s) /\ Last(s) = s[Len(s)]
           /\ IsContext(Last(s))
<1>1. Len(s) \in Nat
  BY DEF Stacked, IsSequence
<1>2. \A i \in 1..Len(s) : Sections(s[i]) \in Nat /\ Handling(s[i]) \in Nat
  BY Shares DEF Stacked
<1> QED BY <1>1, <1>2 DEF Stacked, SectionsOf, HandlingOf, Last

\* What the sums say at the end of the stack.
LEMMA LevelsAreNumbers ==
    ASSUME NEW s, NEW irqs, NEW crits, Stacked(s), Levels(s, irqs, crits)
    PROVE  /\ irqs \in Nat /\ crits \in Nat
           /\ Sections(Last(s)) <= crits /\ Handling(Last(s)) <= irqs
           /\ Last(s).at = "leave" => crits = 1
           /\ Last(s).kind \in {"irq", "fault"} => Last(s).prev = irqs - Handling(Last(s))
<1> DEFINE n == Len(s)
           m == n - 1
<1>1. PICK f, g : Adds(f, g, s) /\ f[n] = crits /\ g[n] = irqs
  BY DEF Levels
<1>2. /\ n \in Nat \ {0} /\ n \in 1..n /\ Last(s) = s[n]
      /\ SectionsOf(s)[n] = Sections(Last(s)) /\ HandlingOf(s)[n] = Handling(Last(s))
      /\ HandlingOf(s)[n] \in Nat
  BY SharesOf
<1>3. f \in [1..n -> Nat] /\ g \in [1..n -> Nat]
  BY <1>1 DEF Adds, Sums
<1>4. Sections(Last(s)) <= crits /\ Handling(Last(s)) <= irqs
  BY <1>1, <1>2 DEF Adds, Sums
<1>5. Last(s).at = "leave" => crits = 1
  BY <1>1, <1>2 DEF Adds
<1>6. ASSUME Last(s).kind \in {"irq", "fault"} PROVE Last(s).prev = irqs - Handling(Last(s))
  <2>1. n > 1 /\ m \in 1..n /\ m < n /\ m + 1 = n
    BY <1>2, <1>6 DEF Stacked
  <2>2. Last(s).prev = g[m]
    BY <1>1, <1>2, <1>6, <2>1 DEF Adds
  <2>3. g[m + 1] = g[m] + HandlingOf(s)[m + 1]
    BY <1>1, <2>1 DEF Adds, Sums
  <2>4. g[m] \in Nat
    BY <1>3, <2>1
  <2> QED BY <1>1, <1>2, <2>1, <2>2, <2>3, <2>4
<1> QED BY <1>1, <1>2, <1>3, <1>4, <1>5, <1>6

\* The running context goes on as c.
LEMMA Replaced ==
    ASSUME NEW s, NEW irqs, NEW crits, Stacked(s), Levels(s, irqs, crits),
           NEW c, IsContext(c), c.kind = Last(s).kind, c.prev = Last(s).prev,
           NEW irqs2, NEW crits2,
           irqs2 = irqs - Handling(Last(s)) + Handling(c),
           crits2 = crits - Sections(Last(s)) + Sections(c),
           c.at = "leave" => crits2 = 1
    PROVE  Stacked(Front(s) \o <<c>>) /\ Levels(Front(s) \o <<c>>, irqs2, crits2)
<1> DEFINE n == Len(s)
           t == Front(s) \o <<c>>
<1>1. /\ IsSequence(t) /\ Len(t) = n /\ n \in Nat \ {0} /\ n \in 1..n
      /\ \A i \in 1..n : t[i] = IF i = n THEN c ELSE s[i]
      /\ Last(s) = s[n]
  BY FrontReplaced, SharesOf DEF Stacked
<1> HIDE DEF t
<1>2. Stacked(t)
  <2> HIDE DEF n
  <2>1. ASSUME NEW i \in 1..n
        PROVE  /\ IsContext(t[i])
               /\ t[i].kind = "thread" <=> i = 1
               /\ t[i].kind = "drain" => i > 1 /\ t[i - 1].at \in {"exit", "leave"}
    <3>1. /\ IsContext(s[i]) /\ (s[i].kind = "thread" <=> i = 1)
          /\ s[i].kind = "drain" => i > 1 /\ s[i - 1].at \in {"exit", "leave"}
      BY DEF Stacked, n
    <3>2. IsContext(t[i]) /\ t[i].kind = s[i].kind
      BY <1>1, <3>1
    <3>3. i > 1 => t[i - 1] = s[i - 1]
      BY <1>1
    <3> QED BY <3>1, <3>2, <3>3
  <2> QED BY <1>1, <2>1 DEF Stacked
<1>3. PICK f, g : Adds(f, g, s) /\ f[n] = crits /\ g[n] = irqs
  BY DEF Levels
<1>4. /\ SectionsOf(t) \in [1..n -> Nat] /\ HandlingOf(t) \in [1..n -> Nat]
      /\ SectionsOf(t)[n] = Sections(c) /\ HandlingOf(t)[n] = Handling(c)
      /\ SectionsOf(s)[n] = Sections(s[n]) /\ HandlingOf(s)[n] = Handling(s[n])
      /\ \A i \in 1..n : i # n => SectionsOf(t)[i] = SectionsOf(s)[i] /\ HandlingOf(t)[i] = HandlingOf(s)[i]
  BY <1>1, <1>2, SharesOf
<1> DEFINE f2 == [i \in 1..n |-> IF i = n THEN f[n] - SectionsOf(s)[n] + SectionsOf(t)[n] ELSE f[i]]
           g2 == [i \in 1..n |-> IF i = n THEN g[n] - HandlingOf(s)[n] + HandlingOf(t)[n] ELSE g[i]]
<1>5. Sums(f2, SectionsOf(t), n)
  <2>1. Sums(f, SectionsOf(s), n)
    BY <1>3 DEF Adds
  <2> HIDE DEF n
  <2> QED BY <1>4, <2>1, SumsChange
<1>6. Sums(g2, HandlingOf(t), n)
  <2>1. Sums(g, HandlingOf(s), n)
    BY <1>3 DEF Adds
  <2> HIDE DEF n
  <2> QED BY <1>4, <2>1, SumsChange
<1>7. f2[n] = crits2 /\ g2[n] = irqs2
  BY <1>1, <1>3, <1>4
<1>8. \A i \in 1..n : i # n => f2[i] = f[i] /\ g2[i] = g[i]
  OBVIOUS
<1> HIDE DEF f2, g2
<1>9. ASSUME NEW i \in 1..n, i > 1, t[i].kind \in {"irq", "fault"} PROVE t[i].prev = g2[i - 1]
  <2>1. s[i].kind = t[i].kind /\ s[i].prev = t[i].prev
    BY <1>1
  <2>2. s[i].prev = g[i - 1]
    BY <1>3, <1>9, <2>1 DEF Adds
  <2> QED BY <1>1, <1>8, <1>9, <2>1, <2>2
<1>10. ASSUME NEW i \in 1..n, t[i].at = "leave" PROVE f2[i] = 1
  BY <1>1, <1>3, <1>7, <1>8, <1>10 DEF Adds
<1>11. Adds(f2, g2, t)
  BY <1>1, <1>5, <1>6, <1>9, <1>10 DEF Adds
<1> QED BY <1>1, <1>2, <1>7, <1>11 DEF Levels, t

\* A context d begins above the running one.
LEMMA Begun ==
    ASSUME NEW s, NEW irqs, NEW crits, Stacked(s), Levels(s, irqs, crits),
           NEW d, IsContext(d), d.kind # "thread", d.held = 0,
           d.kind \in {"irq", "fault"} => d.prev = irqs,
           d.at \notin {"exit", "leave"},
           d.kind = "drain" => Last(s).at \in {"exit", "leave"}
    PROVE  /\ Append(s, d) = s \o <<d>>
           /\ Stacked(Append(s, d)) /\ Levels(Append(s, d), irqs + Handling(d), crits)
<1> DEFINE n == Len(s)
           m == n + 1
           t == Append(s, d)
<1>1. /\ IsSequence(t) /\ Len(t) = m /\ m \in 1..m /\ n \in Nat \ {0} /\ n \in 1..n
      /\ \A i \in 1..m : t[i] = IF i = m THEN d ELSE s[i]
      /\ Last(s) = s[n] /\ t = s \o <<d>>
  BY Pushed, SharesOf DEF Stacked
<1> HIDE DEF t
<1>2. Stacked(t)
  BY <1>1 DEF Stacked
<1>3. PICK f, g : Adds(f, g, s) /\ f[n] = crits /\ g[n] = irqs
  BY DEF Levels
<1>4. /\ SectionsOf(t) \in [1..m -> Nat] /\ HandlingOf(t) \in [1..m -> Nat]
      /\ SectionsOf(t)[m] = 0 /\ HandlingOf(t)[m] = Handling(d)
      /\ \A i \in 1..n : SectionsOf(t)[i] = SectionsOf(s)[i] /\ HandlingOf(t)[i] = HandlingOf(s)[i]
  <2>1. Sections(d) = 0
    BY Shares
  <2>2. m \in 1..m /\ \A i \in 1..n : i \in 1..m /\ t[i] = s[i]
    BY <1>1
  <2>3. /\ SectionsOf(t) \in [1..m -> Nat] /\ HandlingOf(t) \in [1..m -> Nat]
        /\ \A i \in 1..m : SectionsOf(t)[i] = Sections(t[i]) /\ HandlingOf(t)[i] = Handling(t[i])
    <3> HIDE DEF m
    <3> QED BY <1>1, <1>2, SharesOf
  <2>4. \A i \in 1..n : SectionsOf(s)[i] = Sections(s[i]) /\ HandlingOf(s)[i] = Handling(s[i])
    BY SharesOf
  <2>5. SectionsOf(t)[m] = 0 /\ HandlingOf(t)[m] = Handling(d)
    BY <1>1, <2>1, <2>2, <2>3
  <2> HIDE DEF n, m
  <2> QED BY <2>2, <2>3, <2>4, <2>5
<1> DEFINE f2 == [i \in 1..m |-> IF i = m THEN f[n] + SectionsOf(t)[m] ELSE f[i]]
           g2 == [i \in 1..m |-> IF i = m THEN g[n] + HandlingOf(t)[m] ELSE g[i]]
<1>5. Sums(f2, SectionsOf(t), m)
  <2>1. Sums(f, SectionsOf(s), n)
    BY <1>3 DEF Adds
  <2>2. m = n + 1
    OBVIOUS
  <2> HIDE DEF n, m
  <2> QED BY <1>4, <2>1, <2>2, SumsPush
<1>6. Sums(g2, HandlingOf(t), m)
  <2>1. Sums(g, HandlingOf(s), n)
    BY <1>3 DEF Adds
  <2>2. m = n + 1
    OBVIOUS
  <2> HIDE DEF n, m
  <2> QED BY <1>4, <2>1, <2>2, SumsPush
<1>7. f2[m] = crits /\ g2[m] = irqs + Handling(d)
  <2>1. f \in [1..n -> Nat] /\ m \in 1..m
    BY <1>1, <1>3 DEF Adds, Sums
  <2>2. f[n] \in Nat
    BY <1>1, <2>1
  <2> QED BY <1>3, <1>4, <2>1, <2>2
<1>8. \A i \in 1..n : f2[i] = f[i] /\ g2[i] = g[i]
  BY <1>1
<1> HIDE DEF f2, g2
<1>9. ASSUME NEW i \in 1..m, i > 1, t[i].kind \in {"irq", "fault"} PROVE t[i].prev = g2[i - 1]
  <2>1. CASE i = m
    <3>1. i - 1 = n /\ t[i] = d
      BY <1>1, <2>1
    <3> QED BY <1>1, <1>3, <1>8, <1>9, <3>1
  <2>2. CASE i # m
    <3>1. i \in 1..n /\ i - 1 \in 1..n /\ t[i] = s[i]
      BY <1>1, <1>9, <2>2
    <3> QED BY <1>3, <1>8, <1>9, <3>1 DEF Adds
  <2> QED BY <2>1, <2>2
<1>10. ASSUME NEW i \in 1..m, t[i].at = "leave" PROVE f2[i] = 1
  <2>1. i \in 1..n /\ t[i] = s[i]
    BY <1>1, <1>10
  <2> QED BY <1>3, <1>8, <1>10, <2>1 DEF Adds
<1>11. Adds(f2, g2, t)
  BY <1>1, <1>5, <1>6, <1>9, <1>10 DEF Adds
<1> QED BY <1>1, <1>2, <1>7, <1>11 DEF Levels, t

\* The running context ends.
LEMMA Ended ==
    ASSUME NEW s, NEW irqs, NEW crits, Stacked(s), Levels(s, irqs, crits), Last(s).kind # "thread"
    PROVE  /\ Stacked(Front(s))
           /\ Levels(Front(s), irqs - Handling(Last(s)), crits - Sections(Last(s)))
<1> DEFINE n == Len(s)
           m == n - 1
           t == Front(s)
<1>1. n \in Nat /\ n > 1 /\ Last(s) = s[n] /\ n \in 1..n
  BY SharesOf DEF Stacked
<1>2. IsSequence(t) /\ Len(t) = m /\ \A i \in 1..m : t[i] = s[i]
  BY <1>1, Popped DEF Stacked
<1> HIDE DEF t
<1>3. Stacked(t)
  BY <1>1, <1>2 DEF Stacked
<1>4. PICK f, g : Adds(f, g, s) /\ f[n] = crits /\ g[n] = irqs
  BY DEF Levels
<1>5. /\ SectionsOf(t) \in [1..m -> Nat] /\ HandlingOf(t) \in [1..m -> Nat]
      /\ SectionsOf(s)[n] = Sections(Last(s)) /\ HandlingOf(s)[n] = Handling(Last(s))
      /\ \A i \in 1..m : SectionsOf(t)[i] = SectionsOf(s)[i] /\ HandlingOf(t)[i] = HandlingOf(s)[i]
  BY <1>1, <1>2, <1>3, SharesOf
<1> DEFINE f2 == [i \in 1..m |-> f[i]]
           g2 == [i \in 1..m |-> g[i]]
<1>6. Sums(f2, SectionsOf(t), m)
  <2>1. Sums(f, SectionsOf(s), n)
    BY <1>4 DEF Adds
  <2>2. m = n - 1 /\ n > 1
    BY <1>1
  <2> HIDE DEF n, m
  <2> QED BY <1>5, <2>1, <2>2, SumsPop
<1>7. Sums(g2, HandlingOf(t), m)
  <2>1. Sums(g, HandlingOf(s), n)
    BY <1>4 DEF Adds
  <2>2. m = n - 1 /\ n > 1
    BY <1>1
  <2> HIDE DEF n, m
  <2> QED BY <1>5, <2>1, <2>2, SumsPop
<1>8. f2[m] = crits - Sections(Last(s)) /\ g2[m] = irqs - Handling(Last(s))
  <2>1. /\ f \in [1..n -> Nat] /\ g \in [1..n -> Nat] /\ m \in 1..n /\ m < n
        /\ m + 1 = n /\ SectionsOf(s)[n] \in Nat /\ HandlingOf(s)[n] \in Nat
    BY <1>1, <1>4, SharesOf DEF Adds, Sums
  <2>2. f[m + 1] = f[m] + SectionsOf(s)[m + 1]
        /\ g[m + 1] = g[m] + HandlingOf(s)[m + 1]
    BY <1>4, <2>1 DEF Adds, Sums
  <2>3. f2[m] = f[m] /\ g2[m] = g[m]
    BY <1>1
  <2>4. f[n] = f[m] + SectionsOf(s)[n] /\ g[n] = g[m] + HandlingOf(s)[n]
    BY <2>1, <2>2
  <2>5. f[m] \in Nat /\ g[m] \in Nat
    BY <2>1
  <2> HIDE DEF f2, g2, n, m
  <2>6. f2[m] = crits - Sections(Last(s))
    BY <1>4, <1>5, <2>1, <2>3, <2>4, <2>5
  <2>7. g2[m] = irqs - Handling(Last(s))
    BY <1>4, <1>5, <2>1, <2>3, <2>4, <2>5
  <2> QED BY <2>6, <2>7
<1>9. \A i \in 1..m : f2[i] = f[i] /\ g2[i] = g[i]
  OBVIOUS
<1> HIDE DEF f2, g2
<1>10. Adds(f2, g2, t)
  BY <1>1, <1>2, <1>4, <1>6, <1>7, <1>9 DEF Adds
<1> QED BY <1>2, <1>3, <1>8, <1>10 DEF Levels, t

\* exit_trap or leave_critical goes on as c, below the drain if there is one.
LEMMA Drains ==
    ASSUME IInv, NEW c, IsContext(c), c.kind = Top.kind, c.prev = Top.prev, c.at \in {"exit", "leave"},
           NEW irqs2, NEW crits2,
           irqs2 = inIrq - Handling(Top) + Handling(c),
           crits2 = crit - Sections(Top) + Sections(c),
           c.at = "leave" => crits2 = 1, irqs2 \in Nat,
           ExecutePending(c)
    PROVE  Stacked(stack') /\ Levels(stack', irqs2, crits2)
<1>1. Stacked(WithTop(c)) /\ Levels(WithTop(c), irqs2, crits2)
  BY Replaced DEF IInv, WithTop, Top
<1>2. CASE pending = Null
  BY <1>1, <1>2 DEF ExecutePending
<1>3. CASE pending # Null
  <2>1. PICK x : stack' = WithTop(c) \o <<Context("drain", "run", x)>>
    BY <1>3 DEF ExecutePending
  <2> DEFINE d == Context("drain", "run", x)
  <2>2. /\ IsContext(d) /\ d.kind = "drain" /\ d.held = 0 /\ d.at = "run" /\ Handling(d) = 0
    BY DEF Context, IsContext, HasFields, Kinds, Handling
  <2>3. Last(WithTop(c)) = c
    <3>1. IsSequence(stack) /\ Len(stack) > 0 /\ Len(stack) \in 1..Len(stack)
      BY SharesOf DEF IInv, Stacked
    <3>2. Len(WithTop(c)) = Len(stack) /\ WithTop(c)[Len(stack)] = c
      BY <3>1, FrontReplaced DEF WithTop
    <3> QED BY <3>2 DEF Last
  <2> HIDE DEF d
  <2>4. /\ Append(WithTop(c), d) = WithTop(c) \o <<d>>
        /\ Stacked(Append(WithTop(c), d)) /\ Levels(Append(WithTop(c), d), irqs2 + Handling(d), crits2)
    BY <1>1, <2>2, <2>3, Begun
  <2>5. irqs2 + Handling(d) = irqs2
    BY <2>2
  <2> QED BY <2>1, <2>4, <2>5 DEF d
<1> QED BY <1>2, <1>3

\* A step that keeps the context's place, its levels and the sections it is in.
LEMMA GoesOn ==
    ASSUME IInv, NEW c, IsContext(c), c.kind = Top.kind, c.prev = Top.prev, c.held = Top.held,
           Top.at \notin {"exit", "leave"}, c.at \notin {"exit", "leave"},
           stack' = WithTop(c), UNCHANGED <<inIrq, crit>>
    PROVE  IInv'
<1>1. Handling(c) = Handling(Top) /\ Sections(c) = Sections(Top)
  BY DEF Handling, Sections
<1>2. inIrq \in Nat /\ crit \in Nat /\ Handling(Top) \in Nat /\ Sections(Top) \in Nat
  BY LevelsAreNumbers, SharesOf, Shares DEF IInv, Top
<1> QED BY <1>1, <1>2, Replaced DEF IInv, WithTop, Top

-----------------------------------------------------------------------------
(* The actions                                                              *)

\* Nothing of the invariant changes.
LEMMA Unmoved ==
    ASSUME IInv, UNCHANGED <<inIrq, crit, stack>>
    PROVE  IInv'
BY DEF IInv

LEMMA TopFacts ==
    ASSUME IInv
    PROVE  /\ IsContext(Top) /\ Last(stack) = Top
           /\ inIrq \in Nat /\ crit \in Nat /\ Sections(Top) \in Nat /\ Handling(Top) \in {0, 1}
           /\ Sections(Top) <= crit /\ Handling(Top) <= inIrq
           /\ At("leave") => crit = 1
           /\ Top.kind \in {"irq", "fault"} => Top.prev = inIrq - Handling(Top)
<1>1. IsContext(Top) /\ Last(stack) = Top
  BY SharesOf DEF IInv, Top
<1> QED BY <1>1, LevelsAreNumbers, Shares DEF IInv, At

LEMMA EnterTrapIrqStep ==
    ASSUME IInv, EnterTrapIrq PROVE IInv'
<1> DEFINE d == Context("irq", "code", Null)
<1>1. /\ IsContext(d) /\ d.kind = "irq" /\ d.held = 0 /\ d.at = "code" /\ d.prev = inIrq /\ Handling(d) = 1
  BY DEF Context, IsContext, HasFields, Kinds, Handling
<1>2. stack' = Append(stack, d) /\ inIrq' = inIrq + 1 /\ crit' = crit
  BY DEF EnterTrapIrq
<1> HIDE DEF d
<1>3. Stacked(Append(stack, d)) /\ Levels(Append(stack, d), inIrq + Handling(d), crit)
  BY <1>1, Begun DEF IInv
<1> QED BY <1>1, <1>2, <1>3 DEF IInv

LEMMA EnterTrapNoIrqStep ==
    ASSUME IInv, EnterTrapNoIrq PROVE IInv'
<1> DEFINE d == Context("fault", "code", Null)
<1>1. /\ IsContext(d) /\ d.kind = "fault" /\ d.held = 0 /\ d.at = "code" /\ d.prev = inIrq /\ Handling(d) = 0
  BY DEF Context, IsContext, HasFields, Kinds, Handling
<1>2. stack' = Append(stack, d) /\ inIrq' = inIrq /\ crit' = crit
  BY DEF EnterTrapNoIrq
<1> HIDE DEF d
<1>3. Stacked(Append(stack, d)) /\ Levels(Append(stack, d), inIrq + Handling(d), crit)
  BY <1>1, Begun DEF IInv
<1>4. inIrq + Handling(d) = inIrq
  BY <1>1, TopFacts
<1> QED BY <1>2, <1>3, <1>4 DEF IInv

LEMMA ExitTrapStep ==
    ASSUME IInv, ExitTrap PROVE IInv'
<1> DEFINE c == [Top EXCEPT !.at = "exit"]
<1>1. /\ Top.at = "code" /\ Top.kind \in {"irq", "fault"} /\ Top.held = 0
      /\ crit' = crit + 1 /\ inIrq' = Top.prev /\ ExecutePending(c)
  BY DEF ExitTrap, At, Kind
<1>2. /\ IsContext(c) /\ c.kind = Top.kind /\ c.prev = Top.prev /\ c.at = "exit" /\ c.held = 0
  BY <1>1, TopFacts DEF IsContext, HasFields
<1> HIDE DEF c
<1>3. Sections(Top) = 0 /\ Sections(c) = 1 /\ Handling(c) = 0
  BY <1>1, <1>2 DEF Sections, Handling
<1>4. inIrq' = inIrq - Handling(Top) + Handling(c) /\ crit' = crit - Sections(Top) + Sections(c) /\ inIrq' \in Nat
  BY <1>1, <1>3, TopFacts
<1>5. Stacked(stack') /\ Levels(stack', inIrq', crit')
  BY <1>1, <1>2, <1>4, Drains
<1> QED BY <1>5 DEF IInv

LEMMA FinishExitStep ==
    ASSUME IInv, FinishExit PROVE IInv'
<1>1. Top.at = "exit" /\ crit' = crit - 1 /\ stack' = Front(stack) /\ inIrq' = inIrq
  BY DEF FinishExit, At
<1>2. Top.kind # "thread" /\ Sections(Top) = 1 /\ Handling(Top) = 0
  BY <1>1, TopFacts DEF IsContext, Sections, Handling
<1>3. Stacked(Front(stack)) /\ Levels(Front(stack), inIrq - Handling(Top), crit - Sections(Top))
  BY <1>2, TopFacts, Ended DEF IInv
<1>4. inIrq - Handling(Top) = inIrq'
  BY <1>1, <1>2, TopFacts
<1> QED BY <1>1, <1>2, <1>3, <1>4 DEF IInv

LEMMA EnterCriticalStep ==
    ASSUME IInv, EnterCritical PROVE IInv'
<1> DEFINE c == [Top EXCEPT !.held = @ + 1]
<1>1. Top.at = "code" /\ crit' = crit + 1 /\ inIrq' = inIrq /\ stack' = WithTop(c)
  BY DEF EnterCritical, At
<1>2. IsContext(c) /\ c.kind = Top.kind /\ c.prev = Top.prev /\ c.at = "code" /\ c.held = Top.held + 1
  BY <1>1, TopFacts DEF IsContext, HasFields
<1> HIDE DEF c
<1>3. /\ inIrq' = inIrq - Handling(Top) + Handling(c) /\ crit' = crit - Sections(Top) + Sections(c)
  BY <1>1, <1>2, TopFacts DEF Sections, Handling, IsContext
<1> QED BY <1>1, <1>2, <1>3, TopFacts, Replaced DEF IInv, WithTop

LEMMA LeaveStep ==
    ASSUME IInv, NEW l \in {"code", "queued"}, LeaveFrom(l) PROVE IInv'
<1> DEFINE c == [Top EXCEPT !.at = "leave", !.held = @ - 1, !.was = intr, !.entry = Null]
           d == [c EXCEPT !.at = "code"]
<1>1. /\ Top.at = l /\ Top.held > 0 /\ inIrq' = inIrq
  BY DEF LeaveFrom, At
<1>2. /\ IsContext(c) /\ c.kind = Top.kind /\ c.prev = Top.prev /\ c.at = "leave" /\ c.held = Top.held - 1
      /\ IsContext(d) /\ d.kind = Top.kind /\ d.prev = Top.prev /\ d.at = "code" /\ d.held = Top.held - 1
  <2> DEFINE c1 == [Top EXCEPT !.at = "leave"]
             c2 == [c1 EXCEPT !.held = Top.held - 1]
             c3 == [c2 EXCEPT !.was = intr]
  <2>1. HasFields(Top) /\ Top.held - 1 \in Nat /\ Top.kind \in Kinds
    BY <1>1, TopFacts DEF IsContext
  <2>2. c = [c3 EXCEPT !.entry = Null]
    OBVIOUS
  <2>3. HasFields(c1) /\ c1.kind = Top.kind /\ c1.prev = Top.prev /\ c1.at = "leave"
    BY <2>1, AtSet
  <2> HIDE DEF c, d, c1
  <2>4. HasFields(c2) /\ c2.kind = Top.kind /\ c2.prev = Top.prev /\ c2.at = "leave" /\ c2.held = Top.held - 1
    BY <2>3, HeldSet
  <2> HIDE DEF c2
  <2>5. HasFields(c3) /\ c3.kind = Top.kind /\ c3.prev = Top.prev /\ c3.at = "leave" /\ c3.held = Top.held - 1
    BY <2>4, WasSet
  <2> HIDE DEF c3
  <2>6. HasFields(c) /\ c.kind = Top.kind /\ c.prev = Top.prev /\ c.at = "leave" /\ c.held = Top.held - 1
    BY <2>2, <2>5, EntrySet
  <2>7. HasFields(d) /\ d.kind = Top.kind /\ d.prev = Top.prev /\ d.at = "code" /\ d.held = Top.held - 1
    BY <2>6, AtSet DEF d
  <2> QED BY <2>1, <2>6, <2>7 DEF IsContext
<1>3. /\ crit > 1 => crit' = crit - 1 /\ stack' = WithTop(d)
      /\ ~(crit > 1) => crit' = crit /\ ((inIrq = 0 /\ ExecutePending(c)) \/ stack' = WithTop(c))
  BY DEF LeaveFrom
<1> HIDE DEF c, d
<1>4. /\ Handling(c) = Handling(Top) /\ Handling(d) = Handling(Top)
      /\ Sections(Top) = Top.held /\ Sections(c) = Top.held /\ Sections(d) = Top.held - 1
  BY <1>1, <1>2, TopFacts DEF Handling, Sections, IsContext
<1>5. CASE crit > 1
  <2>1. inIrq' = inIrq - Handling(Top) + Handling(d) /\ crit' = crit - Sections(Top) + Sections(d)
    BY <1>1, <1>3, <1>4, <1>5, TopFacts
  <2> QED BY <1>2, <1>3, <1>5, <2>1, TopFacts, Replaced DEF IInv, WithTop
<1>6. CASE ~(crit > 1)
  <2>1. /\ inIrq' = inIrq - Handling(Top) + Handling(c) /\ crit' = crit - Sections(Top) + Sections(c)
        /\ crit' = 1 /\ inIrq' \in Nat
    BY <1>1, <1>3, <1>4, <1>6, TopFacts
  <2>2. CASE inIrq = 0 /\ ExecutePending(c)
    <3>1. Stacked(stack') /\ Levels(stack', inIrq', crit')
      BY <1>2, <2>1, <2>2, Drains
    <3> QED BY <3>1 DEF IInv
  <2>3. CASE stack' = WithTop(c)
    BY <1>2, <2>1, <2>3, TopFacts, Replaced DEF IInv, WithTop
  <2> QED BY <1>3, <1>6, <2>2, <2>3
<1> QED BY <1>5, <1>6

LEMMA FinishLeaveStep ==
    ASSUME IInv, FinishLeave PROVE IInv'
<1> DEFINE c == [Top EXCEPT !.at = "code"]
<1>1. Top.at = "leave" /\ crit' = 0 /\ inIrq' = inIrq /\ stack' = WithTop(c)
  BY DEF FinishLeave, At, Goto
<1>2. IsContext(c) /\ c.kind = Top.kind /\ c.prev = Top.prev /\ c.at = "code" /\ c.held = Top.held
  BY <1>1, TopFacts DEF IsContext, HasFields
<1> HIDE DEF c
<1>3. crit = 1 /\ Sections(Top) = Top.held + 1 /\ Top.held \in Nat
  BY <1>1, TopFacts DEF At, Sections, IsContext
<1>4. inIrq' = inIrq - Handling(Top) + Handling(c) /\ crit' = crit - Sections(Top) + Sections(c)
  BY <1>1, <1>2, <1>3, TopFacts DEF Sections, Handling
<1> QED BY <1>1, <1>2, <1>4, TopFacts, Replaced DEF IInv, WithTop

LEMMA QueueStep ==
    ASSUME IInv, Queue PROVE IInv'
<1>1. \E l \in {"got", "own"} : \E e : stack' = WithTop([Top EXCEPT !.held = @ + 1, !.at = l, !.entry = e])
  <2>1. CASE stack' = WithTop([Top EXCEPT !.held = @ + 1, !.at = "got", !.entry = free])
    <3> WITNESS "got" \in {"got", "own"}
    <3> WITNESS free
    <3> QED BY <2>1
  <2>2. CASE \E e \in HeapEntry \ heap : stack' = WithTop([Top EXCEPT !.held = @ + 1, !.at = "own", !.entry = e])
    <3> WITNESS "own" \in {"got", "own"}
    <3>1. PICK e \in HeapEntry \ heap : stack' = WithTop([Top EXCEPT !.held = @ + 1, !.at = "own", !.entry = e])
      BY <2>2
    <3> WITNESS e
    <3> QED BY <3>1
  <2> QED BY <2>1, <2>2 DEF Queue
<1>2. PICK l \in {"got", "own"} : \E e : stack' = WithTop([Top EXCEPT !.held = @ + 1, !.at = l, !.entry = e])
  BY <1>1
<1>3. PICK e : stack' = WithTop([Top EXCEPT !.held = @ + 1, !.at = l, !.entry = e])
  BY <1>2
<1> DEFINE c == [Top EXCEPT !.held = @ + 1, !.at = l, !.entry = e]
<1>4. Top.at = "code" /\ crit' = crit + 1 /\ inIrq' = inIrq
  BY DEF Queue, At
<1>5. IsContext(c) /\ c.kind = Top.kind /\ c.prev = Top.prev /\ c.at = l /\ c.held = Top.held + 1
  <2> DEFINE c1 == [Top EXCEPT !.held = @ + 1]
             c2 == [c1 EXCEPT !.at = l]
  <2>1. HasFields(Top) /\ Top.held + 1 \in Nat /\ Top.kind \in Kinds
    BY TopFacts DEF IsContext
  <2>2. c = [c2 EXCEPT !.entry = e]
    OBVIOUS
  <2>3. HasFields(c1) /\ c1.kind = Top.kind /\ c1.prev = Top.prev /\ c1.held = Top.held + 1
    BY <2>1, HeldSet
  <2> HIDE DEF c, c1
  <2>4. HasFields(c2) /\ c2.kind = Top.kind /\ c2.prev = Top.prev /\ c2.at = l /\ c2.held = Top.held + 1
    BY <2>3, AtSet
  <2> HIDE DEF c2
  <2>5. HasFields(c) /\ c.kind = Top.kind /\ c.prev = Top.prev /\ c.at = l /\ c.held = Top.held + 1
    BY <2>2, <2>4, EntrySet
  <2> QED BY <1>1, <2>1, <2>5 DEF IsContext
<1>6. stack' = WithTop(c)
  BY <1>3
<1> HIDE DEF c
<1>7. inIrq' = inIrq - Handling(Top) + Handling(c) /\ crit' = crit - Sections(Top) + Sections(c)
  BY <1>1, <1>4, <1>5, TopFacts DEF Sections, Handling, IsContext
<1> QED BY <1>1, <1>5, <1>6, <1>7, TopFacts, Replaced DEF IInv, WithTop

LEMMA GetFreeNextStep ==
    ASSUME IInv, GetFreeNext PROVE IInv'
<1> DEFINE c == [Top EXCEPT !.at = "step", !.read = next[Top.entry]]
<1>1. Top.at = "got" /\ stack' = WithTop(c) /\ UNCHANGED <<inIrq, crit>>
  BY DEF GetFreeNext, At, levels
<1>2. IsContext(c) /\ c.kind = Top.kind /\ c.prev = Top.prev /\ c.held = Top.held /\ c.at = "step"
  <2> DEFINE b == [Top EXCEPT !.at = "step"]
  <2>1. HasFields(Top) /\ Top.held \in Nat /\ Top.kind \in Kinds
    BY TopFacts DEF IsContext
  <2>2. c = [b EXCEPT !.read = next[Top.entry]]
    OBVIOUS
  <2>3. HasFields(b) /\ b.kind = Top.kind /\ b.prev = Top.prev /\ b.held = Top.held /\ b.at = "step"
    BY <2>1, AtSet
  <2> HIDE DEF b, c
  <2>4. HasFields(c) /\ c.kind = b.kind /\ c.prev = b.prev /\ c.held = b.held /\ c.at = b.at
    BY <2>2, <2>3, ReadSet
  <2> QED BY <2>1, <2>3, <2>4 DEF IsContext
<1> HIDE DEF c
<1> QED BY <1>1, <1>2, GoesOn

LEMMA GetFreeStoreStep ==
    ASSUME IInv, GetFreeStore PROVE IInv'
<1> DEFINE c == [Top EXCEPT !.at = "own", !.read = Null]
<1>1. Top.at = "step" /\ stack' = WithTop(c) /\ UNCHANGED <<inIrq, crit>>
  BY DEF GetFreeStore, At, levels
<1>2. IsContext(c) /\ c.kind = Top.kind /\ c.prev = Top.prev /\ c.held = Top.held /\ c.at = "own"
  <2> DEFINE b == [Top EXCEPT !.at = "own"]
  <2>1. HasFields(Top) /\ Top.held \in Nat /\ Top.kind \in Kinds
    BY TopFacts DEF IsContext
  <2>2. c = [b EXCEPT !.read = Null]
    OBVIOUS
  <2>3. HasFields(b) /\ b.kind = Top.kind /\ b.prev = Top.prev /\ b.held = Top.held /\ b.at = "own"
    BY <2>1, AtSet
  <2> HIDE DEF b, c
  <2>4. HasFields(c) /\ c.kind = b.kind /\ c.prev = b.prev /\ c.held = b.held /\ c.at = b.at
    BY <2>2, <2>3, ReadSet
  <2> QED BY <2>1, <2>3, <2>4 DEF IsContext
<1> HIDE DEF c
<1> QED BY <1>1, <1>2, GoesOn

LEMMA QueueEntryStep ==
    ASSUME IInv, QueueEntryLink \/ QueueEntryStore PROVE IInv'
<1>1. CASE QueueEntryLink
  <2> DEFINE c == [Top EXCEPT !.at = "linked"]
  <2>1. Top.at = "own" /\ stack' = WithTop(c) /\ UNCHANGED <<inIrq, crit>>
    BY <1>1 DEF QueueEntryLink, At, Goto, levels
  <2>2. IsContext(c) /\ c.kind = Top.kind /\ c.prev = Top.prev /\ c.held = Top.held /\ c.at = "linked"
    BY TopFacts DEF IsContext, HasFields
  <2> HIDE DEF c
  <2> QED BY <2>1, <2>2, GoesOn
<1>2. CASE QueueEntryStore
  <2> DEFINE c == [Top EXCEPT !.at = "queued", !.entry = Null]
  <2>1. Top.at = "linked" /\ stack' = WithTop(c) /\ UNCHANGED <<inIrq, crit>>
    BY <1>2 DEF QueueEntryStore, At, levels
  <2>2. IsContext(c) /\ c.kind = Top.kind /\ c.prev = Top.prev /\ c.held = Top.held /\ c.at = "queued"
    <3> DEFINE b == [Top EXCEPT !.at = "queued"]
    <3>1. HasFields(Top) /\ Top.held \in Nat /\ Top.kind \in Kinds
      BY TopFacts DEF IsContext
    <3>2. c = [b EXCEPT !.entry = Null]
      OBVIOUS
    <3>3. HasFields(b) /\ b.kind = Top.kind /\ b.prev = Top.prev /\ b.held = Top.held /\ b.at = "queued"
      BY <3>1, AtSet
    <3> HIDE DEF b, c
    <3>4. HasFields(c) /\ c.kind = b.kind /\ c.prev = b.prev /\ c.held = b.held /\ c.at = b.at
      BY <3>2, <3>3, EntrySet
    <3> QED BY <3>1, <3>3, <3>4 DEF IsContext
  <2> HIDE DEF c
  <2> QED BY <2>1, <2>2, GoesOn
<1> QED BY <1>1, <1>2

LEMMA InvokeHandlerStep ==
    ASSUME IInv, InvokeHandler PROVE IInv'
<1> DEFINE c == [Top EXCEPT !.at = "code"]
<1>1. Top.at = "run" /\ stack' = WithTop(c) /\ UNCHANGED <<inIrq, crit>>
  BY DEF InvokeHandler, At, Goto, levels
<1>2. IsContext(c) /\ c.kind = Top.kind /\ c.prev = Top.prev /\ c.held = Top.held /\ c.at = "code"
  BY TopFacts DEF IsContext, HasFields
<1> HIDE DEF c
<1> QED BY <1>1, <1>2, GoesOn

LEMMA HandlerReturnsStep ==
    ASSUME IInv, HandlerReturns PROVE IInv'
<1>1. /\ Top.at = "code" /\ Top.kind = "drain" /\ Top.held = 0 /\ UNCHANGED <<inIrq, crit>>
      /\ AdvanceTo(next[Top.todo])
  BY DEF HandlerReturns, At, Kind, levels
<1>2. CASE next[Top.todo] = Null
  <2>1. stack' = Front(stack)
    BY <1>1, <1>2 DEF AdvanceTo
  <2>2. Sections(Top) = 0 /\ Handling(Top) = 0
    BY <1>1 DEF Sections, Handling
  <2>3. Stacked(Front(stack)) /\ Levels(Front(stack), inIrq - Handling(Top), crit - Sections(Top))
    BY <1>1, TopFacts, Ended DEF IInv
  <2>4. inIrq - Handling(Top) = inIrq /\ crit - Sections(Top) = crit
    BY <2>2, TopFacts
  <2> QED BY <1>1, <2>1, <2>3, <2>4 DEF IInv
<1>3. CASE next[Top.todo] # Null
  <2> DEFINE c == [Top EXCEPT !.at = "run", !.todo = next[Top.todo]]
  <2>1. stack' = WithTop(c)
    BY <1>1, <1>3 DEF AdvanceTo
  <2>2. IsContext(c) /\ c.kind = Top.kind /\ c.prev = Top.prev /\ c.held = Top.held /\ c.at = "run"
    <3> DEFINE b == [Top EXCEPT !.at = "run"]
    <3>1. HasFields(Top) /\ Top.held \in Nat /\ Top.kind \in Kinds
      BY TopFacts DEF IsContext
    <3>2. c = [b EXCEPT !.todo = next[Top.todo]]
      OBVIOUS
    <3>3. HasFields(b) /\ b.kind = Top.kind /\ b.prev = Top.prev /\ b.held = Top.held /\ b.at = "run"
      BY <3>1, AtSet
    <3> HIDE DEF b, c
    <3>4. HasFields(c) /\ c.kind = b.kind /\ c.prev = b.prev /\ c.held = b.held /\ c.at = b.at
      BY <3>2, <3>3, TodoSet
    <3> QED BY <3>1, <3>3, <3>4 DEF IsContext
  <2> HIDE DEF c
  <2> QED BY <1>1, <2>1, <2>2, GoesOn
<1> QED BY <1>2, <1>3

LEMMA InitStep ==
    ASSUME Init PROVE IInv
<1> DEFINE d == Context("thread", "code", Null)
           s == <<d>>
           z == [i \in 1..1 |-> 0]
<1>1. /\ IsContext(d) /\ d.kind = "thread" /\ d.held = 0 /\ d.at = "code"
  BY DEF Context, IsContext, HasFields, Kinds
<1>2. stack = s /\ inIrq = 0 /\ crit = 0
  BY DEF Init
<1> HIDE DEF d
<1>3. s \in Seq({d}) /\ Len(s) = 1 /\ s[1] = d
  OBVIOUS
<1>4. Sections(d) = 0 /\ Handling(d) = 0
  BY <1>1 DEF Sections, Handling
<1> HIDE DEF s
<1>5. Stacked(s)
  BY <1>1, <1>3 DEF Stacked, IsSequence
<1>6. SectionsOf(s) = z /\ HandlingOf(s) = z
  BY <1>3, <1>4 DEF SectionsOf, HandlingOf
<1>7. Sums(z, z, 1)
  BY DEF Sums
<1>8. z[1] = 0
  OBVIOUS
<1> HIDE DEF z
<1>9. Adds(z, z, s)
  BY <1>1, <1>3, <1>6, <1>7 DEF Adds
<1>10. Levels(s, 0, 0)
  BY <1>3, <1>8, <1>9 DEF Levels
<1> QED BY <1>2, <1>5, <1>10 DEF IInv

LEMMA NextStep ==
    ASSUME IInv, [Next]_vars PROVE IInv'
<1>1. CASE DisableInterrupts \/ EnableInterrupts \/ InvokeSchedulerAsync \/ UNCHANGED vars
  BY <1>1, Unmoved DEF DisableInterrupts, EnableInterrupts, InvokeSchedulerAsync, vars, levels
<1>2. CASE EnterTrapIrq \/ EnterTrapNoIrq \/ ExitTrap \/ FinishExit
  BY <1>2, EnterTrapIrqStep, EnterTrapNoIrqStep, ExitTrapStep, FinishExitStep
<1>3. CASE EnterCritical \/ LeaveCritical \/ QueueLeave \/ FinishLeave
  BY <1>3, EnterCriticalStep, LeaveStep, FinishLeaveStep DEF LeaveCritical, QueueLeave
<1>4. CASE \/ Queue \/ GetFreeNext \/ GetFreeStore \/ QueueEntryLink \/ QueueEntryStore
           \/ InvokeHandler \/ HandlerReturns
  BY <1>4, QueueStep, GetFreeNextStep, GetFreeStoreStep, QueueEntryStep, InvokeHandlerStep, HandlerReturnsStep
<1> QED BY <1>1, <1>2, <1>3, <1>4 DEF Next, Step

LEMMA Inductive == Spec => []IInv
BY InitStep, NextStep, PTL DEF Spec

-----------------------------------------------------------------------------
(* What follows                                                             *)

\* Where m_in_critical is one and the running context has that one, no context
\* below it has a section, and so no drain is below it or is itself running.
LEMMA LastSection ==
    ASSUME IInv, inIrq = 0, crit = 1, Top.at \in {"exit", "leave"}
    PROVE  Quiet
<1> DEFINE n == Len(stack)
<1>1. PICK f, g : Adds(f, g, stack) /\ f[n] = crit
  BY DEF IInv, Levels
<1>2. /\ n \in Nat \ {0} /\ n \in 1..n /\ Top = stack[n]
      /\ \A i \in 1..n : SectionsOf(stack)[i] = Sections(stack[i]) /\ SectionsOf(stack)[i] \in Nat
      /\ DOMAIN stack = 1..n
  BY SharesOf DEF IInv, Top, Stacked, IsSequence
<1>3. \A i \in 1..n : IsContext(stack[i])
  BY DEF IInv, Stacked
<1>4. f \in [1..n -> Nat]
  BY <1>1 DEF Adds, Sums
<1>5. Sections(stack[n]) = 1 /\ stack[n].held = 0
  <2>1. Sections(stack[n]) <= 1
    BY <1>2, TopFacts
  <2>2. Sections(stack[n]) = stack[n].held + 1 /\ stack[n].held \in Nat
    BY <1>2, <1>3, Shares DEF IsContext, HasFields
  <2> QED BY <2>1, <2>2
<1>6. ASSUME NEW i \in 1..n, i < n PROVE Sections(stack[i]) = 0
  <2>1. f[i] + Sections(stack[n]) <= f[n]
    BY <1>1, <1>2, <1>6 DEF Adds, Sums
  <2>2. Sections(stack[i]) <= f[i]
    BY <1>1, <1>2 DEF Adds, Sums
  <2>3. f[i] \in Nat /\ Sections(stack[i]) \in Nat
    BY <1>2, <1>4
  <2> QED BY <1>1, <1>5, <2>1, <2>2, <2>3
<1>7. ASSUME NEW i \in 1..n, i < n PROVE stack[i].held = 0 /\ stack[i].at \notin {"exit", "leave"}
  <2>1. IsContext(stack[i]) /\ Sections(stack[i]) = 0
    BY <1>3, <1>6, <1>7
  <2>2. stack[i].held \in Nat
    BY <2>1 DEF IsContext
  <2> QED BY <2>1, <2>2, Shares
<1>8. ASSUME NEW i \in 1..n PROVE stack[i].kind # "drain"
  <2> SUFFICES ASSUME stack[i].kind = "drain" PROVE FALSE
    OBVIOUS
  <2>1. i > 1 /\ stack[i - 1].at \in {"exit", "leave"}
    BY DEF IInv, Stacked
  <2>2. i - 1 \in 1..n /\ i - 1 < n
    BY <1>2, <2>1
  <2> QED BY <1>7, <2>1, <2>2
<1> QED BY <1>2, <1>5, <1>7, <1>8 DEF Quiet, Contexts

\* The scheduler is entered only when no critical section, no interrupt handler and
\* no list of deferred calls is below: check_invoke_scheduler in exit_trap and in
\* leave_critical.
THEOREM SchedulerFindsQuiet == Spec => SchedulerOnlyWhenQuiet
<1>1. ASSUME IInv, [Next]_vars PROVE [invoke /\ ~invoke' => Quiet]_vars
  <2>1. CASE FinishExit
    <3>1. Top.at = "exit" /\ crit \in Nat /\ crit' = crit - 1
      BY <1>1, <2>1, TopFacts DEF FinishExit, At
    <3>2. invoke /\ ~invoke' => inIrq = 0 /\ crit' = 0
      BY <2>1 DEF FinishExit
    <3>3. invoke /\ ~invoke' => inIrq = 0 /\ crit = 1
      BY <3>1, <3>2
    <3> QED BY <1>1, <3>1, <3>3, LastSection
  <2>2. CASE FinishLeave
    <3>1. Top.at = "leave" /\ crit = 1
      BY <1>1, <2>2, TopFacts DEF FinishLeave, At
    <3>2. invoke /\ ~invoke' => inIrq = 0
      BY <2>2 DEF FinishLeave
    <3> QED BY <1>1, <3>1, <3>2, LastSection
  <2>3. CASE ~FinishExit /\ ~FinishLeave
    <3>1. UNCHANGED invoke \/ invoke'
      BY <1>1, <2>3 DEF Next, Step, vars, levels, EnterTrapIrq, EnterTrapNoIrq, ExitTrap, EnterCritical,
         LeaveCritical, LeaveFrom, QueueLeave, Queue, HandlerReturns, DisableInterrupts, EnableInterrupts,
         InvokeSchedulerAsync, GetFreeNext, GetFreeStore, QueueEntryLink, QueueEntryStore, InvokeHandler
    <3> QED BY <3>1
  <2> QED BY <2>1, <2>2, <2>3
<1> QED BY <1>1, Inductive, PTL DEF Spec, SchedulerOnlyWhenQuiet

\* The sums are the numbers of handlers and of sections on the stack.
LEMMA Counted ==
    ASSUME IInv PROVE LevelsBalanced
<1> DEFINE n == Len(stack)
           P == [i \in 1..n |-> {i} \X (1..Sections(stack[i]))]
           H == [i \in 1..n |-> IF Handling(stack[i]) = 1 THEN {i} ELSE {}]
<1>1. PICK f, g : Adds(f, g, stack) /\ f[n] = crit /\ g[n] = inIrq
  BY DEF IInv, Levels
<1>2. /\ \A i \in 1..n : SectionsOf(stack)[i] = Sections(stack[i]) /\ HandlingOf(stack)[i] = Handling(stack[i])
      /\ n \in Nat \ {0} /\ DOMAIN stack = 1..n
  BY SharesOf DEF IInv, Stacked, IsSequence
<1>3. \A i \in 1..n : Sections(stack[i]) \in Nat /\ Handling(stack[i]) \in {0, 1}
  BY Shares DEF IInv, Stacked
<1>4. crit = Cardinality(UNION {P[i] : i \in 1..n})
  <2>1. ASSUME NEW i \in 1..n PROVE IsFiniteSet(P[i]) /\ Cardinality(P[i]) = SectionsOf(stack)[i]
    <3> DEFINE m == Sections(stack[i])
    <3>1. m \in Nat
      BY <1>3
    <3> HIDE DEF m
    <3>2. IsFiniteSet(1..m) /\ Cardinality(1..m) = m /\ IsFiniteSet({i}) /\ Cardinality({i}) = 1
      <4>1. IsFiniteSet(1..m) /\ Cardinality(1..m) = IF 1 > m THEN 0 ELSE m - 1 + 1
        BY <3>1, FS_Interval
      <4>2. IsFiniteSet({i}) /\ Cardinality({i}) = 1
        BY FS_Singleton, Zenon
      <4> QED BY <3>1, <4>1, <4>2
    <3>3. IsFiniteSet({i} \X (1..m)) /\ Cardinality({i} \X (1..m)) = 1 * m
      <4> DEFINE A == {i}
                 B == 1..m
      <4>1. IsFiniteSet(A) /\ Cardinality(A) = 1 /\ IsFiniteSet(B) /\ Cardinality(B) = m
        BY <3>2
      <4> HIDE DEF A, B
      <4>2. IsFiniteSet(A \X B) /\ Cardinality(A \X B) = Cardinality(A) * Cardinality(B)
        BY <4>1, FS_Product
      <4> QED BY <4>1, <4>2 DEF A, B
    <3>4. P[i] = {i} \X (1..m)
      BY DEF m
    <3>5. SectionsOf(stack)[i] = m
      BY <1>2 DEF m
    <3> HIDE DEF P
    <3> QED BY <3>1, <3>3, <3>4, <3>5
  <2>2. \A i, j \in 1..n : i # j => P[i] \cap P[j] = {}
    OBVIOUS
  <2>3. Sums(f, SectionsOf(stack), n)
    BY <1>1 DEF Adds
  <2> HIDE DEF n, P
  <2> QED BY <1>1, <2>1, <2>2, <2>3, SumsCount
<1>5. inIrq = Cardinality(UNION {H[i] : i \in 1..n})
  <2>1. ASSUME NEW i \in 1..n PROVE IsFiniteSet(H[i]) /\ Cardinality(H[i]) = HandlingOf(stack)[i]
    <3>1. H[i] = IF Handling(stack[i]) = 1 THEN {i} ELSE {}
      OBVIOUS
    <3>2. HandlingOf(stack)[i] = Handling(stack[i]) /\ Handling(stack[i]) \in {0, 1}
      BY <1>2, <1>3
    <3>3. IsFiniteSet({i}) /\ Cardinality({i}) = 1 /\ IsFiniteSet({}) /\ Cardinality({}) = 0
      BY FS_Singleton, FS_EmptySet, Zenon
    <3> HIDE DEF H
    <3>4. CASE Handling(stack[i]) = 1
      BY <3>1, <3>2, <3>3, <3>4
    <3>5. CASE Handling(stack[i]) = 0
      BY <3>1, <3>2, <3>3, <3>5
    <3> QED BY <3>2, <3>4, <3>5
  <2>2. \A i, j \in 1..n : i # j => H[i] \cap H[j] = {}
    OBVIOUS
  <2>3. Sums(g, HandlingOf(stack), n)
    BY <1>1 DEF Adds
  <2> HIDE DEF n, H
  <2> QED BY <1>1, <2>1, <2>2, <2>3, SumsCount
<1>6. UNION {P[i] : i \in 1..n} = UNION {{i} \X (1..Sections(stack[i])) : i \in DOMAIN stack}
  BY <1>2
<1>7. UNION {H[i] : i \in 1..n} = {i \in Contexts({"irq"}) : stack[i].at # "exit"}
  BY <1>2 DEF Contexts, Handling
<1> QED BY <1>4, <1>5, <1>6, <1>7 DEF LevelsBalanced

\* At every moment m_in_irq is the number of handlers on the stack that have not begun
\* to leave, and m_in_critical the number of sections the contexts are in, the ones of
\* exit_trap and of a leave under way counted: enter_trap and exit_trap, enter_critical
\* and do_leave_critical.
THEOREM LevelsCounted == Spec => []LevelsBalanced
BY Counted, Inductive, PTL

\* do_leave_critical, which found m_in_critical at one, VERIFYs that it is one again
\* when the deferred calls have run, whatever they and the traps on them did.
LeaveVerifies == At("leave") => crit = 1

THEOREM LeavesFromOne == Spec => []LeaveVerifies
<1>1. IInv => LeaveVerifies
  BY TopFacts DEF LeaveVerifies
<1> QED BY <1>1, Inductive, PTL

\* Whatever was stacked on the thread, it finds m_in_irq at zero when it goes on, and
\* m_in_critical at the number of sections it is in itself.
ThreadLevels == Len(stack) = 1 => inIrq = 0 /\ crit = Sections(Top)

THEOREM LevelsComeBack == Spec => []ThreadLevels
<1>1. ASSUME IInv, Len(stack) = 1 PROVE inIrq = 0 /\ crit = Sections(Top)
  <2>1. PICK f, g : Adds(f, g, stack) /\ f[1] = crit /\ g[1] = inIrq
    BY <1>1 DEF IInv, Levels
  <2>2. /\ f[1] = SectionsOf(stack)[1] /\ g[1] = HandlingOf(stack)[1]
    BY <1>1, <2>1 DEF Adds, Sums
  <2>3. Top = stack[1] /\ SectionsOf(stack)[1] = Sections(Top) /\ HandlingOf(stack)[1] = Handling(Top)
    BY <1>1, SharesOf DEF IInv, Top
  <2>4. Top.kind = "thread"
    BY <1>1, <2>3 DEF IInv, Stacked
  <2> QED BY <2>1, <2>2, <2>3, <2>4 DEF Handling
<1>2. IInv => ThreadLevels
  BY <1>1 DEF ThreadLevels
<1> QED BY <1>2, Inductive, PTL

-----------------------------------------------------------------------------
(* Lists of entries                                                         *)

Size == PoolSize + HeapSize

\* list is what next leads through from head.
Path(nxt, list, head) ==
    /\ head = IF Len(list) = 0 THEN Null ELSE list[1]
    /\ \A i \in 1..Len(list) : nxt[list[i]] = IF i = Len(list) THEN Null ELSE list[i + 1]

LEMMA Entries ==
    /\ Size \in Nat /\ Entry = 1..Size /\ IsFiniteSet(Entry) /\ Cardinality(Entry) = Size
    /\ PoolEntry \subseteq Entry /\ HeapEntry \subseteq Entry /\ Null \notin Entry
    /\ PoolEntry \cap HeapEntry = {} /\ PoolSize \in Nat \ {0} /\ HeapSize \in Nat
<1>1. PoolSize \in Nat \ {0} /\ HeapSize \in Nat /\ Size \in Nat
  BY ProcessorTrapsAssumption DEF Size
<1>2. Entry = 1..Size /\ PoolEntry \cap HeapEntry = {} /\ PoolEntry \subseteq Entry /\ HeapEntry \subseteq Entry
  BY <1>1 DEF Entry, PoolEntry, HeapEntry, Size
<1>3. IsFiniteSet(1..Size) /\ Cardinality(1..Size) = IF 1 > Size THEN 0 ELSE Size - 1 + 1
  BY <1>1, FS_Interval
<1>4. Null \notin Entry
  BY <1>1, <1>2 DEF Null
<1> QED BY <1>1, <1>2, <1>3, <1>4

LEMMA ConsOf ==
    ASSUME NEW s \in Seq(Entry), NEW e \in Entry
    PROVE  LET t == <<e>> \o s
           IN  /\ t \in Seq(Entry) /\ Len(t) = Len(s) + 1 /\ t[1] = e
               /\ \A i \in 2..Len(s) + 1 : t[i] = s[i - 1]
               /\ ToSet(t) = {e} \union ToSet(s)
               /\ IsInjective(s) /\ e \notin ToSet(s) => IsInjective(t)
<1> DEFINE t == <<e>> \o s
<1>1. /\ t \in Seq(Entry) /\ Len(t) = Len(s) + 1 /\ t[1] = e /\ Len(s) \in Nat
      /\ \A i \in 2..Len(s) + 1 : t[i] = s[i - 1]
      /\ DOMAIN t = 1..Len(s) + 1 /\ DOMAIN s = 1..Len(s)
  OBVIOUS
<1> HIDE DEF t
<1>2. ToSet(t) = {e} \union ToSet(s)
  <2>1. ASSUME NEW x \in ToSet(t) PROVE x \in {e} \union ToSet(s)
    <3>1. PICK i \in 1..Len(s) + 1 : x = t[i]
      BY <1>1 DEF ToSet
    <3>2. CASE i = 1
      BY <1>1, <3>1, <3>2
    <3>3. CASE i # 1
      <4>1. i \in 2..Len(s) + 1 /\ i - 1 \in 1..Len(s)
        BY <1>1, <3>3
      <4> QED BY <1>1, <3>1, <4>1 DEF ToSet
    <3> QED BY <3>2, <3>3
  <2>2. ASSUME NEW x \in ToSet(s) PROVE x \in ToSet(t)
    <3>1. PICK i \in 1..Len(s) : x = s[i]
      BY <1>1 DEF ToSet
    <3>2. i + 1 \in 2..Len(s) + 1 /\ i + 1 \in 1..Len(s) + 1 /\ (i + 1) - 1 = i
      BY <1>1
    <3>3. t[i + 1] = s[(i + 1) - 1]
      BY <1>1, <3>2
    <3> QED BY <1>1, <3>1, <3>2, <3>3 DEF ToSet
  <2>3. e \in ToSet(t)
    BY <1>1 DEF ToSet
  <2> QED BY <2>1, <2>2, <2>3
<1>3. ASSUME IsInjective(s), e \notin ToSet(s) PROVE IsInjective(t)
  <2>1. ASSUME NEW i \in 1..Len(s) + 1, NEW j \in 1..Len(s) + 1, t[i] = t[j] PROVE i = j
    <3>1. ASSUME NEW k \in 2..Len(s) + 1 PROVE k - 1 \in DOMAIN s /\ t[k] = s[k - 1] /\ t[k] # e
      <4>1. k - 1 \in DOMAIN s
        BY <1>1
      <4>2. s[k - 1] # e
        BY <1>3, <4>1 DEF ToSet
      <4> QED BY <1>1, <4>1, <4>2
    <3>2. CASE i = 1 \/ j = 1
      BY <1>1, <2>1, <3>1, <3>2
    <3>3. CASE i # 1 /\ j # 1
      <4>1. i \in 2..Len(s) + 1 /\ j \in 2..Len(s) + 1
        BY <1>1, <3>3
      <4>2. i - 1 = j - 1
        BY <1>3, <2>1, <3>1, <4>1 DEF IsInjective
      <4> QED BY <4>1, <4>2
    <3> QED BY <3>2, <3>3
  <2> QED BY <1>1, <2>1 DEF IsInjective
<1> QED BY <1>1, <1>2, <1>3 DEF t

LEMMA TailOf ==
    ASSUME NEW s \in Seq(Entry), Len(s) > 0, IsInjective(s)
    PROVE  /\ Tail(s) \in Seq(Entry) /\ Len(Tail(s)) = Len(s) - 1 /\ s[1] \in Entry /\ s[1] \in ToSet(s)
           /\ \A i \in 1..Len(s) - 1 : Tail(s)[i] = s[i + 1]
           /\ ToSet(Tail(s)) = ToSet(s) \ {s[1]}
           /\ IsInjective(Tail(s))
<1> DEFINE t == Tail(s)
<1>1. /\ t \in Seq(Entry) /\ Len(t) = Len(s) - 1 /\ Len(s) \in Nat /\ s[1] \in Entry
      /\ \A i \in 1..Len(s) - 1 : t[i] = s[i + 1]
      /\ DOMAIN t = 1..Len(s) - 1 /\ DOMAIN s = 1..Len(s)
  OBVIOUS
<1> HIDE DEF t
<1>2. ASSUME NEW i \in 1..Len(s) - 1 PROVE i + 1 \in DOMAIN s /\ t[i] = s[i + 1] /\ t[i] # s[1]
  BY <1>1 DEF IsInjective
<1>3. ToSet(t) = ToSet(s) \ {s[1]}
  <2>1. ASSUME NEW x \in ToSet(s), x # s[1] PROVE x \in ToSet(t)
    <3>1. PICK i \in 1..Len(s) : x = s[i]
      BY <1>1 DEF ToSet
    <3>2. i - 1 \in 1..Len(s) - 1 /\ (i - 1) + 1 = i
      BY <1>1, <2>1, <3>1
    <3>3. t[i - 1] = s[(i - 1) + 1]
      BY <1>1, <3>2
    <3> QED BY <1>1, <3>1, <3>2, <3>3 DEF ToSet
  <2>2. ASSUME NEW x \in ToSet(t) PROVE x \in ToSet(s) /\ x # s[1]
    BY <1>1, <1>2 DEF ToSet
  <2> QED BY <2>1, <2>2
<1>4. ASSUME NEW i \in 1..Len(s) - 1, NEW j \in 1..Len(s) - 1, t[i] = t[j] PROVE i = j
  <2>1. i + 1 = j + 1
    BY <1>2, <1>4 DEF IsInjective
  <2> QED BY <2>1
<1>5. IsInjective(t)
  BY <1>1, <1>4 DEF IsInjective
<1>6. s[1] \in ToSet(s)
  BY <1>1 DEF ToSet
<1> QED BY <1>1, <1>3, <1>5, <1>6 DEF t

LEMMA ReverseOf ==
    ASSUME NEW s \in Seq(Entry), IsInjective(s)
    PROVE  /\ Reverse(s) \in Seq(Entry) /\ Len(Reverse(s)) = Len(s)
           /\ \A i \in 1..Len(s) : Len(s) - i + 1 \in 1..Len(s) /\ Reverse(s)[i] = s[Len(s) - i + 1]
           /\ ToSet(Reverse(s)) = ToSet(s)
           /\ IsInjective(Reverse(s))
<1> DEFINE t == Reverse(s)
<1>1. /\ Len(s) \in Nat /\ DOMAIN s = 1..Len(s) /\ \A i \in 1..Len(s) : s[i] \in Entry
  OBVIOUS
<1>2. \A i \in 1..Len(s) : Len(s) - i + 1 \in 1..Len(s)
  BY <1>1
<1>3. t = [i \in 1..Len(s) |-> s[Len(s) - i + 1]]
  BY DEF Reverse
<1>4. t \in Seq(Entry) /\ Len(t) = Len(s) /\ DOMAIN t = 1..Len(s) /\ \A i \in 1..Len(s) : t[i] = s[Len(s) - i + 1]
  BY <1>1, <1>2, <1>3
<1> HIDE DEF t
<1>5. ToSet(t) = ToSet(s)
  <2>1. ASSUME NEW x \in ToSet(s) PROVE x \in ToSet(t)
    <3>1. PICK i \in 1..Len(s) : x = s[i]
      BY <1>1 DEF ToSet
    <3> DEFINE j == Len(s) - i + 1
    <3>2. j \in 1..Len(s) /\ Len(s) - j + 1 = i
      BY <1>1
    <3>3. t[j] = s[Len(s) - j + 1]
      BY <1>4, <3>2
    <3> QED BY <1>4, <3>1, <3>2, <3>3 DEF ToSet
  <2>2. ASSUME NEW x \in ToSet(t) PROVE x \in ToSet(s)
    BY <1>1, <1>2, <1>4 DEF ToSet
  <2> QED BY <2>1, <2>2
<1>6. ASSUME NEW i \in 1..Len(s), NEW j \in 1..Len(s), t[i] = t[j] PROVE i = j
  <2>1. Len(s) - i + 1 = Len(s) - j + 1
    BY <1>1, <1>2, <1>4, <1>6 DEF IsInjective
  <2> QED BY <1>1, <2>1
<1>7. IsInjective(t)
  BY <1>4, <1>6 DEF IsInjective
<1> QED BY <1>2, <1>4, <1>5, <1>7 DEF t

LEMMA Bounded ==
    ASSUME NEW s \in Seq(Entry), IsInjective(s) PROVE Len(s) \in 0..Size
<1>1. IsFiniteSet(Entry) /\ Cardinality(Entry) = Size /\ Size \in Nat /\ Len(s) \in Nat
  BY Entries
<1>2. s \in Injection(1..Len(s), Entry)
  BY DEF IsInjective, Injection
<1>3. Cardinality(1..Len(s)) <= Size
  BY <1>1, <1>2, FS_Injection
<1>4. Cardinality(1..Len(s)) = IF 1 > Len(s) THEN 0 ELSE Len(s) - 1 + 1
  <2> DEFINE m == Len(s)
  <2>1. m \in Nat
    BY <1>1
  <2> HIDE DEF m
  <2>2. IsFiniteSet(1..m) /\ Cardinality(1..m) = IF 1 > m THEN 0 ELSE m - 1 + 1
    BY <2>1, FS_Interval
  <2> QED BY <2>2 DEF m
<1> QED BY <1>1, <1>3, <1>4

\* What Chain's walk is at n, given what it is below.
Walks(w, n) ==
    w = [m \in 0..n |-> [e \in Entry \union {Null} |->
            IF m = 0 \/ e = Null THEN <<>> ELSE <<e>> \o w[m - 1][next[e]]]]

LEMMA WalkExists ==
    ASSUME NEW n \in Nat PROVE \E w : Walks(w, n)
<1> DEFINE Wrong == {k \in Nat : ~ \E w : Walks(w, k)}
<1> SUFFICES ASSUME Wrong # {} PROVE FALSE
  OBVIOUS
<1>1. PICK k \in Wrong : \A m \in Wrong : k <= m
  <2>1. Wrong \in SUBSET Nat
    OBVIOUS
  <2> HIDE DEF Wrong
  <2> QED BY <2>1, LeastNumber
<1>2. k \in Nat /\ ~ \E w : Walks(w, k)
  OBVIOUS
<1>3. CASE k = 0
  <2> DEFINE v == [m \in 0..0 |-> [e \in Entry \union {Null} |-> <<>>]]
  <2>1. Walks(v, 0)
    BY DEF Walks
  <2> QED BY <1>2, <1>3, <2>1
<1>4. CASE k # 0
  <2>1. k - 1 \in Nat /\ k - 1 \notin Wrong
    BY <1>1, <1>2, <1>4
  <2>2. PICK w : Walks(w, k - 1)
    BY <2>1
  <2> DEFINE B == Entry \union {Null}
             last == [e \in B |-> IF e = Null THEN <<>> ELSE <<e>> \o w[k - 1][next[e]]]
             v == [m \in 0..k |-> IF m = k THEN last ELSE w[m]]
  <2>3. ASSUME NEW m \in 0..k
        PROVE  v[m] = [e \in B |-> IF m = 0 \/ e = Null THEN <<>> ELSE <<e>> \o v[m - 1][next[e]]]
    <3>1. CASE m = k
      <4>1. v[m] = last /\ v[m - 1] = w[k - 1] /\ m # 0
        BY <1>2, <1>4, <3>1
      <4> HIDE DEF v, B
      <4> QED BY <3>1, <4>1
    <3>2. CASE m # k
      <4>1. m \in 0..(k - 1) /\ v[m] = w[m]
        BY <1>2, <3>2
      <4>2. m # 0 => v[m - 1] = w[m - 1]
        BY <1>2, <3>2
      <4>3. w[m] = [e \in B |-> IF m = 0 \/ e = Null THEN <<>> ELSE <<e>> \o w[m - 1][next[e]]]
        BY <2>2, <4>1 DEF Walks
      <4> HIDE DEF v, B
      <4> QED BY <4>1, <4>2, <4>3
    <3> QED BY <3>1, <3>2
  <2>4. v = [m \in 0..k |-> v[m]]
    OBVIOUS
  <2> HIDE DEF v
  <2>5. v = [m \in 0..k |-> [e \in B |-> IF m = 0 \/ e = Null THEN <<>> ELSE <<e>> \o v[m - 1][next[e]]]]
    BY <2>3, <2>4
  <2>6. Walks(v, k)
    BY <2>5 DEF Walks
  <2> QED BY <1>2, <2>6
<1> QED BY <1>3, <1>4

LEMMA Remaining ==
    ASSUME NEW S, NEW s \in Seq(S), NEW a \in 1..Len(s)
    PROVE  SubSeq(s, a, Len(s)) = <<s[a]>> \o SubSeq(s, a + 1, Len(s))
<1> DEFINE n == Len(s)
           u == SubSeq(s, a, n)
           v == SubSeq(s, a + 1, n)
           x == <<s[a]>> \o v
<1>1. a \in 1..n /\ n \in Nat /\ s[a] \in S
  OBVIOUS
<1>2. u \in Seq(S) /\ Len(u) = n - a + 1 /\ \A i \in 1..n - a + 1 : u[i] = s[a + i - 1]
  BY <1>1
<1>3. v \in Seq(S) /\ Len(v) = n - a /\ \A i \in 1..n - a : v[i] = s[a + i]
  BY <1>1
<1> HIDE DEF u, v
<1>4. /\ x \in Seq(S) /\ Len(x) = n - a + 1 /\ x[1] = s[a]
      /\ \A i \in 2..n - a + 1 : x[i] = v[i - 1]
  BY <1>1, <1>3
<1> HIDE DEF x, n
<1>5. ASSUME NEW i \in 1..n - a + 1 PROVE u[i] = x[i]
  <2>1. CASE i = 1
    BY <1>1, <1>2, <1>4, <2>1
  <2>2. CASE i # 1
    <3>1. i \in 2..n - a + 1 /\ i - 1 \in 1..n - a /\ a + (i - 1) = a + i - 1
      BY <1>1, <2>2
    <3> QED BY <1>2, <1>3, <1>4, <3>1
  <2> QED BY <2>1, <2>2
<1>6. u = x
  <2> DEFINE l == n - a + 1
  <2>1. u = [i \in 1..l |-> u[i]] /\ x = [i \in 1..l |-> x[i]]
    BY <1>2, <1>4
  <2> QED BY <1>5, <2>1
<1> QED BY <1>6 DEF u, v, x

\* Chain finds the list that next leads through.
LEMMA ChainIs ==
    ASSUME NEW s \in Seq(Entry), NEW h, Path(next, s, h), Len(s) <= Size
    PROVE  Chain(h) = s
<1> DEFINE n == Len(s)
           w == CHOOSE w : Walks(w, Size)
           Rest(k) == SubSeq(s, n - k + 1, n)
           From(k) == IF k = 0 THEN Null ELSE s[n - k + 1]
           Wrong == {k \in 0..n : \E m \in 0..Size : k <= m /\ w[m][From(k)] # Rest(k)}
<1>1. Size \in Nat /\ n \in Nat /\ Null \notin Entry
  BY Entries
<1>2. Walks(w, Size)
  BY <1>1, WalkExists
<1>3. Chain(h) = w[Size][h]
  BY DEF Chain, Walks, Size
<1> HIDE DEF w
<1>4. ASSUME NEW m \in 0..Size, NEW e \in Entry \union {Null}
      PROVE  w[m][e] = IF m = 0 \/ e = Null THEN <<>> ELSE <<e>> \o w[m - 1][next[e]]
  <2>1. w[m] = [x \in Entry \union {Null} |-> IF m = 0 \/ x = Null THEN <<>> ELSE <<x>> \o w[m - 1][next[x]]]
    BY <1>2 DEF Walks
  <2> QED BY <2>1
<1>5. Wrong = {}
  <2> SUFFICES ASSUME Wrong # {} PROVE FALSE
    OBVIOUS
  <2>1. PICK k \in Wrong : \A i \in Wrong : k <= i
    <3>1. Wrong \in SUBSET Nat
      BY <1>1
    <3> HIDE DEF Wrong
    <3> QED BY <3>1, LeastNumber
  <2>2. PICK m \in 0..Size : k <= m /\ w[m][From(k)] # Rest(k)
    OBVIOUS
  <2>3. k \in 0..n
    OBVIOUS
  <2>4. CASE k = 0
    <3>1. From(k) = Null /\ Rest(k) = <<>>
      BY <1>1, <2>4
    <3>2. w[m][Null] = <<>>
      BY <1>4
    <3> QED BY <2>2, <3>1, <3>2
  <2>5. CASE k # 0
    <3> DEFINE j == k - 1
    <3>1. j \in 0..n /\ m - 1 \in 0..Size /\ j <= m - 1 /\ m # 0 /\ ~(k <= j)
      <4>1. n \in Nat /\ Size \in Nat /\ k \in 0..n /\ k # 0 /\ m \in 0..Size /\ k <= m
        BY <1>1, <2>2, <2>3, <2>5
      <4> HIDE DEF n, Wrong
      <4> QED BY <4>1
    <3>7. j \notin Wrong
      BY <2>1, <3>1
    <3>2. w[m - 1][From(j)] = Rest(j)
      BY <3>1, <3>7
    <3>3. n - k + 1 \in 1..n /\ From(k) = s[n - k + 1] /\ From(k) \in Entry
      BY <1>1, <2>3, <2>5
    <3>4. next[From(k)] = From(j)
      <4>1. next[s[n - k + 1]] = IF n - k + 1 = n THEN Null ELSE s[(n - k + 1) + 1]
        BY <3>3 DEF Path
      <4>2. (n - k + 1 = n <=> j = 0) /\ (n - k + 1) + 1 = n - j + 1
        BY <1>1, <2>3
      <4> QED BY <3>3, <4>1, <4>2
    <3>5. w[m][From(k)] = <<From(k)>> \o Rest(j)
      <4>1. w[m][From(k)] = <<From(k)>> \o w[m - 1][next[From(k)]]
        BY <1>1, <1>4, <3>1, <3>3
      <4> QED BY <3>2, <3>4, <4>1
    <3>6. Rest(k) = <<From(k)>> \o Rest(j)
      <4> DEFINE a == n - k + 1
      <4>1. a \in 1..n /\ From(k) = s[a] /\ n - j + 1 = a + 1
        BY <1>1, <2>3, <3>3
      <4>2. SubSeq(s, a, n) = <<s[a]>> \o SubSeq(s, a + 1, n)
        BY <4>1, Remaining
      <4> QED BY <4>1, <4>2
    <3> QED BY <2>2, <3>5, <3>6
  <2> QED BY <2>4, <2>5
<1>6. h = From(n) /\ Rest(n) = s
  <2>1. n - n + 1 = 1
    BY <1>1
  <2>2. SubSeq(s, 1, n) = s
    OBVIOUS
  <2> QED BY <2>1, <2>2 DEF Path
<1>7. n \in 0..n /\ Size \in 0..Size /\ n <= Size
  BY <1>1
<1> QED BY <1>3, <1>5, <1>6, <1>7

LEMMA PathFrame ==
    ASSUME NEW s \in Seq(Entry), NEW h, NEW f, NEW g, Path(f, s, h), \A e \in ToSet(s) : g[e] = f[e]
    PROVE  Path(g, s, h)
<1>1. \A i \in 1..Len(s) : s[i] \in ToSet(s)
  BY DEF ToSet
<1> QED BY <1>1 DEF Path

LEMMA PathEnds ==
    ASSUME NEW s \in Seq(Entry), NEW h, NEW f, Path(f, s, h)
    PROVE  /\ h = Null <=> Len(s) = 0
           /\ h # Null => h = s[1] /\ h \in Entry /\ h \in ToSet(s)
           /\ h = Null => ToSet(s) = {} /\ s = <<>>
<1>1. Null \notin Entry /\ Len(s) \in Nat /\ \A i \in 1..Len(s) : s[i] \in Entry
  BY Entries
<1>2. h = IF Len(s) = 0 THEN Null ELSE s[1]
  BY DEF Path
<1>3. Len(s) # 0 => s[1] \in Entry /\ s[1] \in ToSet(s)
  BY <1>1 DEF ToSet
<1>4. Len(s) = 0 => ToSet(s) = {} /\ s = <<>>
  BY <1>1 DEF ToSet
<1> QED BY <1>1, <1>2, <1>3, <1>4

LEMMA PathTail ==
    ASSUME NEW s \in Seq(Entry), NEW h, NEW f, Path(f, s, h), Len(s) > 0, IsInjective(s)
    PROVE  Path(f, Tail(s), f[h])
<1>1. /\ Len(s) \in Nat /\ Len(Tail(s)) = Len(s) - 1 /\ h = s[1]
      /\ \A i \in 1..Len(s) - 1 : Tail(s)[i] = s[i + 1]
  BY TailOf DEF Path
<1>2. f[s[1]] = IF 1 = Len(s) THEN Null ELSE s[2]
  <2>1. 1 \in 1..Len(s) /\ 1 + 1 = 2
    BY <1>1
  <2>2. f[s[1]] = IF 1 = Len(s) THEN Null ELSE s[1 + 1]
    BY <2>1 DEF Path
  <2> QED BY <2>1, <2>2
<1>3. f[h] = IF Len(Tail(s)) = 0 THEN Null ELSE Tail(s)[1]
  <2>1. Len(s) # 1 => Tail(s)[1] = s[2]
    <3> DEFINE n == Len(s)
    <3>1. n # 1 => 1 \in 1..n - 1 /\ 1 + 1 = 2
      <4>1. n \in Nat /\ n > 0
        BY <1>1
      <4> HIDE DEF n
      <4> QED BY <4>1
    <3> QED BY <1>1, <3>1
  <2>2. Len(Tail(s)) = 0 <=> Len(s) = 1
    BY <1>1
  <2> QED BY <1>1, <1>2, <2>1, <2>2
<1>4. ASSUME NEW i \in 1..Len(s) - 1
      PROVE  f[Tail(s)[i]] = IF i = Len(s) - 1 THEN Null ELSE Tail(s)[i + 1]
  <2>1. i + 1 \in 1..Len(s) /\ Tail(s)[i] = s[i + 1]
    BY <1>1
  <2>2. f[s[i + 1]] = IF i + 1 = Len(s) THEN Null ELSE s[(i + 1) + 1]
    BY <2>1 DEF Path
  <2>3. i # Len(s) - 1 => Tail(s)[i + 1] = s[(i + 1) + 1]
    BY <1>1
  <2> QED BY <1>1, <2>1, <2>2, <2>3
<1> QED BY <1>1, <1>3, <1>4 DEF Path

LEMMA PathCons ==
    ASSUME NEW s \in Seq(Entry), NEW h, NEW f, Path(f, s, h), NEW e \in Entry, f[e] = h
    PROVE  Path(f, <<e>> \o s, e)
<1> DEFINE t == <<e>> \o s
<1>1. /\ Len(t) = Len(s) + 1 /\ t[1] = e /\ Len(s) \in Nat
      /\ \A i \in 2..Len(s) + 1 : t[i] = s[i - 1]
  OBVIOUS
<1> HIDE DEF t
<1>2. ASSUME NEW i \in 1..Len(s) + 1 PROVE f[t[i]] = IF i = Len(s) + 1 THEN Null ELSE t[i + 1]
  <2>1. CASE i = 1
    <3>1. h = IF Len(s) = 0 THEN Null ELSE s[1]
      BY DEF Path
    <3>2. Len(s) # 0 => t[2] = s[1]
      BY <1>1
    <3> QED BY <1>1, <2>1, <3>1, <3>2
  <2>2. CASE i # 1
    <3>1. i \in 2..Len(s) + 1 /\ i - 1 \in 1..Len(s) /\ t[i] = s[i - 1]
      BY <1>1, <2>2
    <3>2. f[s[i - 1]] = IF i - 1 = Len(s) THEN Null ELSE s[(i - 1) + 1]
      BY <3>1 DEF Path
    <3>3. i # Len(s) + 1 => t[i + 1] = s[(i - 1) + 1]
      <4> SUFFICES ASSUME i # Len(s) + 1 PROVE t[i + 1] = s[(i - 1) + 1]
        OBVIOUS
      <4>1. i + 1 \in 2..Len(s) + 1 /\ (i + 1) - 1 = (i - 1) + 1
        BY <1>1, <3>1
      <4> QED BY <1>1, <4>1
    <3> QED BY <1>1, <3>1, <3>2, <3>3
  <2> QED BY <2>1, <2>2
<1>3. Path(f, t, e)
  BY <1>1, <1>2 DEF Path
<1> QED BY <1>3 DEF t

\* What the reversal of the list leaves in next.
LEMMA PathRelinked ==
    ASSUME NEW s \in Seq(Entry), IsInjective(s), Len(s) > 0, next \in [Entry -> Entry \union {Null}]
    PROVE  /\ Relinked(s) \in [Entry -> Entry \union {Null}]
           /\ Path(Relinked(s), s, s[1])
           /\ \A e \in Entry \ ToSet(s) : Relinked(s)[e] = next[e]
<1>1. DOMAIN s = 1..Len(s) /\ Len(s) \in Nat /\ \A i \in 1..Len(s) : s[i] \in Entry
  OBVIOUS
<1>2. ASSUME NEW i \in 1..Len(s) PROVE Relinked(s)[s[i]] = IF i = Len(s) THEN Null ELSE s[i + 1]
  <2> DEFINE j == CHOOSE j \in DOMAIN s : s[j] = s[i]
  <2>1. j \in DOMAIN s /\ s[j] = s[i]
    BY <1>1
  <2>2. j = i
    BY <1>1, <2>1 DEF IsInjective
  <2>3. Relinked(s)[s[i]] = IF j = Len(s) THEN Null ELSE s[j + 1]
    BY <1>1 DEF Relinked
  <2> HIDE DEF j
  <2> QED BY <2>2, <2>3
<1>3. ASSUME NEW e \in Entry \ ToSet(s) PROVE Relinked(s)[e] = next[e]
  BY DEF Relinked, ToSet
<1>4. ASSUME NEW e \in Entry PROVE Relinked(s)[e] \in Entry \union {Null}
  <2>1. CASE e \in ToSet(s)
    <3>1. PICK i \in 1..Len(s) : e = s[i]
      BY <1>1, <2>1 DEF ToSet
    <3>2. i # Len(s) => s[i + 1] \in Entry
      <4> DEFINE n == Len(s)
      <4>1. n \in Nat /\ i \in 1..n
        BY <1>1
      <4>2. i # n => i + 1 \in 1..n
        <5> HIDE DEF n
        <5> QED BY <4>1
      <4> QED BY <1>1, <4>2
    <3> QED BY <1>2, <3>1, <3>2
  <2>2. CASE e \notin ToSet(s)
    BY <1>3, <2>2
  <2> QED BY <2>1, <2>2
<1>5. Relinked(s) = [e \in Entry |-> Relinked(s)[e]]
  BY DEF Relinked
<1>6. Path(Relinked(s), s, s[1])
  <2>1. s[1] = IF Len(s) = 0 THEN Null ELSE s[1]
    BY <1>1
  <2> QED BY <1>2, <2>1 DEF Path
<1>7. Relinked(s) \in [Entry -> Entry \union {Null}]
  BY <1>4, <1>5
<1> QED BY <1>3, <1>6, <1>7

-----------------------------------------------------------------------------
(* Where the entries are: the invariant of the deferred calls               *)

\* The invariant says of every entry in which place it is, W, and of every place which
\* list of entries it holds, L; Chain need not be unfolded in any step, only linked lists
\* be extended, shortened or reversed.
\*
\* The places: what the running context has in hand, the pool, the pending list, the list
\* of the k-th context for k above 0, or none.
Nowhere == -3
InHand == -2
InPool == -1
InPending == 0
Place == {k \in Int : k >= InHand}

HeadOf(k) ==
    IF k = InPool THEN free
    ELSE IF k = InPending THEN pending
    ELSE IF k \in 1..Len(stack) THEN stack[k].todo ELSE Null

Fields ==
    /\ next \in [Entry -> Entry \union {Null}]
    /\ handler \in [Entry -> Nat]
    /\ heap \subseteq HeapEntry
    /\ queued \in Nat
    /\ ran \in Seq(Nat)

\* A context that queues is the running one, and nothing interrupts it.
Fillers == {"got", "step", "own", "linked"}
Labelled ==
    /\ \A i \in 1..Len(stack) :
        /\ i < Len(stack) => stack[i].at \notin Fillers
        /\ stack[i].kind = "drain" <=> stack[i].todo # Null
        /\ stack[i].at = "run" => stack[i].kind = "drain"
    /\ Top.at \in Fillers => ~intr /\ Top.held > 0
    /\ Top.at \in {"got", "step"} => free # Null /\ Top.entry = free
    /\ Top.at = "step" => Top.read = next[free]

\* L is the list of each place, W the place of each entry.
Located(L, W, hp) ==
    /\ L \in [Place -> Seq(Entry)] /\ W \in [Entry -> Place \union {Nowhere}]
    /\ \A k \in Place : IsInjective(L[k]) /\ ToSet(L[k]) = {e \in Entry : W[e] = k}
    /\ \A e \in Entry : W[e] # Nowhere <=> e \in PoolEntry \union hp
    /\ ToSet(L[InPool]) \subseteq PoolEntry

Led(L) ==
    /\ \A k \in Place \ {InHand} : Path(next, L[k], HeadOf(k))
    /\ L[InHand] = Filling(Top)

\* The handlers of the entries that wait are calls of their own, the pending list has
\* the latest first and the others the earliest.
Sorted(L, W) ==
    /\ \A e \in Entry : W[e] >= 0 => handler[e] \in 1..queued
    /\ \A e, d \in Entry : W[e] >= 0 /\ W[d] >= 0 /\ handler[e] = handler[d] => e = d
    /\ \A i, j \in 1..Len(L[InPending]) : i < j => handler[L[InPending][i]] > handler[L[InPending][j]]
    /\ \A k \in Place : k > 0 => \A i, j \in 1..Len(L[k]) : i < j => handler[L[k][i]] < handler[L[k][j]]

\* What was run is no call that waits, but the one a drain is at.
Spent(W) ==
    /\ \A r, q \in 1..Len(ran) : ran[r] = ran[q] => r = q
    /\ \A r \in 1..Len(ran) : ran[r] \in 1..queued
    /\ \A e \in Entry, r \in 1..Len(ran) : W[e] >= 0 /\ handler[e] = ran[r] =>
          W[e] \in 1..Len(stack) /\ stack[W[e]].todo = e /\ stack[W[e]].at # "run"

\* The call of the entry in hand is the last one queued.
Newest(W) == Top.at = "linked" =>
    /\ next[Top.entry] = pending /\ handler[Top.entry] = queued /\ queued > 0
    /\ \A d \in Entry : W[d] >= 0 => handler[d] # queued
    /\ \A r \in 1..Len(ran) : ran[r] # queued
    /\ Top.kind = "drain" => queued \in nested

\* A call that no deferred call queued is pending.
Foreign(W) == \E e \in Entry : W[e] = InPending /\ handler[e] \notin nested

\* Who will still look at the pending list: a trap above the i-th context that has its
\* exit_trap before it, or the handler that a leave_critical in it left the calls to.
Covered(s, i) == \E j \in 1..Len(s) : j > i /\ s[j].kind \in {"irq", "fault"} /\ s[j].at # "exit"
Answers(s, i) ==
    /\ s[i].at = "exit" => Covered(s, i)
    /\ s[i].at = "leave" => Covered(s, i) \/ \E j \in 1..i : Handling(s[j]) = 1

\* A call that no deferred call queued is never pending without a handler or a critical
\* section under way, and no context that has looked at the list for the last time goes
\* on while such a call is there, unless someone above it will look again.
Kept(W) == Foreign(W) =>
    /\ inIrq > 0 \/ crit > 0
    /\ \A i \in 1..Len(stack) : Answers(stack, i)

Holds(L, W) ==
    /\ Located(L, W, heap) /\ Led(L) /\ Sorted(L, W) /\ Spent(W) /\ Newest(W) /\ Kept(W)

CInv == IInv /\ Fields /\ Labelled /\ \E L, W : Holds(L, W)

-----------------------------------------------------------------------------
(* Its steps                                                                *)

LEMMA HandlerThere ==
    ASSUME IInv PROVE inIrq > 0 <=> \E i \in 1..Len(stack) : Handling(stack[i]) = 1
<1> DEFINE n == Len(stack)
<1>1. PICK f, g : Adds(f, g, stack) /\ f[n] = crit /\ g[n] = inIrq
  BY DEF IInv, Levels
<1>2. /\ \A i \in 1..n : HandlingOf(stack)[i] = Handling(stack[i])
      /\ n \in Nat \ {0} /\ DOMAIN stack = 1..n /\ n \in 1..n
  BY SharesOf DEF IInv, Stacked, IsSequence
<1>3. ASSUME NEW i \in 1..n, Handling(stack[i]) = 1 PROVE inIrq > 0
  <2>1. HandlingOf(stack)[i] <= g[i] /\ (i < n => g[i] + HandlingOf(stack)[n] <= g[n])
    BY <1>1, <1>2 DEF Adds, Sums
  <2>2. HandlingOf(stack)[i] = 1 /\ g[i] \in Nat /\ g[n] \in Nat /\ HandlingOf(stack)[n] \in Nat
    BY <1>1, <1>2, <1>3 DEF Adds, Sums
  <2> QED BY <1>1, <1>2, <2>1, <2>2
<1>4. ASSUME \A i \in 1..n : Handling(stack[i]) # 1 PROVE inIrq = 0
  <2>1. {i \in Contexts({"irq"}) : stack[i].at # "exit"} = {}
    BY <1>2, <1>4 DEF Contexts, Handling
  <2>2. Cardinality({}) = 0
    BY FS_EmptySet
  <2> QED BY <2>1, <2>2, Counted DEF LevelsBalanced
<1>5. inIrq \in Nat
  BY TopFacts
<1> QED BY <1>3, <1>4, <1>5

LEMMA GoneOn ==
    ASSUME IInv, NEW c, stack' = WithTop(c)
    PROVE  /\ Len(stack') = Len(stack) /\ Len(stack) \in Nat \ {0} /\ Len(stack) \in 1..Len(stack)
           /\ Top = stack[Len(stack)] /\ Top' = c
           /\ \A i \in 1..Len(stack) : stack'[i] = IF i = Len(stack) THEN c ELSE stack[i]
<1>1. IsSequence(stack) /\ Len(stack) \in Nat \ {0} /\ Len(stack) \in 1..Len(stack) /\ Top = stack[Len(stack)]
  BY SharesOf DEF IInv, Stacked, Top
<1>2. /\ Len(stack') = Len(stack)
      /\ \A i \in 1..Len(stack) : stack'[i] = IF i = Len(stack) THEN c ELSE stack[i]
  <2> DEFINE t == Front(stack) \o <<c>>
  <2>1. Len(t) = Len(stack) /\ \A i \in 1..Len(stack) : t[i] = IF i = Len(stack) THEN c ELSE stack[i]
    <3>1. IsSequence(stack) /\ Len(stack) > 0
      BY <1>1
    <3> QED BY <3>1, FrontReplaced
  <2>2. stack' = t
    BY DEF WithTop
  <2> HIDE DEF t
  <2> QED BY <2>1, <2>2
<1>3. Top' = stack'[Len(stack')]
  BY DEF Top, Last
<1> QED BY <1>1, <1>2, <1>3

LEMMA GrewBy ==
    ASSUME IInv, NEW d, stack' = Append(stack, d)
    PROVE  /\ Len(stack') = Len(stack) + 1 /\ Len(stack) \in Nat \ {0} /\ Len(stack) \in 1..Len(stack)
           /\ Top = stack[Len(stack)] /\ Top' = d
           /\ \A i \in 1..Len(stack) + 1 : stack'[i] = IF i = Len(stack) + 1 THEN d ELSE stack[i]
<1>1. IsSequence(stack) /\ Len(stack) \in Nat \ {0} /\ Len(stack) \in 1..Len(stack) /\ Top = stack[Len(stack)]
  BY SharesOf DEF IInv, Stacked, Top
<1>2. /\ Len(stack') = Len(stack) + 1
      /\ \A i \in 1..Len(stack) + 1 : stack'[i] = IF i = Len(stack) + 1 THEN d ELSE stack[i]
  BY <1>1, Pushed
<1>3. Top' = stack'[Len(stack')] /\ Len(stack) + 1 \in 1..Len(stack) + 1
  BY <1>1 DEF Top, Last
<1> QED BY <1>1, <1>2, <1>3

LEMMA ShrankBy ==
    ASSUME IInv, stack' = Front(stack), Top.kind # "thread"
    PROVE  /\ Len(stack') = Len(stack) - 1 /\ Len(stack) \in Nat \ {0, 1} /\ Len(stack) \in 1..Len(stack)
           /\ Top = stack[Len(stack)] /\ Top' = stack[Len(stack) - 1]
           /\ \A i \in 1..Len(stack) - 1 : stack'[i] = stack[i]
<1>1. IsSequence(stack) /\ Len(stack) \in Nat \ {0} /\ Len(stack) \in 1..Len(stack) /\ Top = stack[Len(stack)]
  BY SharesOf DEF IInv, Stacked, Top
<1>2. Len(stack) # 1
  BY <1>1 DEF IInv, Stacked
<1>3. Len(stack') = Len(stack) - 1 /\ \A i \in 1..Len(stack) - 1 : stack'[i] = stack[i]
  BY <1>1, Popped
<1>4. Top' = stack'[Len(stack')] /\ Len(stack) - 1 \in 1..Len(stack) - 1
  BY <1>1, <1>2, <1>3 DEF Top, Last
<1> QED BY <1>1, <1>2, <1>3, <1>4

\* A context that changes but for its kind, and begins no exit, leaves what is covered.
LEMMA AnswersKept ==
    ASSUME NEW s, NEW t, NEW n \in Nat \ {0}, Len(s) = n, Len(t) = n,
           \A i \in 1..n : i # n => t[i] = s[i],
           t[n].kind = s[n].kind, s[n].at # "exit", t[n].at # "exit",
           NEW i \in 1..n, i # n, Answers(s, i)
    PROVE  Answers(t, i)
<1>1. t[i] = s[i]
  OBVIOUS
<1>2. Covered(s, i) => Covered(t, i)
  BY DEF Covered
<1>3. \A j \in 1..n : Handling(t[j]) = Handling(s[j])
  BY DEF Handling
<1> QED BY <1>1, <1>2, <1>3 DEF Answers

\* Nothing moves between the places.
LEMMA Stays ==
    ASSUME NEW L, NEW W, Holds(L, W), Fields, UNCHANGED <<entries, queued, nested>>,
           \A k \in Place : HeadOf(k)' = HeadOf(k), Filling(Top)' = Filling(Top)
    PROVE  /\ Located(L, W, heap') /\ Led(L)' /\ Sorted(L, W)' /\ (Foreign(W)' => Foreign(W))
           /\ ran' = ran => Fields'
<1>1. UNCHANGED <<free, pending, next, handler, heap, queued, nested>>
  BY DEF entries
<1>2. Located(L, W, heap')
  BY <1>1 DEF Holds
<1>3. Led(L)'
  BY <1>1 DEF Holds, Led
<1>4. Sorted(L, W)'
  BY <1>1 DEF Holds, Sorted
<1>5. Foreign(W)' => Foreign(W)
  BY <1>1 DEF Foreign
<1>6. ran' = ran => Fields'
  BY <1>1 DEF Fields
<1> QED BY <1>2, <1>3, <1>4, <1>5, <1>6

\* No call that was run waits on, if the lists that drains are at stay.
LEMMA StaysSpent ==
    ASSUME NEW W, Spent(W), UNCHANGED <<ran, handler, queued>>,
           \A i \in 1..Len(stack) : stack[i].todo # Null /\ stack[i].at # "run" =>
               i \in 1..Len(stack') /\ stack'[i].todo = stack[i].todo /\ stack'[i].at # "run"
    PROVE  Spent(W)'
<1>1. \A e \in Entry : e # Null
  BY Entries
<1> QED BY <1>1 DEF Spent

\* An interrupt or an exception comes.
LEMMA TrapStep ==
    ASSUME CInv, IInv', EnterTrapIrq \/ EnterTrapNoIrq PROVE CInv'
<1> DEFINE n == Len(stack)
<1>1. PICK d : /\ stack' = Append(stack, d) /\ d.at = "code" /\ d.todo = Null /\ d.entry = Null
               /\ d.kind \in {"irq", "fault"}
  BY DEF EnterTrapIrq, EnterTrapNoIrq, Context
<1>2. /\ UNCHANGED <<entries, calls, crit>> /\ inIrq' \in {inIrq, inIrq + 1} /\ ~intr'
      /\ intr \/ At("code")
  BY DEF EnterTrapIrq, EnterTrapNoIrq
<1>3. IInv /\ Fields /\ Labelled
  BY DEF CInv
<1>4. /\ Len(stack') = n + 1 /\ n \in Nat \ {0} /\ n \in 1..n /\ Top = stack[n] /\ Top' = d
      /\ \A i \in 1..n + 1 : stack'[i] = IF i = n + 1 THEN d ELSE stack[i]
  BY <1>1, <1>3, GrewBy
<1>5. PICK L, W : Holds(L, W)
  BY DEF CInv
<1> HIDE DEF n
<1>6. Top.at \notin Fillers
  BY <1>2, <1>3 DEF Labelled, At, Fillers
<1>7. ASSUME NEW k \in Place PROVE HeadOf(k)' = HeadOf(k)
  BY <1>1, <1>2, <1>4 DEF HeadOf, Place, InHand, InPool, InPending, entries, n
<1>8. Filling(Top)' = Filling(Top)
  BY <1>1, <1>4, <1>6 DEF Filling, Fillers
<1>9. UNCHANGED <<queued, nested, ran, handler, next, free, pending>>
  BY <1>2 DEF calls, entries
<1>10. /\ Located(L, W, heap') /\ Led(L)' /\ Sorted(L, W)' /\ (Foreign(W)' => Foreign(W)) /\ Fields'
  BY <1>2, <1>3, <1>5, <1>7, <1>8, <1>9, Stays
<1>11. Spent(W)'
  <2>1. \A i \in 1..n : i \in 1..n + 1 /\ stack'[i] = stack[i]
    BY <1>4
  <2> QED BY <1>4, <1>5, <1>9, <2>1, StaysSpent DEF Holds, n
<1>12. Newest(W)'
  BY <1>1, <1>4 DEF Newest
<1>13. Labelled'
  <2>1. ASSUME NEW i \in 1..n + 1
        PROVE  /\ i < n + 1 => stack'[i].at \notin Fillers
               /\ stack'[i].kind = "drain" <=> stack'[i].todo # Null
               /\ stack'[i].at = "run" => stack'[i].kind = "drain"
    <3>1. CASE i = n + 1
      BY <1>1, <1>4, <3>1
    <3>2. CASE i # n + 1
      <4>1. i \in 1..n /\ stack'[i] = stack[i] /\ (i = n \/ i < n)
        BY <1>4, <3>2
      <4> QED BY <1>3, <1>4, <1>6, <4>1 DEF Labelled, n
    <3> QED BY <3>1, <3>2
  <2> QED BY <1>1, <1>4, <2>1 DEF Labelled, Fillers
<1>14. Kept(W)'
  <2> SUFFICES ASSUME Foreign(W)'
               PROVE  (inIrq' > 0 \/ crit' > 0) /\ \A i \in 1..n + 1 : Answers(stack', i)
    BY <1>4 DEF Kept
  <2>1. Kept(W) /\ Foreign(W) /\ inIrq \in Nat
    BY <1>3, <1>5, <1>10, TopFacts DEF Holds
  <2>2. inIrq' > 0 \/ crit' > 0
    BY <1>2, <2>1 DEF Kept
  <2>3. ASSUME NEW i \in 1..n + 1 PROVE Answers(stack', i)
    <3>1. CASE i = n + 1
      BY <1>1, <1>4, <3>1 DEF Answers
    <3>2. CASE i # n + 1
      <4>1. n + 1 \in 1..Len(stack') /\ n + 1 > i /\ stack'[n + 1] = d
        BY <1>4, <3>2
      <4>2. Covered(stack', i)
        BY <1>1, <4>1 DEF Covered
      <4> QED BY <4>2 DEF Answers
    <3> QED BY <3>1, <3>2
  <2> QED BY <2>2, <2>3
<1> QED BY <1>5, <1>10, <1>11, <1>12, <1>13, <1>14 DEF CInv, Holds

\* The running context goes on as c, and no entry moves.
LEMMA GoesOnStill ==
    ASSUME CInv, IInv', NEW L, NEW W, Holds(L, W), NEW c, stack' = WithTop(c),
           UNCHANGED <<entries, calls>>,
           c.kind = Top.kind, c.todo = Top.todo, Filling(c) = Filling(Top), c.at # "linked",
           Top.at \notin {"exit", "run"}, c.at # "run",
           c.at \in Fillers => ~intr' /\ c.held > 0,
           c.at \in {"got", "step"} => free # Null /\ c.entry = free,
           c.at = "step" => c.read = next[free],
           Foreign(W) => /\ inIrq' > 0 \/ crit' > 0
                         /\ c.at # "exit"
                         /\ c.at = "leave" => inIrq > 0
    PROVE  CInv'
<1> DEFINE n == Len(stack)
<1>1. IInv /\ Fields /\ Labelled
  BY DEF CInv
<1>2. /\ Len(stack') = n /\ n \in Nat \ {0} /\ n \in 1..n /\ Top = stack[n] /\ Top' = c
      /\ \A i \in 1..n : stack'[i] = IF i = n THEN c ELSE stack[i]
  BY <1>1, GoneOn
<1> HIDE DEF n
<1>3. UNCHANGED <<queued, nested, ran, handler, next, free, pending>>
  BY DEF calls, entries
<1>4. ASSUME NEW k \in Place PROVE HeadOf(k)' = HeadOf(k)
  BY <1>2, <1>3 DEF HeadOf, n
<1>5. Filling(Top)' = Filling(Top)
  BY <1>2 DEF Filling
<1>6. /\ Located(L, W, heap') /\ Led(L)' /\ Sorted(L, W)' /\ (Foreign(W)' => Foreign(W)) /\ Fields'
  BY <1>1, <1>3, <1>4, <1>5, Stays
<1>7. Spent(W)'
  <2>1. ASSUME NEW i \in 1..n, stack[i].todo # Null, stack[i].at # "run"
        PROVE  i \in 1..n /\ stack'[i].todo = stack[i].todo /\ stack'[i].at # "run"
    BY <1>2, <2>1
  <2> QED BY <1>2, <1>3, <2>1, StaysSpent DEF Holds, n
<1>8. Newest(W)'
  BY <1>2 DEF Newest
<1>9. Labelled'
  <2>1. ASSUME NEW i \in 1..n
        PROVE  /\ i < n => stack'[i].at \notin Fillers
               /\ stack'[i].kind = "drain" <=> stack'[i].todo # Null
               /\ stack'[i].at = "run" => stack'[i].kind = "drain"
    <3>1. CASE i = n
      BY <1>1, <1>2, <3>1 DEF Labelled, n
    <3>2. CASE i # n
      BY <1>1, <1>2, <3>2 DEF Labelled, n
    <3> QED BY <3>1, <3>2
  <2> QED BY <1>2, <1>3, <2>1 DEF Labelled
<1>10. Kept(W)'
  <2> SUFFICES ASSUME Foreign(W)'
               PROVE  (inIrq' > 0 \/ crit' > 0) /\ \A i \in 1..n : Answers(stack', i)
    BY <1>2 DEF Kept
  <2>1. Foreign(W) /\ \A i \in 1..n : Answers(stack, i)
    BY <1>6 DEF Holds, Kept, n
  <2>2. ASSUME NEW i \in 1..n PROVE Answers(stack', i)
    <3>1. CASE i = n
      <4>1. stack'[i] = c /\ c.at # "exit"
        BY <1>2, <2>1, <3>1
      <4>2. CASE c.at = "leave"
        <5>1. PICK j \in 1..n : Handling(stack[j]) = 1
          BY <1>1, <2>1, <4>2, HandlerThere DEF n
        <5>2. Handling(stack'[j]) = 1
          BY <1>2, <4>1, <5>1 DEF Handling
        <5> QED BY <3>1, <4>1, <5>2 DEF Answers
      <4> QED BY <4>1, <4>2 DEF Answers
    <3>2. CASE i # n
      <4>1. Answers(stack, i) /\ Len(stack) = n /\ Len(stack') = n
        BY <1>2, <2>1 DEF n
      <4>2. \A j \in 1..n : j # n => stack'[j] = stack[j]
        BY <1>2
      <4>3. stack'[n].kind = stack[n].kind /\ stack[n].at # "exit" /\ stack'[n].at # "exit"
        BY <1>2, <2>1
      <4> QED BY <1>2, <3>2, <4>1, <4>2, <4>3, AnswersKept
    <3> QED BY <3>1, <3>2
  <2> QED BY <2>1, <2>2
<1> QED BY <1>6, <1>7, <1>8, <1>9, <1>10 DEF CInv, Holds

\* Nothing is forgotten when nothing is pending.
LEMMA NonePending ==
    ASSUME NEW L, NEW W, Holds(L, W), pending = Null PROVE ~Foreign(W)
<1>1. InPending \in Place \ {InHand} /\ HeadOf(InPending) = pending
  BY DEF Place, InPending, InHand, InPool, HeadOf
<1>2. /\ Path(next, L[InPending], Null) /\ L[InPending] \in Seq(Entry)
      /\ ToSet(L[InPending]) = {e \in Entry : W[e] = InPending}
  BY <1>1 DEF Holds, Led, Located
<1>3. ToSet(L[InPending]) = {}
  BY <1>2, PathEnds
<1> QED BY <1>2, <1>3 DEF Foreign

\* What code that is at work guarantees of a foreign call.
LEMMA KeptNow ==
    ASSUME CInv, NEW L, NEW W, Holds(L, W), Foreign(W)
    PROVE  /\ inIrq > 0 \/ crit > 0
           /\ Top.at # "exit"
           /\ Top.at = "leave" => inIrq > 0
<1> DEFINE n == Len(stack)
<1>1. IInv /\ n \in Nat \ {0} /\ n \in 1..n /\ Top = stack[n]
  BY SharesOf DEF CInv, IInv, Top
<1>2. Answers(stack, n) /\ (inIrq > 0 \/ crit > 0)
  BY <1>1 DEF Holds, Kept
<1>3. ~Covered(stack, n)
  BY <1>1 DEF Covered
<1>4. inIrq > 0 <=> \E i \in 1..n : Handling(stack[i]) = 1
  BY <1>1, HandlerThere
<1> QED BY <1>1, <1>2, <1>3, <1>4 DEF Answers

LEMMA EnterStep ==
    ASSUME CInv, IInv', EnterCritical PROVE CInv'
<1> DEFINE c == [Top EXCEPT !.held = @ + 1]
<1>1. Top.at = "code" /\ crit' = crit + 1 /\ inIrq' = inIrq /\ stack' = WithTop(c) /\ UNCHANGED <<entries, calls>>
  BY DEF EnterCritical, At
<1>2. HasFields(Top) /\ inIrq \in Nat /\ crit \in Nat
  BY TopFacts DEF CInv, IsContext
<1>3. c.kind = Top.kind /\ c.at = "code" /\ c.todo = Top.todo
  BY <1>1, <1>2 DEF HasFields
<1> HIDE DEF c
<1>4. Filling(c) = <<>> /\ Filling(Top) = <<>>
  BY <1>1, <1>3 DEF Filling
<1>5. PICK L, W : Holds(L, W)
  BY DEF CInv
<1>6. inIrq' > 0 \/ crit' > 0
  BY <1>1, <1>2
<1> QED BY <1>1, <1>3, <1>4, <1>5, <1>6, GoesOnStill DEF Fillers

LEMMA FinishLeaveStill ==
    ASSUME CInv, IInv', FinishLeave PROVE CInv'
<1> DEFINE c == [Top EXCEPT !.at = "code"]
<1>1. Top.at = "leave" /\ crit' = 0 /\ inIrq' = inIrq /\ stack' = WithTop(c) /\ UNCHANGED <<entries, calls>>
  BY DEF FinishLeave, At, Goto
<1>2. HasFields(Top)
  BY TopFacts DEF CInv, IsContext
<1>3. c.kind = Top.kind /\ c.at = "code" /\ c.todo = Top.todo
  BY <1>1, <1>2 DEF HasFields
<1> HIDE DEF c
<1>4. Filling(c) = <<>> /\ Filling(Top) = <<>>
  BY <1>1, <1>3 DEF Filling
<1>5. PICK L, W : Holds(L, W)
  BY DEF CInv
<1>6. Foreign(W) => inIrq' > 0
  BY <1>1, <1>5, KeptNow
<1> QED BY <1>1, <1>3, <1>4, <1>5, <1>6, GoesOnStill DEF Fillers

LEMMA GetFreeNextStill ==
    ASSUME CInv, IInv', GetFreeNext PROVE CInv'
<1> DEFINE c == [Top EXCEPT !.at = "step", !.read = next[Top.entry]]
<1>1. Top.at = "got" /\ stack' = WithTop(c) /\ UNCHANGED <<entries, calls, intr, inIrq, crit>>
  BY DEF GetFreeNext, At, levels
<1>2. HasFields(Top)
  BY TopFacts DEF CInv, IsContext
<1>3. /\ c.kind = Top.kind /\ c.at = "step" /\ c.todo = Top.todo /\ c.held = Top.held
      /\ c.entry = Top.entry /\ c.read = next[Top.entry]
  BY <1>1, <1>2 DEF HasFields
<1> HIDE DEF c
<1>4. Filling(c) = <<>> /\ Filling(Top) = <<>>
  BY <1>1, <1>3 DEF Filling
<1>5. PICK L, W : Holds(L, W)
  BY DEF CInv
<1>6. Foreign(W) => inIrq' > 0 \/ crit' > 0
  BY <1>1, <1>5, KeptNow
<1>7. ~intr /\ Top.held > 0 /\ free # Null /\ Top.entry = free
  BY <1>1 DEF CInv, Labelled, Fillers
<1> QED BY <1>1, <1>3, <1>4, <1>5, <1>6, <1>7, GoesOnStill DEF Fillers

LEMMA FinishExitStill ==
    ASSUME CInv, IInv', FinishExit PROVE CInv'
<1> DEFINE n == Len(stack)
<1>1. Top.at = "exit" /\ stack' = Front(stack) /\ UNCHANGED <<entries, calls>>
  BY DEF FinishExit, At
<1>2. IInv /\ Fields /\ Labelled /\ Top.kind \in {"irq", "fault"}
  BY <1>1, TopFacts DEF CInv, IsContext
<1>3. /\ Len(stack') = n - 1 /\ n \in Nat \ {0, 1} /\ n \in 1..n
      /\ Top = stack[n] /\ Top' = stack[n - 1]
      /\ \A i \in 1..n - 1 : stack'[i] = stack[i]
  BY <1>1, <1>2, ShrankBy
<1>4. PICK L, W : Holds(L, W)
  BY DEF CInv
<1>5. stack[n].todo = Null
  BY <1>2, <1>3 DEF Labelled
<1>6. stack[n - 1].at \notin Fillers /\ n - 1 \in 1..n /\ n - 1 \in 1..n - 1
  BY <1>2, <1>3 DEF Labelled
<1> HIDE DEF n
<1>7. UNCHANGED <<queued, nested, ran, handler, next, free, pending>>
  BY <1>1 DEF calls, entries
<1>8. ASSUME NEW k \in Place PROVE HeadOf(k)' = HeadOf(k)
  <2>1. CASE k = n
    BY <1>3, <1>5, <1>7, <2>1 DEF HeadOf, n, InPool, InPending
  <2>2. CASE k # n
    <3>1. k \in 1..n <=> k \in 1..n - 1
      BY <1>3, <2>2 DEF Place
    <3> QED BY <1>3, <1>7, <3>1 DEF HeadOf, n
  <2> QED BY <2>1, <2>2
<1>9. Filling(Top)' = Filling(Top)
  BY <1>1, <1>3, <1>6 DEF Filling, Fillers
<1>10. /\ Located(L, W, heap') /\ Led(L)' /\ Sorted(L, W)' /\ (Foreign(W)' => Foreign(W)) /\ Fields'
  BY <1>1, <1>2, <1>4, <1>7, <1>8, <1>9, Stays
<1>11. Spent(W)'
  <2>1. ASSUME NEW i \in 1..n, stack[i].todo # Null
        PROVE  i \in 1..n - 1 /\ stack'[i] = stack[i]
    BY <1>3, <1>5, <2>1
  <2> QED BY <1>3, <1>4, <1>7, <2>1, StaysSpent DEF Holds, n
<1>12. Newest(W)'
  BY <1>3, <1>6 DEF Newest, Fillers
<1>13. Labelled'
  <2>1. ASSUME NEW i \in 1..n - 1
        PROVE  /\ stack'[i].at \notin Fillers
               /\ stack'[i].kind = "drain" <=> stack'[i].todo # Null
               /\ stack'[i].at = "run" => stack'[i].kind = "drain"
    <3>1. i \in 1..n /\ i < n /\ stack'[i] = stack[i]
      BY <1>3
    <3> QED BY <1>2, <3>1 DEF Labelled, n
  <2>2. Top'.at \notin Fillers
    BY <1>3, <1>6
  <2> QED BY <1>3, <2>1, <2>2 DEF Labelled, Fillers
<1>14. Kept(W)'
  BY <1>1, <1>4, <1>10, KeptNow DEF Kept
<1> QED BY <1>4, <1>10, <1>11, <1>12, <1>13, <1>14 DEF CInv, Holds

\* The context's own code.
LEMMA OwnCodeStep ==
    ASSUME CInv, IInv', DisableInterrupts \/ EnableInterrupts \/ InvokeSchedulerAsync \/ UNCHANGED vars
    PROVE  CInv'
<1>1. PICK L, W : Holds(L, W)
  BY DEF CInv
<1>2. /\ UNCHANGED <<entries, calls, stack, inIrq, crit>> /\ (intr' => intr \/ At("code"))
  BY DEF DisableInterrupts, EnableInterrupts, InvokeSchedulerAsync, vars, levels
<1>3. UNCHANGED <<queued, nested, ran, handler, next, free, pending, Top, stack, inIrq, crit>>
  BY <1>2 DEF calls, entries, Top
<1>4. /\ Located(L, W, heap') /\ Led(L)' /\ Sorted(L, W)' /\ (Foreign(W)' => Foreign(W)) /\ Fields'
  <2>1. Filling(Top)' = Filling(Top) /\ \A k \in Place : HeadOf(k)' = HeadOf(k)
    BY <1>3 DEF Filling, HeadOf
  <2> QED BY <1>1, <1>2, <1>3, <2>1, Stays DEF CInv
<1>5. Spent(W)'
  BY <1>1, <1>3 DEF Holds, Spent
<1>6. Newest(W)'
  BY <1>1, <1>3 DEF Holds, Newest
<1>7. Labelled'
  BY <1>2, <1>3 DEF CInv, Labelled, Fillers, At
<1>8. Kept(W)'
  BY <1>1, <1>3, <1>4 DEF Holds, Kept
<1> QED BY <1>4, <1>5, <1>6, <1>7, <1>8 DEF CInv, Holds

LEMMA PlaceFacts ==
    /\ InHand = -2 /\ InPool = -1 /\ InPending = 0 /\ Nowhere = -3
    /\ InHand \in Place /\ InPool \in Place /\ InPending \in Place /\ Nowhere \notin Place
    /\ \A k \in Nat : k \in Place
    /\ \A k \in Place : k \in Int /\ k >= -2
BY DEF InHand, InPool, InPending, Nowhere, Place

\* The list of a place that is no context's is empty.
LEMMA NoList ==
    ASSUME NEW L, NEW W, Holds(L, W), NEW k \in Place, k > 0,
           k \notin 1..Len(stack) \/ stack[k].todo = Null
    PROVE  L[k] = <<>> /\ ToSet(L[k]) = {} /\ \A e \in Entry : W[e] # k
<1>1. HeadOf(k) = Null /\ k # InHand
  BY DEF HeadOf, InPool, InPending, InHand
<1>2. Path(next, L[k], Null) /\ L[k] \in Seq(Entry) /\ ToSet(L[k]) = {e \in Entry : W[e] = k}
  BY <1>1 DEF Holds, Led, Located
<1>3. L[k] = <<>> /\ ToSet(L[k]) = {}
  BY <1>2, PathEnds
<1> QED BY <1>2, <1>3

\* deferred_call_execute_pending takes the list.
LEMMA DrainBegins ==
    ASSUME CInv, IInv', NEW c, pending # Null, ExecutePending(c), UNCHANGED <<free, handler, heap, calls>>,
           c.kind = Top.kind, c.todo = Top.todo, c.at \in {"exit", "leave"}, Top.at \in {"code", "queued"}
    PROVE  CInv'
<1> DEFINE n == Len(stack)
<1>1. IInv /\ Fields /\ Labelled
  BY DEF CInv
<1>25. PICK m : m = n + 1
  OBVIOUS
<1>2. PICK L, W : Holds(L, W)
  BY DEF CInv
<1> DEFINE P == L[InPending]
           R == Reverse(P)
           d == Context("drain", "run", R[1])
           L2 == [k \in Place |-> IF k = InPending THEN <<>> ELSE IF k = m THEN R ELSE L[k]]
           W2 == [e \in Entry |-> IF W[e] = InPending THEN m ELSE W[e]]
<1>3. /\ L \in [Place -> Seq(Entry)] /\ W \in [Entry -> Place \union {Nowhere}]
      /\ \A k \in Place : IsInjective(L[k]) /\ ToSet(L[k]) = {e \in Entry : W[e] = k}
      /\ \A e \in Entry : W[e] # Nowhere <=> e \in PoolEntry \union heap
      /\ ToSet(L[InPool]) \subseteq PoolEntry
  BY <1>2 DEF Holds, Located
<1>4. P \in Seq(Entry) /\ IsInjective(P) /\ Path(next, P, pending) /\ ToSet(P) = {e \in Entry : W[e] = InPending}
  <2>1. HeadOf(InPending) = pending /\ InPending \in Place \ {InHand}
    BY PlaceFacts DEF HeadOf
  <2>2. Path(next, L[InPending], HeadOf(InPending))
    BY <1>2, <2>1 DEF Holds, Led
  <2> QED BY <1>3, <2>1, <2>2
<1> HIDE DEF P
<1>5. Chain(pending) = P
  BY <1>4, Bounded, ChainIs
<1>6. Len(P) > 0 /\ Len(P) \in Nat
  BY <1>4, PathEnds
<1>7. /\ R \in Seq(Entry) /\ Len(R) = Len(P) /\ IsInjective(R) /\ ToSet(R) = ToSet(P)
      /\ \A i \in 1..Len(P) : Len(P) - i + 1 \in 1..Len(P) /\ R[i] = P[Len(P) - i + 1]
  BY <1>4, ReverseOf
<1>8. stack' = WithTop(c) \o <<d>> /\ pending' = Null /\ next' = Relinked(R)
  BY <1>5 DEF ExecutePending, ReverseList
<1> HIDE DEF R
<1>9. R[1] \in Entry /\ R[1] # Null
  BY <1>6, <1>7, Entries
<1>10. /\ next' \in [Entry -> Entry \union {Null}] /\ Path(next', R, R[1])
       /\ \A e \in Entry \ ToSet(R) : next'[e] = next[e]
  <2>1. next \in [Entry -> Entry \union {Null}]
    BY <1>1 DEF Fields
  <2> QED BY <1>6, <1>7, <1>8, <2>1, PathRelinked
<1>11. d.kind = "drain" /\ d.at = "run" /\ d.todo = R[1]
  BY DEF Context
<1> HIDE DEF d
<1>12. /\ n \in Nat \ {0} /\ n \in 1..n /\ Top = stack[n]
       /\ Len(stack') = m /\ Top' = d
       /\ \A i \in 1..m : stack'[i] = IF i = m THEN d ELSE IF i = n THEN c ELSE stack[i]
  <2> DEFINE t == Front(stack) \o <<c>>
  <2>1. IsSequence(stack) /\ n \in Nat \ {0} /\ n \in 1..n /\ Top = stack[n]
    BY <1>1, SharesOf DEF IInv, Stacked, Top
  <2>2. IsSequence(t) /\ Len(t) = n /\ \A i \in 1..n : t[i] = IF i = n THEN c ELSE stack[i]
    <3>1. Len(stack) > 0
      BY <2>1
    <3> QED BY <2>1, <3>1, FrontReplaced
  <2>3. stack' = t \o <<d>>
    BY <1>8 DEF WithTop
  <2> HIDE DEF t, n
  <2>7. Len(t) + 1 = m
    BY <1>25, <2>2
  <2>4. /\ stack' = Append(t, d) /\ Len(stack') = m
        /\ \A i \in 1..m : stack'[i] = IF i = m THEN d ELSE t[i]
    BY <2>1, <2>2, <2>3, <2>7, Pushed
  <2>5. Top' = stack'[Len(stack')] /\ m \in 1..m
    BY <1>25, <2>1, <2>4 DEF Top, Last
  <2>6. ASSUME NEW i \in 1..m, i # m PROVE i \in 1..n
    BY <1>25, <2>1, <2>6
  <2> QED BY <2>1, <2>2, <2>4, <2>5, <2>6
<1>13. L[m] = <<>> /\ ToSet(L[m]) = {} /\ (\A e \in Entry : W[e] # m) /\ m \in Place /\ m # InPending /\ m > 0
       /\ m # InHand /\ m # InPool
  <2>1. m \in Place /\ m > 0 /\ m \notin 1..Len(stack)
    BY <1>12, <1>25, PlaceFacts
  <2>2. L[m] = <<>> /\ ToSet(L[m]) = {} /\ \A e \in Entry : W[e] # m
    BY <1>2, <2>1, NoList
  <2>3. m # InPending /\ m # InHand /\ m # InPool
    BY <2>1, PlaceFacts
  <2> QED BY <2>1, <2>2, <2>3
<1> HIDE DEF n
<1>14. Located(L2, W2, heap')
  <2>1. L2 \in [Place -> Seq(Entry)] /\ W2 \in [Entry -> Place \union {Nowhere}]
    BY <1>3, <1>7, <1>13
  <2>2. ASSUME NEW k \in Place PROVE IsInjective(L2[k]) /\ ToSet(L2[k]) = {e \in Entry : W2[e] = k}
    <3>1. CASE k = InPending
      <4>1. L2[k] = <<>> /\ IsInjective(<<>>) /\ ToSet(<<>>) = {}
        BY <3>1 DEF IsInjective, ToSet
      <4>2. \A e \in Entry : W2[e] # k
        BY <1>13, <3>1
      <4> QED BY <4>1, <4>2
    <3>2. CASE k = m
      <4>1. L2[k] = R
        BY <1>13, <3>2
      <4>2. \A e \in Entry : W2[e] = k <=> W[e] = InPending
        BY <1>13, <3>2
      <4> QED BY <1>4, <1>7, <4>1, <4>2
    <3>3. CASE k # InPending /\ k # m
      <4>1. L2[k] = L[k]
        BY <3>3
      <4>2. \A e \in Entry : W2[e] = k <=> W[e] = k
        BY <3>3
      <4> QED BY <1>3, <4>1, <4>2
    <3> QED BY <3>1, <3>2, <3>3
  <2>3. \A e \in Entry : W2[e] # Nowhere <=> W[e] # Nowhere
    BY <1>13, PlaceFacts
  <2>4. L2[InPool] = L[InPool]
    BY <1>13, PlaceFacts
  <2> QED BY <1>3, <2>1, <2>2, <2>3, <2>4 DEF Located
<1>15. Led(L2)'
  <2>1. ASSUME NEW k \in Place, k # InHand PROVE Path(next', L2[k], HeadOf(k)')
    <3>1. CASE k = InPending
      <4>1. HeadOf(k)' = Null /\ L2[k] = <<>>
        BY <1>8, <3>1, PlaceFacts DEF HeadOf
      <4> QED BY <4>1 DEF Path
    <3>2. CASE k = m
      <4>1. stack'[m] = d /\ m \in 1..m
        BY <1>12, <1>25
      <4>2. HeadOf(k)' = R[1] /\ L2[k] = R
        BY <1>11, <1>12, <1>13, <3>2, <4>1 DEF HeadOf
      <4> QED BY <1>10, <4>2
    <3>3. CASE k # InPending /\ k # m
      <4>1. HeadOf(k)' = HeadOf(k)
        <5>1. k \in 1..m <=> k \in 1..n
          BY <1>12, <1>25, <3>3 DEF Place
        <5>2. k \in 1..n => stack'[k].todo = stack[k].todo
          BY <1>12, <3>3, <5>1
        <5>3. Len(stack') = m /\ Len(stack) = n /\ free' = free
          BY <1>12 DEF n
        <5> QED BY <3>3, <5>1, <5>2, <5>3 DEF HeadOf
      <4>2. Path(next, L[k], HeadOf(k))
        BY <1>2, <2>1 DEF Holds, Led
      <4>3. \A e \in ToSet(L[k]) : next'[e] = next[e]
        BY <1>3, <1>4, <1>7, <1>10, <2>1, <3>3
      <4>4. L2[k] = L[k]
        BY <3>3
      <4>5. Path(next', L[k], HeadOf(k))
        BY <1>3, <4>2, <4>3, PathFrame
      <4> QED BY <4>1, <4>4, <4>5
    <3> QED BY <3>1, <3>2, <3>3
  <2>2. L2[InHand] = Filling(Top)'
    <3>1. L2[InHand] = L[InHand]
      BY <1>13, PlaceFacts
    <3>2. L[InHand] = Filling(Top)
      BY <1>2 DEF Holds, Led
    <3> QED BY <1>11, <1>12, <3>1, <3>2 DEF Filling
  <2> HIDE DEF L2
  <2> QED BY <2>1, <2>2 DEF Led
<1>16. \A e \in Entry : /\ W2[e] >= 0 <=> W[e] >= 0
                        /\ W[e] # InPending => W2[e] = W[e]
                        /\ W2[e] # InPending
  <2>1. m >= 0 /\ m # 0
    BY <1>12, <1>25
  <2> QED BY <1>13, <2>1, PlaceFacts
<1>17. handler' = handler /\ queued' = queued /\ nested' = nested /\ ran' = ran
  BY DEF calls
<1>18. Sorted(L2, W2)'
  <2>1. \A e \in Entry : W2[e] >= 0 => handler[e] \in 1..queued
    BY <1>2, <1>16 DEF Holds, Sorted
  <2>2. \A e, f \in Entry : W2[e] >= 0 /\ W2[f] >= 0 /\ handler[e] = handler[f] => e = f
    BY <1>2, <1>16 DEF Holds, Sorted
  <2>3. L2[InPending] = <<>>
    BY PlaceFacts
  <2>4. ASSUME NEW k \in Place, k > 0, NEW i \in 1..Len(L2[k]), NEW j \in 1..Len(L2[k]), i < j
        PROVE  handler[L2[k][i]] < handler[L2[k][j]]
    <3>1. CASE k = m
      <4>1. L2[k] = R
        BY <1>13, <3>1
      <4> DEFINE a == Len(P) - j + 1
                 b == Len(P) - i + 1
      <4>2. i \in 1..Len(P) /\ j \in 1..Len(P)
        BY <1>7, <4>1
      <4>3. a \in 1..Len(P) /\ b \in 1..Len(P) /\ a < b /\ R[i] = P[b] /\ R[j] = P[a]
        BY <1>6, <1>7, <2>4, <4>2
      <4> HIDE DEF a, b
      <4>4. handler[P[a]] > handler[P[b]]
        BY <1>2, <4>3 DEF Holds, Sorted, P
      <4>5. P[a] \in Entry /\ P[b] \in Entry
        BY <1>4, <4>3
      <4>6. handler[P[a]] \in Nat /\ handler[P[b]] \in Nat
        BY <1>1, <4>5 DEF Fields
      <4> QED BY <4>1, <4>3, <4>4, <4>6
    <3>2. CASE k # m
      <4>1. L2[k] = L[k]
        BY <2>4, <3>2, PlaceFacts
      <4> QED BY <1>2, <2>4, <4>1 DEF Holds, Sorted
    <3> QED BY <3>1, <3>2
  <2> HIDE DEF L2, W2
  <2>5. \A i, j \in 1..Len(L2[InPending]) : i < j => handler[L2[InPending][i]] > handler[L2[InPending][j]]
    BY <2>3
  <2> QED BY <1>17, <2>1, <2>2, <2>4, <2>5 DEF Sorted
<1>19. Spent(W2)'
  <2>1. ASSUME NEW e \in Entry, NEW r \in 1..Len(ran), W2[e] >= 0, handler[e] = ran[r]
        PROVE  W2[e] \in 1..m /\ stack'[W2[e]].todo = e /\ stack'[W2[e]].at # "run"
    <3>1. W[e] \in 1..n /\ stack[W[e]].todo = e /\ stack[W[e]].at # "run"
      BY <1>2, <1>16, <2>1 DEF Holds, Spent, n
    <3>2. W2[e] = W[e] /\ W[e] \in 1..m /\ W[e] # m
      BY <1>12, <1>16, <1>25, <3>1, PlaceFacts
    <3> QED BY <1>12, <3>1, <3>2
  <2>2. /\ \A r, q \in 1..Len(ran) : ran[r] = ran[q] => r = q
        /\ \A r \in 1..Len(ran) : ran[r] \in 1..queued
    BY <1>2 DEF Holds, Spent
  <2>3. Len(stack') = m
    BY <1>12
  <2> HIDE DEF W2
  <2> QED BY <1>17, <2>1, <2>2, <2>3 DEF Spent
<1>20. Newest(W2)'
  BY <1>11, <1>12 DEF Newest
<1> HIDE DEF W2, L2
<1>21. Kept(W2)'
  <2>1. ~Foreign(W2)'
    BY <1>16 DEF Foreign
  <2> QED BY <2>1 DEF Kept
<1>22. Labelled'
  <2>1. ASSUME NEW i \in 1..m
        PROVE  /\ i < m => stack'[i].at \notin Fillers
               /\ stack'[i].kind = "drain" <=> stack'[i].todo # Null
               /\ stack'[i].at = "run" => stack'[i].kind = "drain"
    <3>1. CASE i = m
      BY <1>9, <1>11, <1>12, <3>1
    <3>2. CASE i = n /\ i # m
      BY <1>1, <1>12, <3>2 DEF Labelled, Fillers, n
    <3>3. CASE i # n /\ i # m
      <4>1. i \in 1..n /\ i < n /\ stack'[i] = stack[i]
        BY <1>12, <1>25, <3>3
      <4> QED BY <1>1, <4>1 DEF Labelled, n
    <3> QED BY <3>1, <3>2, <3>3
  <2> QED BY <1>11, <1>12, <2>1 DEF Labelled, Fillers
<1>23. Fields'
  BY <1>1, <1>10, <1>17 DEF Fields
<1>24. Holds(L2, W2)'
  BY <1>14, <1>15, <1>18, <1>19, <1>20, <1>21 DEF Holds
<1> QED BY <1>22, <1>23, <1>24 DEF CInv

\* The running context goes on as c within the code it is in.
LEMMA LabelledOn ==
    ASSUME CInv, NEW c, stack' = WithTop(c), c.kind = Top.kind, c.kind = "drain" <=> c.todo # Null,
           c.at = "run" => c.kind = "drain", c.at \in Fillers => ~intr' /\ c.held > 0,
           c.at \notin {"got", "step"}
    PROVE  Labelled'
<1> DEFINE n == Len(stack)
<1>1. IInv /\ Labelled
  BY DEF CInv
<1>2. /\ Len(stack') = n /\ n \in Nat \ {0} /\ n \in 1..n /\ Top = stack[n] /\ Top' = c
      /\ \A i \in 1..n : stack'[i] = IF i = n THEN c ELSE stack[i]
  BY <1>1, GoneOn
<1> HIDE DEF n
<1>3. ASSUME NEW i \in 1..n
      PROVE  /\ i < n => stack'[i].at \notin Fillers
             /\ stack'[i].kind = "drain" <=> stack'[i].todo # Null
             /\ stack'[i].at = "run" => stack'[i].kind = "drain"
  <2>1. CASE i = n
    BY <1>2, <2>1
  <2>2. CASE i # n
    BY <1>1, <1>2, <2>2 DEF Labelled, n
  <2> QED BY <2>1, <2>2
<1> QED BY <1>2, <1>3 DEF Labelled

LEMMA KeptOn ==
    ASSUME CInv, NEW W, Kept(W), NEW c, stack' = WithTop(c), c.kind = Top.kind,
           Top.at # "exit", c.at \notin {"exit", "leave"},
           inIrq > 0 \/ crit > 0 => inIrq' > 0 \/ crit' > 0, NEW V, Foreign(V)' => Foreign(W)
    PROVE  Kept(V)'
<1> DEFINE n == Len(stack)
<1>1. IInv
  BY DEF CInv
<1>2. /\ Len(stack') = n /\ n \in Nat \ {0} /\ n \in 1..n /\ Top = stack[n] /\ Top' = c
      /\ \A i \in 1..n : stack'[i] = IF i = n THEN c ELSE stack[i]
  BY <1>1, GoneOn
<1> HIDE DEF n
<1> SUFFICES ASSUME Foreign(V)'
             PROVE  (inIrq' > 0 \/ crit' > 0) /\ \A i \in 1..n : Answers(stack', i)
  BY <1>2 DEF Kept
<1>3. Foreign(W) /\ (inIrq' > 0 \/ crit' > 0)
  BY DEF Kept
<1>4. ASSUME NEW i \in 1..n PROVE Answers(stack', i)
  <2>1. CASE i = n
    BY <1>2, <2>1 DEF Answers
  <2>2. CASE i # n
    <3>1. Answers(stack, i) /\ Len(stack) = n
      BY <1>3 DEF Kept, n
    <3>2. \A j \in 1..n : j # n => stack'[j] = stack[j]
      BY <1>2
    <3>3. stack'[n].kind = stack[n].kind /\ stack[n].at # "exit" /\ stack'[n].at # "exit"
      BY <1>2
    <3> QED BY <1>2, <2>2, <3>1, <3>2, <3>3, AnswersKept
  <2> QED BY <2>1, <2>2
<1> QED BY <1>3, <1>4

LEMMA ExitTrapStill ==
    ASSUME CInv, IInv', ExitTrap PROVE CInv'
<1> DEFINE c == [Top EXCEPT !.at = "exit"]
<1>1. /\ Top.at = "code" /\ Top.kind \in {"irq", "fault"} /\ ExecutePending(c)
      /\ UNCHANGED <<free, handler, heap, calls>>
  BY DEF ExitTrap, At, Kind
<1>2. HasFields(Top)
  BY TopFacts DEF CInv, IsContext
<1>3. c.kind = Top.kind /\ c.at = "exit" /\ c.todo = Top.todo
  BY <1>1, <1>2 DEF HasFields
<1> HIDE DEF c
<1>4. CASE pending # Null
  BY <1>1, <1>3, <1>4, DrainBegins
<1>5. CASE pending = Null
  <2>1. stack' = WithTop(c) /\ UNCHANGED <<entries, calls>>
    BY <1>1, <1>5 DEF ExecutePending, entries
  <2>2. PICK L, W : Holds(L, W)
    BY DEF CInv
  <2>3. ~Foreign(W)
    BY <1>5, <2>2, NonePending
  <2>4. Filling(c) = <<>> /\ Filling(Top) = <<>>
    BY <1>1, <1>3 DEF Filling
  <2> QED BY <1>1, <1>3, <2>1, <2>2, <2>3, <2>4, GoesOnStill DEF Fillers
<1> QED BY <1>4, <1>5

LEMMA LeaveStill ==
    ASSUME CInv, IInv', NEW l \in {"code", "queued"}, LeaveFrom(l) PROVE CInv'
<1> DEFINE c == [Top EXCEPT !.at = "leave", !.held = @ - 1, !.was = intr, !.entry = Null]
           d == [c EXCEPT !.at = "code"]
<1>1. Top.at = l /\ Top.held > 0 /\ inIrq' = inIrq /\ UNCHANGED <<free, handler, heap, calls>>
  BY DEF LeaveFrom, At
<1>2. HasFields(Top) /\ inIrq \in Nat /\ crit \in Nat
  BY TopFacts DEF CInv, IsContext
<1>3. /\ c.kind = Top.kind /\ c.todo = Top.todo /\ c.at = "leave"
      /\ d.kind = Top.kind /\ d.todo = Top.todo /\ d.at = "code"
  <2> DEFINE c1 == [Top EXCEPT !.at = "leave"]
             c2 == [c1 EXCEPT !.held = Top.held - 1]
             c3 == [c2 EXCEPT !.was = intr]
  <2>1. c = [c3 EXCEPT !.entry = Null]
    OBVIOUS
  <2>2. HasFields(c1) /\ c1.kind = Top.kind /\ c1.at = "leave" /\ c1.todo = Top.todo
    BY <1>2, AtSet DEF HasFields
  <2> HIDE DEF c, d, c1
  <2>3. HasFields(c2) /\ c2.kind = Top.kind /\ c2.at = "leave" /\ c2.todo = Top.todo
    BY <2>2, HeldSet DEF HasFields
  <2> HIDE DEF c2
  <2>4. HasFields(c3) /\ c3.kind = Top.kind /\ c3.at = "leave" /\ c3.todo = Top.todo
    BY <2>3, WasSet DEF HasFields
  <2> HIDE DEF c3
  <2>5. HasFields(c) /\ c.kind = Top.kind /\ c.at = "leave" /\ c.todo = Top.todo
    BY <2>1, <2>4, EntrySet DEF HasFields
  <2>6. d.kind = Top.kind /\ d.at = "code" /\ d.todo = Top.todo
    BY <2>5 DEF HasFields, d
  <2> QED BY <2>5, <2>6
<1>4. /\ crit > 1 => crit' = crit - 1 /\ stack' = WithTop(d) /\ UNCHANGED <<pending, next>>
      /\ ~(crit > 1) => IF inIrq = 0 THEN ExecutePending(c) ELSE stack' = WithTop(c) /\ UNCHANGED <<pending, next>>
  BY DEF LeaveFrom
<1> HIDE DEF c, d
<1>5. PICK L, W : Holds(L, W)
  BY DEF CInv
<1>6. Filling(c) = <<>> /\ Filling(Top) = <<>> /\ Filling(d) = <<>>
  BY <1>1, <1>3 DEF Filling
<1>7. Top.at \notin {"exit", "leave", "run"} /\ Top.at \in {"code", "queued"}
  BY <1>1
<1>8. CASE crit > 1
  <2>1. stack' = WithTop(d) /\ UNCHANGED <<entries, calls>> /\ crit' > 0
    BY <1>1, <1>2, <1>4, <1>8 DEF entries
  <2> QED BY <1>3, <1>5, <1>6, <1>7, <2>1, GoesOnStill DEF Fillers
<1>9. CASE ~(crit > 1) /\ inIrq = 0 /\ pending # Null
  BY <1>1, <1>3, <1>4, <1>7, <1>9, DrainBegins
<1>10. CASE ~(crit > 1) /\ inIrq = 0 /\ pending = Null
  <2>1. stack' = WithTop(c) /\ UNCHANGED <<entries, calls>>
    BY <1>1, <1>4, <1>10 DEF ExecutePending, entries
  <2>2. ~Foreign(W)
    BY <1>5, <1>10, NonePending
  <2> QED BY <1>3, <1>5, <1>6, <1>7, <2>1, <2>2, GoesOnStill DEF Fillers
<1>11. CASE ~(crit > 1) /\ inIrq # 0
  <2>1. stack' = WithTop(c) /\ UNCHANGED <<entries, calls>>
    BY <1>1, <1>4, <1>11 DEF entries
  <2>2. inIrq > 0 /\ inIrq' > 0
    BY <1>1, <1>2, <1>11
  <2> QED BY <1>3, <1>5, <1>6, <1>7, <2>1, <2>2, GoesOnStill DEF Fillers
<1> QED BY <1>8, <1>9, <1>10, <1>11

\* deferred_call_queue takes a context into the pool, or an entry from the heap.
LEMMA QueueStill ==
    ASSUME CInv, IInv', QueuesMasked, Queue PROVE CInv'
<1>1. Top.at = "code" /\ ~intr /\ crit' = crit + 1 /\ UNCHANGED <<intr, inIrq, free, pending, next, handler, calls>>
  BY DEF Queue, At
<1>2. HasFields(Top) /\ inIrq \in Nat /\ crit \in Nat /\ Top.held \in Nat /\ IInv /\ Fields /\ Labelled
  BY TopFacts DEF CInv, IsContext
<1>3. ASSUME NEW l, NEW e
      PROVE  LET c == [Top EXCEPT !.held = @ + 1, !.at = l, !.entry = e]
             IN  c.kind = Top.kind /\ c.todo = Top.todo /\ c.at = l /\ c.entry = e /\ c.held = Top.held + 1
  <2> DEFINE c1 == [Top EXCEPT !.held = @ + 1]
             c2 == [c1 EXCEPT !.at = l]
             c == [Top EXCEPT !.held = @ + 1, !.at = l, !.entry = e]
  <2>1. c = [c2 EXCEPT !.entry = e]
    OBVIOUS
  <2>2. HasFields(c1) /\ c1.kind = Top.kind /\ c1.held = Top.held + 1 /\ c1.todo = Top.todo
    BY <1>2, HeldSet DEF HasFields
  <2> HIDE DEF c, c1
  <2>3. HasFields(c2) /\ c2.kind = Top.kind /\ c2.held = Top.held + 1 /\ c2.at = l /\ c2.todo = Top.todo
    BY <2>2, AtSet DEF HasFields
  <2> HIDE DEF c2
  <2>4. /\ HasFields(c) /\ c.kind = Top.kind /\ c.held = Top.held + 1 /\ c.at = l /\ c.todo = Top.todo
        /\ c.entry = e
    BY <2>1, <2>3 DEF HasFields
  <2> QED BY <2>4 DEF c
<1>4. PICK L, W : Holds(L, W)
  BY DEF CInv
<1>5. crit' > 0 /\ Top.held + 1 > 0
  BY <1>1, <1>2
<1>6. CASE /\ free # Null /\ UNCHANGED heap
           /\ stack' = WithTop([Top EXCEPT !.held = @ + 1, !.at = "got", !.entry = free])
  <2> DEFINE c == [Top EXCEPT !.held = @ + 1, !.at = "got", !.entry = free]
  <2>1. c.kind = Top.kind /\ c.todo = Top.todo /\ c.at = "got" /\ c.entry = free /\ c.held = Top.held + 1
    BY <1>3
  <2>2. stack' = WithTop(c) /\ UNCHANGED <<entries, calls>>
    BY <1>1, <1>6 DEF entries
  <2> HIDE DEF c
  <2>3. Filling(c) = <<>> /\ Filling(Top) = <<>>
    BY <1>1, <2>1 DEF Filling
  <2> QED BY <1>1, <1>4, <1>5, <1>6, <2>1, <2>2, <2>3, GoesOnStill DEF Fillers
<1>7. ASSUME NEW e \in HeapEntry \ heap, heap' = heap \union {e},
             stack' = WithTop([Top EXCEPT !.held = @ + 1, !.at = "own", !.entry = e])
      PROVE  CInv'
  <2> DEFINE n == Len(stack)
             c == [Top EXCEPT !.held = @ + 1, !.at = "own", !.entry = e]
             L2 == [L EXCEPT ![InHand] = <<e>>]
             W2 == [W EXCEPT ![e] = InHand]
  <2>1. c.kind = Top.kind /\ c.todo = Top.todo /\ c.at = "own" /\ c.entry = e /\ c.held = Top.held + 1
    BY <1>3
  <2>2. stack' = WithTop(c)
    BY <1>7
  <2> HIDE DEF c
  <2>3. /\ Len(stack') = n /\ n \in Nat \ {0} /\ n \in 1..n /\ Top = stack[n] /\ Top' = c
        /\ \A i \in 1..n : stack'[i] = IF i = n THEN c ELSE stack[i]
    BY <1>2, <2>2, GoneOn
  <2> HIDE DEF n
  <2>4. /\ L \in [Place -> Seq(Entry)] /\ W \in [Entry -> Place \union {Nowhere}]
        /\ \A k \in Place : IsInjective(L[k]) /\ ToSet(L[k]) = {x \in Entry : W[x] = k}
        /\ \A x \in Entry : W[x] # Nowhere <=> x \in PoolEntry \union heap
        /\ ToSet(L[InPool]) \subseteq PoolEntry
    BY <1>4 DEF Holds, Located
  <2>5. e \in Entry /\ e \notin PoolEntry \union heap
    BY Entries
  <2>6. W[e] = Nowhere
    BY <2>4, <2>5
  <2>7. L[InHand] = <<>> /\ \A x \in Entry : W[x] # InHand
    <3>1. L[InHand] = <<>>
      BY <1>1, <1>4 DEF Holds, Led, Filling
    <3>2. ToSet(<<>>) = {}
      BY DEF ToSet
    <3> QED BY <2>4, <3>1, <3>2, PlaceFacts
  <2>8. Located(L2, W2, heap')
    <3>1. L2 \in [Place -> Seq(Entry)] /\ W2 \in [Entry -> Place \union {Nowhere}]
      <4>1. <<e>> \in Seq(Entry)
        BY <2>5
      <4>2. InHand \in Place
        BY PlaceFacts
      <4> QED BY <2>4, <4>1, <4>2
    <3>2. ASSUME NEW k \in Place PROVE IsInjective(L2[k]) /\ ToSet(L2[k]) = {x \in Entry : W2[x] = k}
      <4>1. CASE k = InHand
        <5>1. L2[k] = <<e>> /\ IsInjective(<<e>>) /\ ToSet(<<e>>) = {e}
          BY <2>4, <4>1 DEF IsInjective, ToSet
        <5>2. \A x \in Entry : W2[x] = k <=> x = e
          BY <2>4, <2>5, <2>7, <4>1
        <5> QED BY <2>5, <5>1, <5>2
      <4>2. CASE k # InHand
        <5>1. L2[k] = L[k]
          BY <2>4, <4>2
        <5>2. \A x \in Entry : W2[x] = k <=> W[x] = k
          BY <2>4, <2>5, <2>6, <4>2, PlaceFacts
        <5> QED BY <2>4, <5>1, <5>2
      <4> QED BY <4>1, <4>2
    <3>3. \A x \in Entry : W2[x] # Nowhere <=> x \in PoolEntry \union heap'
      BY <1>7, <2>4, <2>5, PlaceFacts
    <3>4. L2[InPool] = L[InPool]
      BY <2>4, PlaceFacts
    <3> HIDE DEF L2, W2
    <3> QED BY <2>4, <3>1, <3>2, <3>3, <3>4 DEF Located
  <2>9. \A k \in Place : k # InHand => L2[k] = L[k]
    BY <2>4
  <2>10. L2[InHand] = <<e>>
    BY <2>4, PlaceFacts
  <2>11. \A x \in Entry : (W2[x] >= 0 <=> W[x] >= 0) /\ (W[x] >= 0 => W2[x] = W[x]) /\ (W2[x] >= 0 => W2[x] = W[x])
    BY <2>4, <2>5, <2>6, PlaceFacts
  <2> HIDE DEF L2, W2
  <2>12. Led(L2)'
    <3>1. ASSUME NEW k \in Place, k # InHand PROVE Path(next', L2[k], HeadOf(k)')
      <4>1. HeadOf(k)' = HeadOf(k)
        BY <1>1, <2>1, <2>3 DEF HeadOf, n
      <4>2. Path(next, L[k], HeadOf(k))
        BY <1>4, <3>1 DEF Holds, Led
      <4> QED BY <1>1, <2>9, <3>1, <4>1, <4>2
    <3>2. L2[InHand] = Filling(Top)'
      BY <2>1, <2>3, <2>10 DEF Filling
    <3> QED BY <3>1, <3>2 DEF Led
  <2>13. UNCHANGED <<queued, nested, ran, handler, pending, next, free>>
    BY <1>1 DEF calls
  <2>14. Sorted(L2, W2)'
    <3>1. L2[InPending] = L[InPending] /\ \A k \in Place : k > 0 => L2[k] = L[k]
      BY <2>9, PlaceFacts
    <3> QED BY <1>4, <2>11, <2>13, <3>1 DEF Holds, Sorted
  <2>15. Spent(W2)'
    <3>1. ASSUME NEW x \in Entry, NEW r \in 1..Len(ran), W2[x] >= 0, handler[x] = ran[r]
          PROVE  W2[x] \in 1..n /\ stack'[W2[x]].todo = x /\ stack'[W2[x]].at # "run"
      <4>1. W2[x] = W[x] /\ W[x] \in 1..n /\ stack[W[x]].todo = x /\ stack[W[x]].at # "run"
        BY <1>4, <2>11, <3>1 DEF Holds, Spent, n
      <4> QED BY <2>1, <2>3, <4>1
    <3>2. /\ \A r, q \in 1..Len(ran) : ran[r] = ran[q] => r = q
          /\ \A r \in 1..Len(ran) : ran[r] \in 1..queued
      BY <1>4 DEF Holds, Spent
    <3>3. Len(stack') = n
      BY <2>3
    <3> QED BY <2>13, <3>1, <3>2, <3>3 DEF Spent
  <2>16. Newest(W2)'
    BY <2>1, <2>3 DEF Newest
  <2>17. Kept(W2)'
    <3>1. Foreign(W2)' => Foreign(W)
      BY <2>11, <2>13, PlaceFacts DEF Foreign
    <3>2. Kept(W) /\ Top.at # "exit" /\ c.at \notin {"exit", "leave"}
      BY <1>1, <1>4, <2>1 DEF Holds
    <3> QED BY <1>5, <2>1, <2>2, <3>1, <3>2, KeptOn
  <2>18. Labelled'
    <3>1. c.kind = "drain" <=> c.todo # Null
      BY <1>2, <2>1, <2>3 DEF Labelled, n
    <3> QED BY <1>1, <1>5, <2>1, <2>2, <3>1, LabelledOn
  <2>19. Fields'
    BY <1>2, <1>7, <2>13 DEF Fields
  <2>20. Holds(L2, W2)'
    BY <2>8, <2>12, <2>14, <2>15, <2>16, <2>17 DEF Holds
  <2> QED BY <2>18, <2>19, <2>20 DEF CInv
<1> QED BY <1>6, <1>7 DEF Queue

\* What is found in the places of the entries.
LEMMA LocatedFacts ==
    ASSUME NEW L, NEW W, Holds(L, W)
    PROVE  /\ L \in [Place -> Seq(Entry)] /\ W \in [Entry -> Place \union {Nowhere}]
           /\ \A k \in Place : IsInjective(L[k]) /\ ToSet(L[k]) = {x \in Entry : W[x] = k}
           /\ \A x \in Entry : W[x] # Nowhere <=> x \in PoolEntry \union heap
           /\ ToSet(L[InPool]) \subseteq PoolEntry
           /\ \A k \in Place : k # InHand => Path(next, L[k], HeadOf(k))
           /\ L[InHand] = Filling(Top)
BY DEF Holds, Located, Led

\* deferred_call_get_free has the entry for itself.
LEMMA GetFreeStoreStill ==
    ASSUME CInv, IInv', GetFreeStore PROVE CInv'
<1> DEFINE n == Len(stack)
           c == [Top EXCEPT !.at = "own", !.read = Null]
<1>1. /\ Top.at = "step" /\ stack' = WithTop(c) /\ free' = Top.read
      /\ UNCHANGED <<intr, inIrq, crit, pending, next, handler, heap, queued, nested, ran>>
  BY DEF GetFreeStore, At, levels, calls
<1>2. IInv /\ Fields /\ Labelled /\ HasFields(Top)
  BY TopFacts DEF CInv, IsContext
<1>3. /\ c.kind = Top.kind /\ c.at = "own" /\ c.todo = Top.todo /\ c.held = Top.held /\ c.entry = Top.entry
  BY <1>2 DEF HasFields
<1> HIDE DEF c
<1>4. ~intr /\ Top.held > 0 /\ free # Null /\ Top.entry = free /\ Top.read = next[free]
  BY <1>1, <1>2 DEF Labelled, Fillers
<1>5. /\ Len(stack') = n /\ n \in Nat \ {0} /\ n \in 1..n /\ Top = stack[n] /\ Top' = c
      /\ \A i \in 1..n : stack'[i] = IF i = n THEN c ELSE stack[i]
  BY <1>1, <1>2, GoneOn
<1> HIDE DEF n
<1>6. PICK L, W : Holds(L, W)
  BY DEF CInv
<1>7. PICK e : e = free
  OBVIOUS
<1> DEFINE F == L[InPool]
           L2 == [L EXCEPT ![InPool] = Tail(F), ![InHand] = <<e>>]
           W2 == [W EXCEPT ![e] = InHand]
<1>8. /\ L \in [Place -> Seq(Entry)] /\ W \in [Entry -> Place \union {Nowhere}]
      /\ \A k \in Place : IsInjective(L[k]) /\ ToSet(L[k]) = {x \in Entry : W[x] = k}
      /\ \A x \in Entry : W[x] # Nowhere <=> x \in PoolEntry \union heap
      /\ ToSet(L[InPool]) \subseteq PoolEntry
      /\ \A k \in Place : k # InHand => Path(next, L[k], HeadOf(k))
      /\ L[InHand] = Filling(Top)
  BY <1>6, LocatedFacts
<1>9. F \in Seq(Entry) /\ IsInjective(F) /\ ToSet(F) = {x \in Entry : W[x] = InPool} /\ Path(next, F, free)
  <2>1. HeadOf(InPool) = free
    BY DEF HeadOf
  <2> QED BY <1>8, <2>1, PlaceFacts
<1> HIDE DEF F
<1>10. Len(F) > 0 /\ e = F[1] /\ e \in Entry /\ e \in ToSet(F) /\ W[e] = InPool
  <2>1. free = F[1] /\ free \in Entry /\ free \in ToSet(F) /\ ~(Len(F) = 0)
    BY <1>4, <1>9, PathEnds
  <2>2. Len(F) \in Nat
    BY <1>9
  <2> QED BY <1>7, <1>9, <2>1, <2>2
<1>11. /\ Tail(F) \in Seq(Entry) /\ ToSet(Tail(F)) = ToSet(F) \ {e} /\ IsInjective(Tail(F))
       /\ Path(next, Tail(F), next[free])
  BY <1>9, <1>10, TailOf, PathTail
<1>12. L[InHand] = <<>> /\ \A x \in Entry : W[x] # InHand
  <2>1. L[InHand] = <<>>
    BY <1>1, <1>8 DEF Filling
  <2>2. ToSet(<<>>) = {}
    BY DEF ToSet
  <2> QED BY <1>8, <2>1, <2>2, PlaceFacts
<1>13. /\ L2[InPool] = Tail(F) /\ L2[InHand] = <<e>>
       /\ \A k \in Place : k \notin {InPool, InHand} => L2[k] = L[k]
       /\ W2[e] = InHand /\ \A x \in Entry : x # e => W2[x] = W[x]
       /\ L2 \in [Place -> Seq(Entry)] /\ W2 \in [Entry -> Place \union {Nowhere}]
  <2>1. InPool \in Place /\ InHand \in Place /\ InPool # InHand /\ <<e>> \in Seq(Entry)
    BY <1>10, PlaceFacts
  <2>2. DOMAIN L = Place /\ DOMAIN W = Entry
    BY <1>8
  <2>3. L2[InPool] = Tail(F) /\ L2[InHand] = <<e>> /\ \A k \in Place : k \notin {InPool, InHand} => L2[k] = L[k]
    BY <2>1, <2>2
  <2>4. L2 \in [Place -> Seq(Entry)]
    <3>1. L2 = [k \in Place |-> IF k = InHand THEN <<e>> ELSE IF k = InPool THEN Tail(F) ELSE L[k]]
      BY <2>1, <2>2
    <3> HIDE DEF L2
    <3> QED BY <1>8, <1>11, <2>1, <3>1
  <2>5. W2[e] = InHand /\ (\A x \in Entry : x # e => W2[x] = W[x]) /\ W2 \in [Entry -> Place \union {Nowhere}]
    BY <1>8, <1>10, <2>1
  <2> QED BY <2>3, <2>4, <2>5
<1> HIDE DEF L2, W2
<1>14. Located(L2, W2, heap')
  <2>1. ASSUME NEW k \in Place PROVE IsInjective(L2[k]) /\ ToSet(L2[k]) = {x \in Entry : W2[x] = k}
    <3>1. CASE k = InHand
      <4>1. L2[k] = <<e>> /\ IsInjective(<<e>>) /\ ToSet(<<e>>) = {e}
        BY <1>13, <3>1 DEF IsInjective, ToSet
      <4>2. \A x \in Entry : W2[x] = k <=> x = e
        BY <1>12, <1>13, <3>1
      <4> QED BY <1>10, <4>1, <4>2
    <3>2. CASE k = InPool
      <4>1. \A x \in Entry : W2[x] = k <=> W[x] = k /\ x # e
        <5>1. InPool # InHand
          BY PlaceFacts
        <5> QED BY <1>13, <3>2, <5>1
      <4> QED BY <1>9, <1>11, <1>13, <3>2, <4>1
    <3>3. CASE k # InHand /\ k # InPool
      <4>1. \A x \in Entry : W2[x] = k <=> W[x] = k
        BY <1>10, <1>13, <3>3
      <4> QED BY <1>8, <1>13, <3>3, <4>1
    <3> QED BY <3>1, <3>2, <3>3
  <2>2. \A x \in Entry : W2[x] # Nowhere <=> x \in PoolEntry \union heap'
    BY <1>1, <1>8, <1>10, <1>13, PlaceFacts
  <2>3. ToSet(L2[InPool]) \subseteq PoolEntry
    BY <1>8, <1>9, <1>11, <1>13 DEF F
  <2> QED BY <1>13, <2>1, <2>2, <2>3 DEF Located
<1>15. Led(L2)'
  <2>1. ASSUME NEW k \in Place, k # InHand PROVE Path(next', L2[k], HeadOf(k)')
    <3>1. CASE k = InPool
      <4>1. HeadOf(k)' = next[free]
        BY <1>1, <1>4, <3>1 DEF HeadOf
      <4> QED BY <1>1, <1>11, <1>13, <3>1, <4>1
    <3>2. CASE k # InPool
      <4>1. HeadOf(k)' = HeadOf(k)
        BY <1>1, <1>3, <1>5, <3>2 DEF HeadOf, n
      <4> QED BY <1>1, <1>8, <1>13, <2>1, <3>2, <4>1
    <3> QED BY <3>1, <3>2
  <2>2. L2[InHand] = Filling(Top)'
    BY <1>3, <1>4, <1>5, <1>7, <1>13 DEF Filling
  <2> QED BY <2>1, <2>2 DEF Led
<1>16. \A x \in Entry : (W2[x] >= 0 => W2[x] = W[x]) /\ (W[x] >= 0 => W2[x] = W[x])
  <2>1. ~(W2[e] >= 0) /\ ~(W[e] >= 0)
    BY <1>10, <1>13, PlaceFacts
  <2> QED BY <1>13, <2>1
<1>17. Sorted(L2, W2)'
  <2>1. L2[InPending] = L[InPending] /\ \A k \in Place : k > 0 => L2[k] = L[k]
    <3>1. InPending \in Place /\ InPending \notin {InPool, InHand}
      BY PlaceFacts
    <3>2. \A k \in Place : k > 0 => k \notin {InPool, InHand}
      BY PlaceFacts
    <3> QED BY <1>13, <3>1, <3>2
  <2> QED BY <1>1, <1>6, <1>16, <2>1 DEF Holds, Sorted
<1>18. Spent(W2)'
  <2>1. ASSUME NEW x \in Entry, NEW r \in 1..Len(ran), W2[x] >= 0, handler[x] = ran[r]
        PROVE  W2[x] \in 1..n /\ stack'[W2[x]].todo = x /\ stack'[W2[x]].at # "run"
    <3>1. W2[x] = W[x] /\ W[x] \in 1..n /\ stack[W[x]].todo = x /\ stack[W[x]].at # "run"
      BY <1>6, <1>16, <2>1 DEF Holds, Spent, n
    <3> QED BY <1>3, <1>5, <3>1
  <2>2. /\ \A r, q \in 1..Len(ran) : ran[r] = ran[q] => r = q
        /\ \A r \in 1..Len(ran) : ran[r] \in 1..queued
    BY <1>6 DEF Holds, Spent
  <2> QED BY <1>1, <1>5, <2>1, <2>2 DEF Spent
<1>19. Newest(W2)'
  BY <1>3, <1>5 DEF Newest
<1>20. Kept(W2)'
  <2>1. Foreign(W2)' => Foreign(W)
    BY <1>1, <1>16, PlaceFacts DEF Foreign
  <2>2. Kept(W) /\ Top.at # "exit" /\ c.at \notin {"exit", "leave"} /\ inIrq' = inIrq /\ crit' = crit
    BY <1>1, <1>3, <1>6 DEF Holds
  <2> QED BY <1>1, <1>3, <2>1, <2>2, KeptOn
<1>21. Labelled'
  <2>1. c.kind = "drain" <=> c.todo # Null
    BY <1>2, <1>3, <1>5 DEF Labelled, n
  <2> QED BY <1>1, <1>3, <1>4, <2>1, LabelledOn
<1>22. Fields'
  BY <1>1, <1>2 DEF Fields
<1>23. Holds(L2, W2)'
  BY <1>14, <1>15, <1>17, <1>18, <1>19, <1>20 DEF Holds
<1> QED BY <1>21, <1>22, <1>23 DEF CInv

\* deferred_call_queue_entry gives the entry its call and links it to the list.
LEMMA QueueEntryLinkStill ==
    ASSUME CInv, IInv', QueueEntryLink PROVE CInv'
<1> DEFINE n == Len(stack)
           c == [Top EXCEPT !.at = "linked"]
<1>1. /\ Top.at = "own" /\ stack' = WithTop(c) /\ queued' = queued + 1
      /\ next' = [next EXCEPT ![Top.entry] = pending]
      /\ handler' = [handler EXCEPT ![Top.entry] = queued + 1]
      /\ nested' = IF Top.kind = "drain" THEN nested \union {queued + 1} ELSE nested
      /\ UNCHANGED <<intr, inIrq, crit, free, pending, heap, ran>>
  BY DEF QueueEntryLink, At, Goto, Kind, levels
<1>2. IInv /\ Fields /\ Labelled /\ HasFields(Top)
  BY TopFacts DEF CInv, IsContext
<1>3. /\ c.kind = Top.kind /\ c.at = "linked" /\ c.todo = Top.todo /\ c.held = Top.held /\ c.entry = Top.entry
  BY <1>2 DEF HasFields
<1> HIDE DEF c
<1>4. ~intr /\ Top.held > 0
  BY <1>1, <1>2 DEF Labelled, Fillers
<1>5. /\ Len(stack') = n /\ n \in Nat \ {0} /\ n \in 1..n /\ Top = stack[n] /\ Top' = c
      /\ \A i \in 1..n : stack'[i] = IF i = n THEN c ELSE stack[i]
  BY <1>1, <1>2, GoneOn
<1> HIDE DEF n
<1>6. PICK L, W : Holds(L, W)
  BY DEF CInv
<1>7. PICK e : e = Top.entry
  OBVIOUS
<1>8. /\ L \in [Place -> Seq(Entry)] /\ W \in [Entry -> Place \union {Nowhere}]
      /\ \A k \in Place : IsInjective(L[k]) /\ ToSet(L[k]) = {x \in Entry : W[x] = k}
      /\ \A k \in Place : k # InHand => Path(next, L[k], HeadOf(k))
      /\ L[InHand] = Filling(Top)
  BY <1>6, LocatedFacts
<1>9. L[InHand] = <<e>> /\ e \in Entry /\ W[e] = InHand
  <2>1. L[InHand] = <<e>>
    BY <1>1, <1>7, <1>8 DEF Filling
  <2>2. ToSet(<<e>>) = {e}
    BY DEF ToSet
  <2>3. L[InHand] \in Seq(Entry) /\ ToSet(L[InHand]) = {x \in Entry : W[x] = InHand}
    BY <1>8, PlaceFacts
  <2>4. {e} = {x \in Entry : W[x] = InHand}
    BY <2>1, <2>2, <2>3
  <2> QED BY <2>1, <2>4
<1>10. /\ next' = [next EXCEPT ![e] = pending] /\ handler' = [handler EXCEPT ![e] = queued + 1]
       /\ next \in [Entry -> Entry \union {Null}] /\ handler \in [Entry -> Nat] /\ queued \in Nat
  BY <1>1, <1>2, <1>7 DEF Fields
<1>11. /\ next'[e] = pending /\ handler'[e] = queued + 1
       /\ \A x \in Entry : x # e => next'[x] = next[x] /\ handler'[x] = handler[x]
       /\ \A x \in Entry : W[x] >= 0 => x # e /\ handler'[x] = handler[x] /\ handler[x] \in 1..queued
  <2>1. \A x \in Entry : W[x] >= 0 => handler[x] \in 1..queued
    BY <1>6 DEF Holds, Sorted
  <2> QED BY <1>9, <1>10, <2>1, PlaceFacts
<1>12. Located(L, W, heap')
  BY <1>1, <1>6 DEF Holds
<1>13. Led(L)'
  <2>1. ASSUME NEW k \in Place, k # InHand PROVE Path(next', L[k], HeadOf(k)')
    <3>1. HeadOf(k)' = HeadOf(k)
      BY <1>1, <1>3, <1>5 DEF HeadOf, n
    <3>2. \A x \in ToSet(L[k]) : next'[x] = next[x]
      BY <1>8, <1>9, <1>11, <2>1
    <3>3. L[k] \in Seq(Entry) /\ Path(next, L[k], HeadOf(k))
      BY <1>8, <2>1
    <3> QED BY <3>1, <3>2, <3>3, PathFrame
  <2>2. L[InHand] = Filling(Top)'
    BY <1>3, <1>5, <1>7, <1>9 DEF Filling
  <2> QED BY <2>1, <2>2 DEF Led
<1>14. Sorted(L, W)'
  <2>1. \A x \in Entry : W[x] >= 0 => handler'[x] \in 1..queued'
    BY <1>1, <1>10, <1>11
  <2>2. \A x, y \in Entry : W[x] >= 0 /\ W[y] >= 0 /\ handler'[x] = handler'[y] => x = y
    BY <1>6, <1>11 DEF Holds, Sorted
  <2>3. ASSUME NEW k \in Place, k >= 0, NEW i \in 1..Len(L[k])
        PROVE  handler'[L[k][i]] = handler[L[k][i]]
    <3>1. L[k][i] \in ToSet(L[k])
      BY <1>8 DEF ToSet
    <3>2. L[k][i] \in Entry /\ W[L[k][i]] = k
      BY <1>8, <3>1
    <3> QED BY <1>11, <2>3, <3>2
  <2>4. ASSUME NEW i \in 1..Len(L[InPending]), NEW j \in 1..Len(L[InPending]), i < j
        PROVE  handler'[L[InPending][i]] > handler'[L[InPending][j]]
    <3>1. handler[L[InPending][i]] > handler[L[InPending][j]]
      BY <1>6, <2>4 DEF Holds, Sorted
    <3> QED BY <2>3, <3>1, PlaceFacts
  <2>5. ASSUME NEW k \in Place, k > 0, NEW i \in 1..Len(L[k]), NEW j \in 1..Len(L[k]), i < j
        PROVE  handler'[L[k][i]] < handler'[L[k][j]]
    <3>1. handler[L[k][i]] < handler[L[k][j]]
      BY <1>6, <2>5 DEF Holds, Sorted
    <3> QED BY <2>3, <2>5, <3>1, PlaceFacts
  <2> QED BY <2>1, <2>2, <2>4, <2>5 DEF Sorted
<1>15. \A r \in 1..Len(ran) : ran[r] \in 1..queued
  BY <1>6 DEF Holds, Spent
<1>16. Spent(W)'
  <2>1. ASSUME NEW x \in Entry, NEW r \in 1..Len(ran), W[x] >= 0, handler'[x] = ran[r]
        PROVE  W[x] \in 1..n /\ stack'[W[x]].todo = x /\ stack'[W[x]].at # "run"
    <3>1. W[x] \in 1..n /\ stack[W[x]].todo = x /\ stack[W[x]].at # "run"
      BY <1>6, <1>11, <2>1 DEF Holds, Spent, n
    <3> QED BY <1>3, <1>5, <3>1
  <2>2. /\ \A r, q \in 1..Len(ran) : ran[r] = ran[q] => r = q
        /\ \A r \in 1..Len(ran) : ran[r] \in 1..queued'
    BY <1>1, <1>6, <1>10, <1>15 DEF Holds, Spent
  <2> QED BY <1>1, <1>5, <2>1, <2>2 DEF Spent
<1>17. Newest(W)'
  <2>1. next'[Top'.entry] = pending' /\ handler'[Top'.entry] = queued' /\ queued' > 0
    BY <1>1, <1>3, <1>5, <1>7, <1>10, <1>11
  <2>2. \A d \in Entry : W[d] >= 0 => handler'[d] # queued'
    BY <1>1, <1>10, <1>11
  <2>3. \A r \in 1..Len(ran') : ran'[r] # queued'
    BY <1>1, <1>10, <1>15
  <2>4. Top'.kind = "drain" => queued' \in nested'
    BY <1>1, <1>3, <1>5
  <2> QED BY <2>1, <2>2, <2>3, <2>4 DEF Newest
<1>18. Kept(W)'
  <2>1. Foreign(W)' => Foreign(W)
    BY <1>1, <1>11, PlaceFacts DEF Foreign
  <2>2. Kept(W) /\ Top.at # "exit" /\ c.at \notin {"exit", "leave"} /\ inIrq' = inIrq /\ crit' = crit
    BY <1>1, <1>3, <1>6 DEF Holds
  <2> QED BY <1>1, <1>3, <2>1, <2>2, KeptOn
<1>19. Labelled'
  <2>1. c.kind = "drain" <=> c.todo # Null
    BY <1>2, <1>3, <1>5 DEF Labelled, n
  <2> QED BY <1>1, <1>3, <1>4, <2>1, LabelledOn
<1>20. Fields'
  <2>1. pending \in Entry \union {Null}
    <3>1. HeadOf(InPending) = pending /\ InPending \in Place /\ InPending # InHand
      BY PlaceFacts DEF HeadOf
    <3> QED BY <1>8, <3>1, PathEnds
  <2>2. next' \in [Entry -> Entry \union {Null}] /\ handler' \in [Entry -> Nat] /\ queued' \in Nat
    <3>1. queued + 1 \in Nat
      BY <1>10
    <3>2. next' \in [Entry -> Entry \union {Null}]
      BY <1>9, <1>10, <2>1
    <3>3. handler' \in [Entry -> Nat]
      BY <1>9, <1>10, <3>1
    <3> QED BY <1>1, <3>1, <3>2, <3>3
  <2> QED BY <1>1, <1>2, <2>2 DEF Fields
<1>21. Holds(L, W)'
  BY <1>12, <1>13, <1>14, <1>16, <1>17, <1>18 DEF Holds
<1> QED BY <1>19, <1>20, <1>21 DEF CInv

\* The store of m_pending_deferred_calls.
LEMMA QueueEntryStoreStill ==
    ASSUME CInv, IInv', QueueEntryStore PROVE CInv'
<1> DEFINE n == Len(stack)
           c == [Top EXCEPT !.at = "queued", !.entry = Null]
<1>1. /\ Top.at = "linked" /\ stack' = WithTop(c) /\ pending' = Top.entry
      /\ UNCHANGED <<intr, inIrq, crit, free, next, handler, heap, queued, nested, ran>>
  BY DEF QueueEntryStore, At, levels, calls
<1>2. IInv /\ Fields /\ Labelled /\ HasFields(Top) /\ crit \in Nat /\ Sections(Top) <= crit /\ Top.held \in Nat
  BY TopFacts DEF CInv, IsContext
<1>3. c.kind = Top.kind /\ c.at = "queued" /\ c.todo = Top.todo /\ c.held = Top.held
  BY <1>2 DEF HasFields
<1> HIDE DEF c
<1>4. ~intr /\ Top.held > 0 /\ crit > 0
  <2>1. ~intr /\ Top.held > 0
    BY <1>1, <1>2 DEF Labelled, Fillers
  <2>2. Sections(Top) = Top.held
    BY <1>1, <1>2 DEF Sections
  <2> QED BY <1>2, <2>1, <2>2
<1>5. /\ Len(stack') = n /\ n \in Nat \ {0} /\ n \in 1..n /\ Top = stack[n] /\ Top' = c
      /\ \A i \in 1..n : stack'[i] = IF i = n THEN c ELSE stack[i]
  BY <1>1, <1>2, GoneOn
<1> HIDE DEF n
<1>6. PICK L, W : Holds(L, W)
  BY DEF CInv
<1>7. PICK e : e = Top.entry
  OBVIOUS
<1> DEFINE P == L[InPending]
           L2 == [L EXCEPT ![InPending] = <<e>> \o P, ![InHand] = <<>>]
           W2 == [W EXCEPT ![e] = InPending]
<1>8. /\ L \in [Place -> Seq(Entry)] /\ W \in [Entry -> Place \union {Nowhere}]
      /\ \A k \in Place : IsInjective(L[k]) /\ ToSet(L[k]) = {x \in Entry : W[x] = k}
      /\ \A x \in Entry : W[x] # Nowhere <=> x \in PoolEntry \union heap
      /\ ToSet(L[InPool]) \subseteq PoolEntry
      /\ \A k \in Place : k # InHand => Path(next, L[k], HeadOf(k))
      /\ L[InHand] = Filling(Top)
  BY <1>6, LocatedFacts
<1>9. P \in Seq(Entry) /\ IsInjective(P) /\ ToSet(P) = {x \in Entry : W[x] = InPending} /\ Path(next, P, pending)
  <2>1. HeadOf(InPending) = pending /\ InPending \in Place /\ InPending # InHand
    BY PlaceFacts DEF HeadOf
  <2>2. Path(next, L[InPending], HeadOf(InPending))
    BY <1>8, <2>1
  <2>3. L[InPending] \in Seq(Entry)
    BY <1>8, <2>1
  <2>4. IsInjective(L[InPending]) /\ ToSet(L[InPending]) = {x \in Entry : W[x] = InPending}
    BY <1>8, <2>1
  <2> QED BY <2>1, <2>2, <2>3, <2>4
<1> HIDE DEF P
<1>10. L[InHand] = <<e>> /\ e \in Entry /\ \A x \in Entry : W[x] = InHand <=> x = e
  <2>1. L[InHand] = <<e>>
    BY <1>1, <1>7, <1>8 DEF Filling
  <2>2. ToSet(<<e>>) = {e}
    BY DEF ToSet
  <2>3. L[InHand] \in Seq(Entry) /\ ToSet(L[InHand]) = {x \in Entry : W[x] = InHand}
    BY <1>8, PlaceFacts
  <2>4. {e} = {x \in Entry : W[x] = InHand}
    BY <2>1, <2>2, <2>3
  <2> QED BY <2>1, <2>4
<1>11. W[e] = InHand /\ e \notin ToSet(P)
  BY <1>9, <1>10, PlaceFacts
<1>12. /\ next[e] = pending /\ handler[e] = queued /\ queued > 0 /\ queued \in Nat
       /\ \A d \in Entry : W[d] >= 0 => handler[d] # queued
       /\ \A r \in 1..Len(ran) : ran[r] # queued
       /\ Top.kind = "drain" => queued \in nested
  BY <1>1, <1>2, <1>6, <1>7 DEF Holds, Newest, Fields
<1> DEFINE Q == <<e>> \o P
<1>13. /\ Q \in Seq(Entry) /\ Len(Q) = Len(P) + 1 /\ Q[1] = e /\ ToSet(Q) = {e} \union ToSet(P) /\ IsInjective(Q)
       /\ \A i \in 2..Len(P) + 1 : Q[i] = P[i - 1]
       /\ Path(next, Q, e) /\ Len(P) \in Nat
  BY <1>9, <1>10, <1>11, <1>12, ConsOf, PathCons
<1>14. /\ L2[InPending] = Q /\ L2[InHand] = <<>>
       /\ \A k \in Place : k \notin {InPending, InHand} => L2[k] = L[k]
       /\ W2[e] = InPending /\ \A x \in Entry : x # e => W2[x] = W[x]
       /\ L2 \in [Place -> Seq(Entry)] /\ W2 \in [Entry -> Place \union {Nowhere}]
  <2> HIDE DEF Q
  <2>1. InPending \in Place /\ InHand \in Place /\ InPending # InHand /\ <<>> \in Seq(Entry)
    BY PlaceFacts
  <2>2. DOMAIN L = Place /\ DOMAIN W = Entry
    BY <1>8
  <2>3. L2 = [k \in Place |-> IF k = InHand THEN <<>> ELSE IF k = InPending THEN Q ELSE L[k]]
    BY <2>1, <2>2 DEF Q
  <2>4. W2 = [x \in Entry |-> IF x = e THEN InPending ELSE W[x]]
    BY <2>2
  <2> HIDE DEF L2, W2
  <2>5. L2 \in [Place -> Seq(Entry)]
    BY <1>8, <1>13, <2>1, <2>3
  <2>6. W2 \in [Entry -> Place \union {Nowhere}]
    BY <1>8, <2>1, <2>4
  <2> QED BY <1>10, <2>1, <2>3, <2>4, <2>5, <2>6
<1> HIDE DEF L2, W2, Q
<1>15. Located(L2, W2, heap')
  <2>1. ASSUME NEW k \in Place PROVE IsInjective(L2[k]) /\ ToSet(L2[k]) = {x \in Entry : W2[x] = k}
    <3>1. CASE k = InHand
      <4>1. L2[k] = <<>> /\ IsInjective(<<>>) /\ ToSet(<<>>) = {}
        BY <1>14, <3>1 DEF IsInjective, ToSet
      <4>2. ASSUME NEW x \in Entry PROVE W2[x] # k
        <5>1. InPending # InHand
          BY PlaceFacts
        <5>2. CASE x = e
          BY <1>14, <3>1, <5>1, <5>2
        <5>3. CASE x # e
          BY <1>10, <1>14, <3>1, <5>3
        <5> QED BY <5>2, <5>3
      <4> QED BY <4>1, <4>2
    <3>2. CASE k = InPending
      <4>1. \A x \in Entry : W2[x] = k <=> W[x] = k \/ x = e
        BY <1>14, <3>2
      <4> QED BY <1>9, <1>10, <1>13, <1>14, <3>2, <4>1
    <3>3. CASE k # InHand /\ k # InPending
      <4>1. \A x \in Entry : W2[x] = k <=> W[x] = k
        BY <1>11, <1>14, <3>3
      <4> QED BY <1>8, <1>14, <3>3, <4>1
    <3> QED BY <3>1, <3>2, <3>3
  <2>2. \A x \in Entry : W2[x] # Nowhere <=> x \in PoolEntry \union heap'
    <3>1. InPending # Nowhere /\ InHand # Nowhere
      BY PlaceFacts
    <3>2. \A x \in Entry : W2[x] # Nowhere <=> W[x] # Nowhere
      BY <1>11, <1>14, <3>1
    <3> QED BY <1>1, <1>8, <3>2
  <2>3. L2[InPool] = L[InPool]
    BY <1>14, PlaceFacts
  <2> QED BY <1>8, <1>14, <2>1, <2>2, <2>3 DEF Located
<1>16. Led(L2)'
  <2>1. ASSUME NEW k \in Place, k # InHand PROVE Path(next', L2[k], HeadOf(k)')
    <3>1. CASE k = InPending
      <4>1. HeadOf(k)' = e
        BY <1>1, <1>7, <3>1, PlaceFacts DEF HeadOf
      <4> QED BY <1>1, <1>13, <1>14, <3>1, <4>1
    <3>2. CASE k # InPending
      <4>1. HeadOf(k)' = HeadOf(k)
        BY <1>1, <1>3, <1>5, <3>2 DEF HeadOf, n
      <4> QED BY <1>1, <1>8, <1>14, <2>1, <3>2, <4>1
    <3> QED BY <3>1, <3>2
  <2>2. L2[InHand] = Filling(Top)'
    BY <1>3, <1>5, <1>14 DEF Filling
  <2> QED BY <2>1, <2>2 DEF Led
<1>17. /\ \A x \in Entry : x # e => W2[x] = W[x]
       /\ \A x \in Entry : W[x] >= 0 => handler[x] \in 1..queued /\ handler[x] # queued
  BY <1>6, <1>12, <1>14 DEF Holds, Sorted
<1>18. Sorted(L2, W2)'
  <2>1. \A x \in Entry : W2[x] >= 0 => handler[x] \in 1..queued
    BY <1>12, <1>17
  <2>2. \A x, y \in Entry : W2[x] >= 0 /\ W2[y] >= 0 /\ handler[x] = handler[y] => x = y
    <3>1. \A x, y \in Entry : W[x] >= 0 /\ W[y] >= 0 /\ handler[x] = handler[y] => x = y
      BY <1>6 DEF Holds, Sorted
    <3> QED BY <1>12, <1>17, <3>1
  <2>3. ASSUME NEW i \in 1..Len(Q), NEW j \in 1..Len(Q), i < j
        PROVE  handler[Q[i]] > handler[Q[j]]
    <3>1. j \in 2..Len(P) + 1 /\ j - 1 \in 1..Len(P)
      BY <1>13, <2>3
    <3>2. Q[j] = P[j - 1] /\ P[j - 1] \in ToSet(P)
      BY <1>9, <1>13, <3>1 DEF ToSet
    <3>3. Q[j] \in Entry /\ W[Q[j]] >= 0
      BY <1>9, <3>2, PlaceFacts
    <3>4. CASE i = 1
      BY <1>12, <1>13, <1>17, <3>3, <3>4
    <3>5. CASE i # 1
      <4>1. i \in 2..Len(P) + 1 /\ i - 1 \in 1..Len(P) /\ i - 1 < j - 1
        BY <1>13, <2>3, <3>1, <3>5
      <4>2. handler[P[i - 1]] > handler[P[j - 1]]
        BY <1>6, <3>1, <4>1 DEF Holds, Sorted, P
      <4> QED BY <1>13, <3>2, <4>1, <4>2
    <3> QED BY <3>4, <3>5
  <2>4. \A i, j \in 1..Len(L2[InPending]) : i < j => handler[L2[InPending][i]] > handler[L2[InPending][j]]
    BY <1>14, <2>3
  <2>5. \A k \in Place : k > 0 => L2[k] = L[k]
    BY <1>14, PlaceFacts
  <2>6. \A k \in Place : k > 0 => \A i, j \in 1..Len(L2[k]) : i < j => handler[L2[k][i]] < handler[L2[k][j]]
    BY <1>6, <2>5 DEF Holds, Sorted
  <2> QED BY <1>1, <2>1, <2>2, <2>4, <2>6 DEF Sorted
<1>19. Spent(W2)'
  <2>1. ASSUME NEW x \in Entry, NEW r \in 1..Len(ran), W2[x] >= 0, handler[x] = ran[r]
        PROVE  W2[x] \in 1..n /\ stack'[W2[x]].todo = x /\ stack'[W2[x]].at # "run"
    <3>1. x # e /\ W2[x] = W[x]
      BY <1>12, <1>17, <2>1
    <3>2. W[x] \in 1..n /\ stack[W[x]].todo = x /\ stack[W[x]].at # "run"
      BY <1>6, <2>1, <3>1 DEF Holds, Spent, n
    <3> QED BY <1>3, <1>5, <3>1, <3>2
  <2>2. /\ \A r, q \in 1..Len(ran) : ran[r] = ran[q] => r = q
        /\ \A r \in 1..Len(ran) : ran[r] \in 1..queued
    BY <1>6 DEF Holds, Spent
  <2> QED BY <1>1, <1>5, <2>1, <2>2 DEF Spent
<1>20. Newest(W2)'
  BY <1>3, <1>5 DEF Newest
<1>21. Kept(W2)'
  <2>1. CASE Top.kind = "drain"
    <3>1. Foreign(W2)' => Foreign(W)
      BY <1>1, <1>12, <1>17, <2>1 DEF Foreign
    <3>2. Kept(W) /\ Top.at # "exit" /\ c.at \notin {"exit", "leave"} /\ inIrq' = inIrq /\ crit' = crit
      BY <1>1, <1>3, <1>6 DEF Holds
    <3> QED BY <1>1, <1>3, <3>1, <3>2, KeptOn
  <2>2. CASE Top.kind # "drain"
    <3>1. ASSUME NEW i \in 1..n PROVE Answers(stack', i)
      <4>1. CASE i = n
        BY <1>3, <1>5, <4>1 DEF Answers
      <4>2. CASE i # n
        <5>1. Top.kind # "thread"
          <6>1. n # 1
            BY <1>5, <4>2
          <6> QED BY <1>2, <1>5, <6>1 DEF IInv, Stacked, n
        <5>2. Top.kind \in {"irq", "fault"}
          BY <1>2, <2>2, <5>1, TopFacts DEF IsContext, Kinds
        <5>3. n > i /\ stack'[n] = c
          BY <1>5, <4>2
        <5> QED BY <1>3, <1>5, <5>2, <5>3 DEF Answers, Covered
      <4> QED BY <4>1, <4>2
    <3>2. crit' > 0
      BY <1>1, <1>4
    <3> QED BY <1>5, <3>1, <3>2 DEF Kept
  <2> QED BY <2>1, <2>2
<1>22. Labelled'
  <2>1. c.kind = "drain" <=> c.todo # Null
    BY <1>2, <1>3, <1>5 DEF Labelled, n
  <2> QED BY <1>1, <1>3, <1>4, <2>1, LabelledOn DEF Fillers
<1>23. Fields'
  BY <1>1, <1>2 DEF Fields
<1>24. Holds(L2, W2)'
  BY <1>15, <1>16, <1>18, <1>19, <1>20, <1>21 DEF Holds
<1> QED BY <1>22, <1>23, <1>24 DEF CInv

\* The entry a drain is at is the first of its list.
LEMMA DrainAt ==
    ASSUME CInv, NEW L, NEW W, Holds(L, W), Top.kind = "drain"
    PROVE  LET n == Len(stack)
               e == Top.todo
           IN  /\ e \in Entry /\ W[e] = n /\ n \in Place /\ n > 0
               /\ L[n] \in Seq(Entry) /\ IsInjective(L[n]) /\ Len(L[n]) > 0 /\ L[n][1] = e
               /\ ToSet(L[n]) = {x \in Entry : W[x] = n} /\ Path(next, L[n], e)
<1> DEFINE n == Len(stack)
           e == Top.todo
<1>1. n \in Nat \ {0} /\ n \in 1..n /\ Top = stack[n]
  BY SharesOf DEF CInv, IInv, Top
<1>2. n \in Place /\ n > 0 /\ n # InHand /\ HeadOf(n) = e /\ e # Null
  BY <1>1, PlaceFacts DEF HeadOf, CInv, Labelled
<1> HIDE DEF n, e
<1>3. /\ L[n] \in Seq(Entry) /\ IsInjective(L[n])
      /\ ToSet(L[n]) = {x \in Entry : W[x] = n} /\ Path(next, L[n], e)
  BY <1>2, LocatedFacts
<1>4. e = L[n][1] /\ e \in Entry /\ e \in ToSet(L[n]) /\ Len(L[n]) # 0
  BY <1>2, <1>3, PathEnds
<1>5. Len(L[n]) \in Nat
  BY <1>3
<1> QED BY <1>1, <1>2, <1>3, <1>4, <1>5 DEF n, e

\* execute_pending invokes the call of the entry it is at.
LEMMA InvokeHandlerStill ==
    ASSUME CInv, IInv', InvokeHandler PROVE CInv'
<1> DEFINE n == Len(stack)
           c == [Top EXCEPT !.at = "code"]
<1>1. /\ Top.at = "run" /\ stack' = WithTop(c) /\ ran' = Append(ran, handler[Top.todo])
      /\ UNCHANGED <<entries, queued, nested, intr, inIrq, crit>>
  BY DEF InvokeHandler, At, Goto, levels
<1>2. IInv /\ Fields /\ Labelled /\ HasFields(Top)
  BY TopFacts DEF CInv, IsContext
<1>3. c.kind = Top.kind /\ c.at = "code" /\ c.todo = Top.todo
  BY <1>2 DEF HasFields
<1> HIDE DEF c
<1>4. /\ Len(stack') = n /\ n \in Nat \ {0} /\ n \in 1..n /\ Top = stack[n] /\ Top' = c
      /\ \A i \in 1..n : stack'[i] = IF i = n THEN c ELSE stack[i]
  BY <1>1, <1>2, GoneOn
<1>5. Top.kind = "drain"
  BY <1>1, <1>2, <1>4 DEF Labelled
<1> HIDE DEF n
<1>6. PICK L, W : Holds(L, W)
  BY DEF CInv
<1>7. PICK e : e = Top.todo
  OBVIOUS
<1>8. e \in Entry /\ W[e] = n
  BY <1>5, <1>6, <1>7, DrainAt DEF n
<1>9. UNCHANGED <<free, pending, next, handler, heap, queued, nested>>
  BY <1>1 DEF entries
<1>10. /\ Located(L, W, heap') /\ Led(L)' /\ Sorted(L, W)' /\ (Foreign(W)' => Foreign(W))
  <2>1. \A k \in Place : HeadOf(k)' = HeadOf(k)
    BY <1>3, <1>4, <1>9 DEF HeadOf, n
  <2>2. Filling(Top)' = Filling(Top)
    BY <1>1, <1>3, <1>4 DEF Filling
  <2> QED BY <1>1, <1>2, <1>6, <2>1, <2>2, Stays
<1>11. /\ \A x \in Entry : W[x] >= 0 => handler[x] \in 1..queued
       /\ \A x, y \in Entry : W[x] >= 0 /\ W[y] >= 0 /\ handler[x] = handler[y] => x = y
       /\ \A r, q \in 1..Len(ran) : ran[r] = ran[q] => r = q
       /\ \A r \in 1..Len(ran) : ran[r] \in 1..queued
       /\ \A x \in Entry, r \in 1..Len(ran) : W[x] >= 0 /\ handler[x] = ran[r] =>
              W[x] \in 1..n /\ stack[W[x]].todo = x /\ stack[W[x]].at # "run"
  BY <1>6 DEF Holds, Sorted, Spent, n
<1>12. ran \in Seq(Nat) /\ handler[e] \in Nat /\ Len(ran) \in Nat /\ W[e] >= 0
  BY <1>2, <1>4, <1>8 DEF Fields
<1>13. /\ ran' \in Seq(Nat) /\ Len(ran') = Len(ran) + 1
       /\ \A r \in 1..Len(ran) + 1 : ran'[r] = IF r = Len(ran) + 1 THEN handler[e] ELSE ran[r]
  BY <1>1, <1>7, <1>12
<1>14. \A r \in 1..Len(ran) : ran[r] # handler[e]
  BY <1>1, <1>4, <1>8, <1>11, <1>12
<1>15. Spent(W)'
  <2>1. ASSUME NEW r \in 1..Len(ran) + 1, NEW q \in 1..Len(ran) + 1, ran'[r] = ran'[q] PROVE r = q
    <3>1. r # Len(ran) + 1 => r \in 1..Len(ran)
      BY <1>12
    <3>2. q # Len(ran) + 1 => q \in 1..Len(ran)
      BY <1>12
    <3> QED BY <1>11, <1>13, <1>14, <2>1, <3>1, <3>2
  <2>2. ASSUME NEW r \in 1..Len(ran) + 1 PROVE ran'[r] \in 1..queued
    <3>1. r # Len(ran) + 1 => r \in 1..Len(ran)
      BY <1>12
    <3> QED BY <1>8, <1>11, <1>12, <1>13, <3>1
  <2>3. ASSUME NEW x \in Entry, NEW r \in 1..Len(ran) + 1, W[x] >= 0, handler[x] = ran'[r]
        PROVE  W[x] \in 1..n /\ stack'[W[x]].todo = x /\ stack'[W[x]].at # "run"
    <3>1. CASE r = Len(ran) + 1
      <4>1. x = e
        BY <1>8, <1>11, <1>12, <1>13, <2>3, <3>1
      <4> QED BY <1>3, <1>4, <1>7, <1>8, <4>1
    <3>2. CASE r # Len(ran) + 1
      <4>1. r \in 1..Len(ran) /\ ran'[r] = ran[r]
        BY <1>12, <1>13, <3>2
      <4>2. W[x] \in 1..n /\ stack[W[x]].todo = x /\ stack[W[x]].at # "run"
        BY <1>11, <2>3, <4>1
      <4> QED BY <1>3, <1>4, <4>2
    <3> QED BY <3>1, <3>2
  <2> QED BY <1>4, <1>9, <1>13, <2>1, <2>2, <2>3 DEF Spent
<1>16. Newest(W)'
  BY <1>3, <1>4 DEF Newest
<1>17. Kept(W)'
  <2>1. Kept(W) /\ Top.at # "exit" /\ c.at \notin {"exit", "leave"} /\ inIrq' = inIrq /\ crit' = crit
    BY <1>1, <1>3, <1>6 DEF Holds
  <2> QED BY <1>1, <1>3, <1>10, <2>1, KeptOn
<1>18. Labelled'
  <2>1. c.kind = "drain" <=> c.todo # Null
    BY <1>2, <1>3, <1>4 DEF Labelled, n
  <2> QED BY <1>1, <1>3, <2>1, LabelledOn DEF Fillers
<1>19. Fields'
  BY <1>2, <1>9, <1>13 DEF Fields
<1>20. Holds(L, W)'
  BY <1>10, <1>15, <1>16, <1>17 DEF Holds
<1> QED BY <1>18, <1>19, <1>20 DEF CInv

GivesBack(e) ==
    /\ handler' = [handler EXCEPT ![e] = Empty]
    /\ IF e \in HeapEntry
       THEN heap' = heap \ {e} /\ UNCHANGED <<next, free>>
       ELSE next' = [next EXCEPT ![e] = free] /\ free' = e /\ UNCHANGED heap

\* A call that is done leaves its entry to the pool or the heap, and the drain at the
\* rest of its list.
LEMMA Returned ==
    ASSUME CInv, NEW L, NEW W, Holds(L, W), Top.kind = "drain",
           NEW n, n = Len(stack), NEW e, e = Top.todo,
           GivesBack(e),
           UNCHANGED <<pending, queued, nested, ran>>,
           HeadOf(n)' = next[e],
           \A k \in Place : k \notin {n, InPool} => HeadOf(k)' = HeadOf(k),
           Filling(Top) = <<>>, Filling(Top)' = <<>>
    PROVE  /\ Fields'
           /\ \E L2, W2 : /\ Located(L2, W2, heap') /\ Led(L2)' /\ Sorted(L2, W2)'
                          /\ Foreign(W2)' => Foreign(W)
                          /\ \A x \in Entry : W2[x] >= 0 => x # e /\ W2[x] = W[x]
<1>1. /\ e \in Entry /\ W[e] = n /\ n \in Place /\ n > 0
      /\ L[n] \in Seq(Entry) /\ IsInjective(L[n]) /\ Len(L[n]) > 0 /\ L[n][1] = e
      /\ ToSet(L[n]) = {x \in Entry : W[x] = n} /\ Path(next, L[n], e)
  BY DrainAt
<1>2. /\ L \in [Place -> Seq(Entry)] /\ W \in [Entry -> Place \union {Nowhere}]
      /\ \A k \in Place : IsInjective(L[k]) /\ ToSet(L[k]) = {x \in Entry : W[x] = k}
      /\ \A x \in Entry : W[x] # Nowhere <=> x \in PoolEntry \union heap
      /\ ToSet(L[InPool]) \subseteq PoolEntry
      /\ \A k \in Place : k # InHand => Path(next, L[k], HeadOf(k))
      /\ L[InHand] = Filling(Top)
  BY LocatedFacts
<1>3. n # InPool /\ n # InPending /\ n # InHand /\ InPool \in Place /\ InHand \in Place /\ InPending \in Place
      /\ InPool # InHand /\ InPool # InPending /\ InPool # Nowhere /\ ~(InPool >= 0) /\ ~(Nowhere >= 0)
      /\ InPending >= 0 /\ Nowhere \notin Place
  BY <1>1, PlaceFacts
<1>4. IInv /\ Fields
  BY DEF CInv
<1>5. PICK toHeap \in BOOLEAN : toHeap <=> e \in HeapEntry
  OBVIOUS
<1> DEFINE P == L[InPool]
           T == Tail(L[n])
           Q == <<e>> \o P
           L2 == [k \in Place |-> IF k = n THEN T ELSE IF k = InPool /\ ~toHeap THEN Q ELSE L[k]]
           W2 == [x \in Entry |-> IF x = e THEN (IF toHeap THEN Nowhere ELSE InPool) ELSE W[x]]
<1>6. /\ T \in Seq(Entry) /\ ToSet(T) = ToSet(L[n]) \ {e} /\ IsInjective(T) /\ Len(T) = Len(L[n]) - 1
      /\ \A i \in 1..Len(L[n]) - 1 : T[i] = L[n][i + 1]
      /\ Path(next, T, next[e])
  BY <1>1, TailOf, PathTail
<1>7. P \in Seq(Entry) /\ IsInjective(P) /\ ToSet(P) = {x \in Entry : W[x] = InPool} /\ Path(next, P, free)
  <2>1. HeadOf(InPool) = free
    BY DEF HeadOf
  <2>2. Path(next, L[InPool], HeadOf(InPool))
    BY <1>2, <1>3
  <2>3. L[InPool] \in Seq(Entry)
    BY <1>2, <1>3
  <2>4. IsInjective(L[InPool]) /\ ToSet(L[InPool]) = {x \in Entry : W[x] = InPool}
    BY <1>2, <1>3
  <2> QED BY <2>1, <2>2, <2>3, <2>4
<1>8. e \notin ToSet(P)
  BY <1>1, <1>3, <1>7
<1>9. Q \in Seq(Entry) /\ IsInjective(Q) /\ ToSet(Q) = {e} \union ToSet(P)
  BY <1>1, <1>7, <1>8, ConsOf
<1>10. /\ \A x \in Entry : x # e => next'[x] = next[x] /\ handler'[x] = handler[x]
       /\ handler'[e] = Empty
       /\ toHeap => next' = next /\ free' = free /\ heap' = heap \ {e}
       /\ ~toHeap => next'[e] = free /\ free' = e /\ heap' = heap
  <2>1. next \in [Entry -> Entry \union {Null}] /\ handler \in [Entry -> Nat]
    BY <1>4 DEF Fields
  <2> QED BY <1>1, <1>5, <2>1 DEF GivesBack
<1>11. /\ \A k \in Place : k # n /\ k # InPool => L2[k] = L[k]
       /\ L2[n] = T /\ L2[InPool] = (IF toHeap THEN P ELSE Q)
       /\ L2 \in [Place -> Seq(Entry)]
  <2>1. ASSUME NEW k \in Place PROVE L2[k] \in Seq(Entry)
    <3> HIDE DEF T, Q
    <3>1. L2[k] = IF k = n THEN T ELSE IF k = InPool /\ ~toHeap THEN Q ELSE L[k]
      OBVIOUS
    <3> HIDE DEF L2
    <3> QED BY <1>2, <1>6, <1>9, <3>1
  <2> HIDE DEF T, Q
  <2> QED BY <1>1, <1>3, <2>1
<1>12. /\ \A x \in Entry : x # e => W2[x] = W[x]
       /\ W2[e] = IF toHeap THEN Nowhere ELSE InPool
       /\ W2 \in [Entry -> Place \union {Nowhere}]
  BY <1>1, <1>2, <1>3
<1> HIDE DEF L2, W2, T, P, Q
<1>13. Located(L2, W2, heap')
  <2>1. ASSUME NEW k \in Place PROVE IsInjective(L2[k]) /\ ToSet(L2[k]) = {x \in Entry : W2[x] = k}
    <3>1. CASE k = n
      <4>1. \A x \in Entry : W2[x] = k <=> W[x] = k /\ x # e
        BY <1>3, <1>12, <3>1
      <4> QED BY <1>1, <1>6, <1>11, <3>1, <4>1
    <3>2. CASE k = InPool /\ ~toHeap
      <4>1. \A x \in Entry : W2[x] = k <=> W[x] = k \/ x = e
        BY <1>12, <3>2
      <4> QED BY <1>1, <1>7, <1>9, <1>11, <3>2, <4>1
    <3>3. CASE k # n /\ (k # InPool \/ toHeap)
      <4>1. W2[e] # k /\ W[e] # k
        BY <1>1, <1>3, <1>12, <3>3
      <4>2. \A x \in Entry : W2[x] = k <=> W[x] = k
        BY <1>12, <4>1
      <4>3. L2[k] = L[k]
        BY <1>11, <3>3 DEF P
      <4> QED BY <1>2, <4>2, <4>3
    <3> QED BY <3>1, <3>2, <3>3
  <2>2. ASSUME NEW x \in Entry PROVE W2[x] # Nowhere <=> x \in PoolEntry \union heap'
    <3>1. CASE x # e
      BY <1>2, <1>10, <1>12, <3>1
    <3>2. CASE x = e
      <4>1. e \in PoolEntry <=> ~toHeap
        BY <1>1, <1>5, Entries DEF Entry
      <4> QED BY <1>3, <1>10, <1>12, <3>2, <4>1
    <3> QED BY <3>1, <3>2
  <2>3. ToSet(L2[InPool]) \subseteq PoolEntry
    <3>1. ~toHeap => e \in PoolEntry
      BY <1>1, <1>5 DEF Entry
    <3>2. ToSet(P) \subseteq PoolEntry
      BY <1>2 DEF P
    <3> QED BY <1>9, <1>11, <3>1, <3>2
  <2> QED BY <1>11, <1>12, <2>1, <2>2, <2>3 DEF Located
<1>14. Led(L2)'
  <2>1. ASSUME NEW k \in Place, k # InHand PROVE Path(next', L2[k], HeadOf(k)')
    <3>1. CASE k = n
      <4>1. \A x \in ToSet(T) : next'[x] = next[x]
        BY <1>1, <1>6, <1>10
      <4>2. Path(next', T, next[e])
        BY <1>6, <4>1, PathFrame
      <4> QED BY <1>11, <3>1, <4>2
    <3>2. CASE k = InPool
      <4>1. HeadOf(k)' = free'
        BY <3>2 DEF HeadOf
      <4>2. \A x \in ToSet(P) : next'[x] = next[x]
        BY <1>7, <1>8, <1>10
      <4>3. Path(next', P, free)
        BY <1>7, <4>2, PathFrame
      <4>4. CASE toHeap
        BY <1>10, <1>11, <3>2, <4>1, <4>3, <4>4
      <4>5. CASE ~toHeap
        <5>1. Path(next', Q, e)
          BY <1>1, <1>7, <1>10, <4>3, <4>5, PathCons DEF Q
        <5> QED BY <1>10, <1>11, <3>2, <4>1, <4>5, <5>1
      <4> QED BY <4>4, <4>5
    <3>3. CASE k # n /\ k # InPool
      <4>1. HeadOf(k)' = HeadOf(k)
        BY <3>3
      <4>2. Path(next, L[k], HeadOf(k)) /\ L[k] \in Seq(Entry)
        BY <1>2, <2>1
      <4>3. e \notin ToSet(L[k]) /\ \A x \in ToSet(L[k]) : x \in Entry
        BY <1>1, <1>2, <3>3
      <4>4. Path(next', L[k], HeadOf(k))
        BY <1>10, <4>2, <4>3, PathFrame
      <4> QED BY <1>11, <3>3, <4>1, <4>4
    <3> QED BY <3>1, <3>2, <3>3
  <2>2. L2[InHand] = Filling(Top)'
    BY <1>2, <1>3, <1>11
  <2> QED BY <2>1, <2>2 DEF Led
<1>15. ASSUME NEW x \in Entry, W2[x] >= 0 PROVE x # e /\ W2[x] = W[x] /\ handler'[x] = handler[x]
  BY <1>3, <1>10, <1>12, <1>15
<1>16. ASSUME NEW k \in Place, k >= 0, NEW i \in 1..Len(L2[k])
       PROVE  L2[k][i] \in Entry /\ handler'[L2[k][i]] = handler[L2[k][i]]
  <2>1. L2[k] \in Seq(Entry)
    BY <1>11
  <2>2. L2[k][i] \in Entry /\ L2[k][i] \in ToSet(L2[k])
    BY <2>1 DEF ToSet
  <2>3. W2[L2[k][i]] = k
    BY <1>13, <2>2 DEF Located
  <2> QED BY <1>15, <1>16, <2>2, <2>3
<1>17. /\ \A x \in Entry : W[x] >= 0 => handler[x] \in 1..queued
       /\ \A x, y \in Entry : W[x] >= 0 /\ W[y] >= 0 /\ handler[x] = handler[y] => x = y
       /\ \A i, j \in 1..Len(L[InPending]) : i < j => handler[L[InPending][i]] > handler[L[InPending][j]]
       /\ \A k \in Place : k > 0 => \A i, j \in 1..Len(L[k]) : i < j => handler[L[k][i]] < handler[L[k][j]]
  BY DEF Holds, Sorted
<1>18. Sorted(L2, W2)'
  <2>1. \A x \in Entry : W2[x] >= 0 => handler'[x] \in 1..queued
    BY <1>15, <1>17
  <2>2. \A x, y \in Entry : W2[x] >= 0 /\ W2[y] >= 0 /\ handler'[x] = handler'[y] => x = y
    BY <1>15, <1>17
  <2>3. ASSUME NEW i \in 1..Len(L2[InPending]), NEW j \in 1..Len(L2[InPending]), i < j
        PROVE  handler'[L2[InPending][i]] > handler'[L2[InPending][j]]
    <3>1. L2[InPending] = L[InPending]
      BY <1>3, <1>11
    <3>2. handler[L[InPending][i]] > handler[L[InPending][j]]
      BY <1>17, <2>3, <3>1
    <3>3. /\ handler'[L2[InPending][i]] = handler[L2[InPending][i]]
          /\ handler'[L2[InPending][j]] = handler[L2[InPending][j]]
      BY <1>3, <1>16
    <3> QED BY <3>1, <3>2, <3>3
  <2>4. ASSUME NEW k \in Place, k > 0, NEW i \in 1..Len(L2[k]), NEW j \in 1..Len(L2[k]), i < j
        PROVE  handler'[L2[k][i]] < handler'[L2[k][j]]
    <3>1. handler'[L2[k][i]] = handler[L2[k][i]] /\ handler'[L2[k][j]] = handler[L2[k][j]]
      <4>1. k >= 0
        BY <2>4, PlaceFacts
      <4> QED BY <1>16, <4>1
    <3>2. handler[L2[k][i]] < handler[L2[k][j]]
      <4>1. CASE k # n
        <5>1. L2[k] = L[k]
          BY <1>11, <2>4, <4>1, PlaceFacts
        <5> QED BY <1>17, <2>4, <5>1
      <4>2. CASE k = n
        <5> DEFINE S == L[n]
        <5>1. L2[k] = T /\ S \in Seq(Entry) /\ Len(S) \in Nat /\ Len(T) = Len(S) - 1
              /\ \A a \in 1..Len(S) - 1 : T[a] = S[a + 1]
          BY <1>1, <1>6, <1>11, <4>2
        <5>2. \A a, b \in 1..Len(S) : a < b => handler[S[a]] < handler[S[b]]
          BY <1>1, <1>17
        <5> HIDE DEF S
        <5>3. i + 1 \in 1..Len(S) /\ j + 1 \in 1..Len(S) /\ i + 1 < j + 1
              /\ i \in 1..Len(S) - 1 /\ j \in 1..Len(S) - 1
          BY <2>4, <5>1
        <5>4. handler[S[i + 1]] < handler[S[j + 1]]
          BY <5>2, <5>3
        <5> QED BY <5>1, <5>3, <5>4
      <4> QED BY <4>1, <4>2
    <3> QED BY <3>1, <3>2
  <2> QED BY <2>1, <2>2, <2>3, <2>4 DEF Sorted
<1>19. Foreign(W2)' => Foreign(W)
  BY <1>3, <1>15 DEF Foreign
<1>20. Fields'
  <2>1. next \in [Entry -> Entry \union {Null}] /\ handler \in [Entry -> Nat] /\ heap \subseteq HeapEntry
        /\ queued \in Nat /\ ran \in Seq(Nat)
    BY <1>4 DEF Fields
  <2>2. free \in Entry \union {Null}
    BY <1>7, PathEnds
  <2>3. next' \in [Entry -> Entry \union {Null}] /\ heap' \subseteq HeapEntry
    BY <1>1, <1>5, <2>1, <2>2 DEF GivesBack
  <2>4. handler' \in [Entry -> Nat]
    BY <1>1, <2>1 DEF Empty, GivesBack
  <2> QED BY <2>1, <2>3, <2>4 DEF Fields
<1> QED BY <1>13, <1>14, <1>15, <1>18, <1>19, <1>20

\* Calls that were run are those of entries gone, or of what the drains below are at.
LEMMA ReturnedSpent ==
    ASSUME NEW W, Spent(W), NEW V, NEW n, n = Len(stack), NEW e, e = Top.todo, e \in Entry, Top = stack[n],
           GivesBack(e), handler \in [Entry -> Nat], UNCHANGED <<queued, ran>>,
           \A x \in Entry : V[x] >= 0 => x # e /\ V[x] = W[x],
           \A i \in 1..n : i # n => i \in 1..Len(stack') /\ stack'[i] = stack[i]
    PROVE  Spent(V)'
<1>1. \A x \in Entry : x # e => handler'[x] = handler[x]
  BY DEF GivesBack
<1>2. /\ \A r, q \in 1..Len(ran) : ran[r] = ran[q] => r = q
      /\ \A r \in 1..Len(ran) : ran[r] \in 1..queued
  BY DEF Spent
<1>3. ASSUME NEW x \in Entry, NEW r \in 1..Len(ran), V[x] >= 0, handler'[x] = ran[r]
      PROVE  V[x] \in 1..Len(stack') /\ stack'[V[x]].todo = x /\ stack'[V[x]].at # "run"
  <2>1. x # e /\ V[x] = W[x] /\ handler[x] = ran[r]
    BY <1>1, <1>3
  <2>2. W[x] \in 1..n /\ stack[W[x]].todo = x /\ stack[W[x]].at # "run"
    BY <1>3, <2>1 DEF Spent
  <2>3. W[x] # n
    BY <2>1, <2>2
  <2> QED BY <2>1, <2>2, <2>3
<1> QED BY <1>2, <1>3 DEF Spent

\* execute_pending goes on to the next entry, or returns.
LEMMA HandlerReturnsStill ==
    ASSUME CInv, IInv', HandlerReturns PROVE CInv'
<1>1. PICK n, e : n = Len(stack) /\ e = Top.todo
  OBVIOUS
<1>2. /\ Top.at = "code" /\ Top.kind = "drain"
      /\ handler' = [handler EXCEPT ![e] = Empty]
      /\ IF e \in HeapEntry
         THEN heap' = heap \ {e} /\ UNCHANGED <<next, free>>
         ELSE next' = [next EXCEPT ![e] = free] /\ free' = e /\ UNCHANGED heap
      /\ AdvanceTo(next[e])
      /\ UNCHANGED <<intr, inIrq, crit, pending, queued, nested, ran>>
  BY <1>1 DEF HandlerReturns, At, Kind, levels, calls
<1>3. IInv /\ Fields /\ Labelled /\ HasFields(Top)
  BY TopFacts DEF CInv, IsContext
<1>4. PICK L, W : Holds(L, W)
  BY DEF CInv
<1>5. e \in Entry /\ n \in Nat \ {0} /\ n \in 1..n /\ Top = stack[n]
  BY <1>1, <1>2, <1>3, <1>4, DrainAt, SharesOf DEF IInv, Top
<1>6. Filling(Top) = <<>>
  BY <1>2 DEF Filling
<1>9. UNCHANGED <<pending, queued, nested, ran>> /\ UNCHANGED <<queued, ran>>
  BY <1>2
<1>10. GivesBack(e) /\ handler \in [Entry -> Nat]
  BY <1>2, <1>3 DEF Fields, GivesBack
<1>12. Spent(W)
  BY <1>4 DEF Holds
<1>13. n = Len(stack) /\ e = Top.todo /\ Top.kind = "drain"
  BY <1>1, <1>2
<1>7. CASE next[e] = Null
  <2>1. stack' = Front(stack)
    BY <1>2, <1>7 DEF AdvanceTo
  <2>2. /\ Len(stack') = n - 1 /\ n # 1 /\ Top' = stack[n - 1]
        /\ \A i \in 1..n - 1 : stack'[i] = stack[i]
    BY <1>1, <1>2, <1>3, <2>1, ShrankBy
  <2>3. stack[n - 1].at \notin Fillers /\ n - 1 \in 1..n /\ n - 1 \in 1..n - 1
    BY <1>1, <1>3, <1>5, <2>2 DEF Labelled
  <2>4. HeadOf(n)' = next[e]
    <3>1. n # InPool /\ n # InPending /\ n \notin 1..n - 1
      BY <1>5, PlaceFacts
    <3> QED BY <1>7, <2>2, <3>1 DEF HeadOf
  <2>5. ASSUME NEW k \in Place, k \notin {n, InPool} PROVE HeadOf(k)' = HeadOf(k)
    <3>1. k \in 1..n <=> k \in 1..n - 1
      BY <1>5, <2>5, PlaceFacts
    <3> QED BY <1>1, <1>2, <2>2, <2>5, <3>1 DEF HeadOf
  <2>6. Filling(Top)' = <<>>
    BY <2>2, <2>3 DEF Filling, Fillers
  <2>7. /\ Fields'
        /\ \E L2, W2 : /\ Located(L2, W2, heap') /\ Led(L2)' /\ Sorted(L2, W2)'
                       /\ Foreign(W2)' => Foreign(W)
                       /\ \A x \in Entry : W2[x] >= 0 => x # e /\ W2[x] = W[x]
    BY <1>4, <1>6, <1>9, <1>10, <1>13, <2>4, <2>5, <2>6, Returned
  <2>8. PICK L2, W2 : /\ Located(L2, W2, heap') /\ Led(L2)' /\ Sorted(L2, W2)'
                      /\ Foreign(W2)' => Foreign(W)
                      /\ \A x \in Entry : W2[x] >= 0 => x # e /\ W2[x] = W[x]
    BY <2>7
  <2>9. Spent(W2)'
    <3>1. \A i \in 1..n : i # n => i \in 1..Len(stack') /\ stack'[i] = stack[i]
      BY <1>5, <2>2
    <3> QED BY <1>5, <1>9, <1>10, <1>12, <1>13, <2>8, <3>1, ReturnedSpent
  <2>10. Newest(W2)'
    BY <2>2, <2>3 DEF Newest, Fillers
  <2>11. Labelled'
    <3>1. ASSUME NEW i \in 1..n - 1
          PROVE  /\ stack'[i].at \notin Fillers
                 /\ stack'[i].kind = "drain" <=> stack'[i].todo # Null
                 /\ stack'[i].at = "run" => stack'[i].kind = "drain"
      <4>1. i \in 1..n /\ i < n /\ stack'[i] = stack[i]
        BY <1>5, <2>2
      <4> QED BY <1>1, <1>3, <4>1 DEF Labelled
    <3> QED BY <2>2, <2>3, <3>1 DEF Labelled, Fillers
  <2>12. Kept(W2)'
    <3> SUFFICES ASSUME Foreign(W2)'
                 PROVE  (inIrq' > 0 \/ crit' > 0) /\ \A i \in 1..n - 1 : Answers(stack', i)
      BY <2>2 DEF Kept
    <3>1. (inIrq > 0 \/ crit > 0) /\ \A i \in 1..n : Answers(stack, i)
      BY <1>1, <1>4, <2>8 DEF Holds, Kept
    <3>2. ASSUME NEW i \in 1..n - 1 PROVE Answers(stack', i)
      <4>1. i \in 1..n /\ stack'[i] = stack[i] /\ \A j \in 1..i : stack'[j] = stack[j]
        BY <1>5, <2>2
      <4>2. ASSUME Covered(stack, i) PROVE Covered(stack', i)
        <5>1. PICK j \in 1..n : j > i /\ stack[j].kind \in {"irq", "fault"} /\ stack[j].at # "exit"
          BY <1>1, <4>2 DEF Covered
        <5>2. j # n
          BY <1>2, <1>5, <5>1
        <5>3. j \in 1..n - 1
          BY <1>5, <5>2
        <5> QED BY <2>2, <5>1, <5>3 DEF Covered
      <4> QED BY <3>1, <4>1, <4>2 DEF Answers
    <3> QED BY <1>2, <3>1, <3>2
  <2> QED BY <2>7, <2>8, <2>9, <2>10, <2>11, <2>12 DEF CInv, Holds
<1>8. CASE next[e] # Null
  <2> DEFINE b == [Top EXCEPT !.at = "run"]
             c == [Top EXCEPT !.at = "run", !.todo = next[e]]
  <2>1. stack' = WithTop(c)
    BY <1>2, <1>8 DEF AdvanceTo
  <2>2. c.kind = "drain" /\ c.at = "run" /\ c.todo = next[e]
    <3>1. HasFields(b) /\ b.kind = "drain" /\ b.at = "run"
      BY <1>2, <1>3, AtSet
    <3>2. c = [b EXCEPT !.todo = next[e]]
      OBVIOUS
    <3> HIDE DEF b
    <3> QED BY <3>1, <3>2, TodoSet DEF HasFields
  <2> HIDE DEF b, c
  <2>3. /\ Len(stack') = n /\ Top' = c
        /\ \A i \in 1..n : stack'[i] = IF i = n THEN c ELSE stack[i]
    BY <1>1, <1>3, <2>1, GoneOn
  <2>4. HeadOf(n)' = next[e]
    <3>1. n # InPool /\ n # InPending
      BY <1>5, PlaceFacts
    <3> QED BY <1>5, <2>2, <2>3, <3>1 DEF HeadOf
  <2>5. ASSUME NEW k \in Place, k \notin {n, InPool} PROVE HeadOf(k)' = HeadOf(k)
    BY <1>1, <1>2, <2>3, <2>5 DEF HeadOf
  <2>6. Filling(Top)' = <<>>
    BY <2>2, <2>3 DEF Filling
  <2>7. /\ Fields'
        /\ \E L2, W2 : /\ Located(L2, W2, heap') /\ Led(L2)' /\ Sorted(L2, W2)'
                       /\ Foreign(W2)' => Foreign(W)
                       /\ \A x \in Entry : W2[x] >= 0 => x # e /\ W2[x] = W[x]
    BY <1>4, <1>6, <1>9, <1>10, <1>13, <2>4, <2>5, <2>6, Returned
  <2>8. PICK L2, W2 : /\ Located(L2, W2, heap') /\ Led(L2)' /\ Sorted(L2, W2)'
                      /\ Foreign(W2)' => Foreign(W)
                      /\ \A x \in Entry : W2[x] >= 0 => x # e /\ W2[x] = W[x]
    BY <2>7
  <2>9. Spent(W2)'
    <3>1. \A i \in 1..n : i # n => i \in 1..Len(stack') /\ stack'[i] = stack[i]
      BY <1>5, <2>3
    <3> QED BY <1>5, <1>9, <1>10, <1>12, <1>13, <2>8, <3>1, ReturnedSpent
  <2>10. Newest(W2)'
    BY <2>2, <2>3 DEF Newest
  <2>11. Labelled'
    BY <1>2, <1>8, <2>1, <2>2, LabelledOn DEF Fillers
  <2>12. Kept(W2)'
    <3>1. Kept(W) /\ Top.at # "exit" /\ c.at \notin {"exit", "leave"} /\ inIrq' = inIrq /\ crit' = crit
      BY <1>2, <1>4, <2>2 DEF Holds
    <3> QED BY <1>2, <2>1, <2>2, <2>8, <3>1, KeptOn
  <2> QED BY <2>7, <2>8, <2>9, <2>10, <2>11, <2>12 DEF CInv, Holds
<1> QED BY <1>7, <1>8

\* Every entry of the pool is in it, in the order of their numbers, and none is elsewhere.
LEMMA CInit ==
    ASSUME Init PROVE CInv
<1> DEFINE P == [i \in 1..PoolSize |-> i]
           L == [k \in Place |-> IF k = InPool THEN P ELSE <<>>]
           W == [e \in Entry |-> IF e \in PoolEntry THEN InPool ELSE Nowhere]
           d == Context("thread", "code", Null)
<1>1. IInv
  BY InitStep
<1>2. /\ next = [e \in Entry |-> IF e < PoolSize THEN e + 1 ELSE Null]
      /\ handler = [e \in Entry |-> Empty] /\ heap = {} /\ free = 1 /\ pending = Null
      /\ queued = 0 /\ ran = <<>> /\ stack = <<d>>
  BY DEF Init
<1>3. d.kind = "thread" /\ d.at = "code" /\ d.todo = Null
  BY DEF Context
<1> HIDE DEF d
<1>4. Len(stack) = 1 /\ Top = d /\ stack[1] = d
  <2>1. Len(<<d>>) = 1 /\ <<d>>[1] = d
    OBVIOUS
  <2> QED BY <1>2, <2>1 DEF Top, Last
<1>5. /\ PoolSize \in Nat \ {0} /\ Entry = 1..Size /\ Size \in Nat /\ PoolSize <= Size
      /\ PoolEntry = 1..PoolSize /\ PoolEntry \subseteq Entry
  BY Entries DEF PoolEntry, Size
<1>6. Fields
  <2>1. next \in [Entry -> Entry \union {Null}]
    BY <1>2, <1>5
  <2>2. handler \in [Entry -> Nat] /\ ran \in Seq(Nat)
    BY <1>2 DEF Empty
  <2> QED BY <1>2, <2>1, <2>2 DEF Fields
<1>7. Labelled
  BY <1>3, <1>4 DEF Labelled, Fillers
<1>8. /\ P \in Seq(Entry) /\ Len(P) = PoolSize /\ DOMAIN P = 1..PoolSize /\ \A i \in 1..PoolSize : P[i] = i
  BY <1>5
<1> HIDE DEF P
<1>9. IsInjective(P) /\ ToSet(P) = PoolEntry
  BY <1>5, <1>8 DEF IsInjective, ToSet
<1>10. <<>> \in Seq(Entry) /\ IsInjective(<<>>) /\ ToSet(<<>>) = {} /\ Len(<<>>) = 0
  BY DEF IsInjective, ToSet
<1>11. /\ L \in [Place -> Seq(Entry)] /\ L[InPool] = P /\ \A k \in Place : k # InPool => L[k] = <<>>
       /\ W \in [Entry -> Place \union {Nowhere}]
       /\ \A e \in Entry : W[e] = IF e \in PoolEntry THEN InPool ELSE Nowhere
  <2>1. InPool \in Place
    BY PlaceFacts
  <2> QED BY <1>8, <1>10, <2>1
<1> HIDE DEF L, W
<1>12. InPool = -1 /\ Nowhere = -3 /\ Nowhere \notin Place /\ InPool # InHand /\ InPool \in Place /\ InPending \in Place
       /\ InPending = 0 /\ InHand \in Place
  BY PlaceFacts
<1>13. Located(L, W, heap)
  <2>1. ASSUME NEW k \in Place PROVE IsInjective(L[k]) /\ ToSet(L[k]) = {e \in Entry : W[e] = k}
    <3>1. CASE k = InPool
      <4>1. {e \in Entry : W[e] = k} = PoolEntry
        BY <1>5, <1>11, <1>12, <3>1
      <4> QED BY <1>9, <1>11, <3>1, <4>1
    <3>2. CASE k # InPool
      <4>1. {e \in Entry : W[e] = k} = {}
        BY <1>11, <1>12, <3>2
      <4> QED BY <1>10, <1>11, <3>2, <4>1
    <3> QED BY <3>1, <3>2
  <2>2. \A e \in Entry : W[e] # Nowhere <=> e \in PoolEntry \union heap
    BY <1>2, <1>11, <1>12
  <2> QED BY <1>9, <1>11, <2>1, <2>2 DEF Located
<1>14. Path(next, P, free)
  <2>1. free = IF Len(P) = 0 THEN Null ELSE P[1]
    BY <1>2, <1>5, <1>8
  <2>2. ASSUME NEW i \in 1..Len(P) PROVE next[P[i]] = IF i = Len(P) THEN Null ELSE P[i + 1]
    <3>1. i \in 1..PoolSize /\ P[i] = i /\ i \in Entry
      BY <1>5, <1>8
    <3>2. i # PoolSize => i < PoolSize /\ i + 1 \in 1..PoolSize /\ P[i + 1] = i + 1
      <4>1. i # PoolSize => i < PoolSize /\ i + 1 \in 1..PoolSize
        BY <1>5, <3>1
      <4> QED BY <1>8, <4>1
    <3> QED BY <1>2, <1>5, <1>8, <3>1, <3>2
  <2> QED BY <2>1, <2>2 DEF Path
<1>15. Led(L)
  <2>1. ASSUME NEW k \in Place, k # InHand PROVE Path(next, L[k], HeadOf(k))
    <3>1. CASE k = InPool
      BY <1>11, <1>14, <3>1 DEF HeadOf
    <3>2. CASE k # InPool
      <4>1. HeadOf(k) = Null
        <5>1. k \in 1..1 => stack[k].todo = Null
          BY <1>3, <1>4
        <5> QED BY <1>2, <1>4, <3>2, <5>1 DEF HeadOf
      <4>2. L[k] = <<>>
        BY <1>11, <3>2
      <4> QED BY <4>1, <4>2 DEF Path
    <3> QED BY <3>1, <3>2
  <2>2. L[InHand] = Filling(Top)
    BY <1>3, <1>4, <1>11, <1>12 DEF Filling
  <2> QED BY <2>1, <2>2 DEF Led
<1>16. \A e \in Entry : ~(W[e] >= 0)
  BY <1>11, <1>12
<1>17. Sorted(L, W)
  <2>1. \A k \in Place : k >= 0 => L[k] = <<>>
    BY <1>11, <1>12
  <2>2. L[InPending] = <<>> /\ \A k \in Place : k > 0 => L[k] = <<>>
    BY <1>11, <1>12
  <2> QED BY <1>10, <1>16, <2>2 DEF Sorted
<1>18. Spent(W) /\ Newest(W) /\ Kept(W)
  BY <1>2, <1>3, <1>4, <1>12, <1>16 DEF Spent, Newest, Kept, Foreign
<1> QED BY <1>1, <1>6, <1>7, <1>13, <1>15, <1>17, <1>18 DEF CInv, Holds

LEMMA CNext ==
    ASSUME CInv, QueuesMasked, [Next]_vars PROVE CInv'
<1>1. IInv'
  BY NextStep DEF CInv
<1>2. CASE DisableInterrupts \/ EnableInterrupts \/ InvokeSchedulerAsync \/ UNCHANGED vars
  BY <1>1, <1>2, OwnCodeStep
<1>3. CASE EnterTrapIrq \/ EnterTrapNoIrq \/ ExitTrap \/ FinishExit
  BY <1>1, <1>3, TrapStep, ExitTrapStill, FinishExitStill
<1>4. CASE EnterCritical \/ LeaveCritical \/ QueueLeave \/ FinishLeave
  BY <1>1, <1>4, EnterStep, LeaveStill, FinishLeaveStill DEF LeaveCritical, QueueLeave
<1>5. CASE \/ Queue \/ GetFreeNext \/ GetFreeStore \/ QueueEntryLink \/ QueueEntryStore
           \/ InvokeHandler \/ HandlerReturns
  BY <1>1, <1>5, QueueStill, GetFreeNextStill, GetFreeStoreStill, QueueEntryLinkStill, QueueEntryStoreStill,
     InvokeHandlerStill, HandlerReturnsStill
<1> QED BY <1>2, <1>3, <1>4, <1>5 DEF Next, Step

LEMMA CallsInductive ==
    ASSUME QueuesMasked PROVE Spec => []CInv
BY CInit, CNext, PTL DEF Spec

-----------------------------------------------------------------------------
(* What follows of the deferred calls                                       *)

\* Chain finds the list of each place.
LEMMA ChainsAre ==
    ASSUME NEW L, NEW W, Holds(L, W), NEW k \in Place, k # InHand
    PROVE  /\ Chain(HeadOf(k)) = L[k] /\ L[k] \in Seq(Entry) /\ Len(L[k]) \in 0..Size
           /\ \A i \in 1..Len(L[k]) : L[k][i] \in Entry /\ W[L[k][i]] = k
<1>1. /\ L[k] \in Seq(Entry) /\ IsInjective(L[k]) /\ ToSet(L[k]) = {x \in Entry : W[x] = k}
      /\ Path(next, L[k], HeadOf(k))
  BY LocatedFacts
<1>2. Len(L[k]) \in 0..Size
  BY <1>1, Bounded
<1>3. Len(L[k]) <= Size
  BY <1>2, Entries
<1>4. Chain(HeadOf(k)) = L[k]
  BY <1>1, <1>3, ChainIs
<1>5. \A i \in 1..Len(L[k]) : L[k][i] \in ToSet(L[k])
  BY <1>1 DEF ToSet
<1> QED BY <1>1, <1>2, <1>4, <1>5

LEMMA ContextsHave ==
    ASSUME CInv, NEW i \in DOMAIN stack
    PROVE  i \in Nat /\ i > 0 /\ i \in 1..Len(stack) /\ i \in Place /\ i # InHand /\ HeadOf(i) = stack[i].todo
<1>1. DOMAIN stack = 1..Len(stack) /\ Len(stack) \in Nat
  BY SharesOf DEF CInv, IInv, Stacked, IsSequence
<1>2. i \in Nat /\ i > 0 /\ i # InPool /\ i # InPending /\ i \in Place /\ i # InHand
  BY <1>1, PlaceFacts
<1> QED BY <1>1, <1>2 DEF HeadOf

\* Function::operator() finds a callable in every entry that execute_pending comes to, if
\* deferred_call_queue is called with interrupts disabled; without that, an interrupt may
\* put the same entry on the list a second time.
THEOREM InvokedAreCallable == ASSUME QueuesMasked PROVE Spec => []HandlerCallable
<1>1. ASSUME CInv, At("run") PROVE handler[Top.todo] # Empty
  <2>1. PICK L, W : Holds(L, W)
    BY <1>1 DEF CInv
  <2>2. Len(stack) \in 1..Len(stack) /\ Top = stack[Len(stack)]
    BY <1>1, SharesOf DEF CInv, IInv, Top
  <2>3. Top.kind = "drain"
    BY <1>1, <2>2 DEF At, CInv, Labelled
  <2>4. Top.todo \in Entry /\ W[Top.todo] = Len(stack) /\ Len(stack) > 0
    BY <1>1, <2>1, <2>3, DrainAt
  <2>5. handler[Top.todo] \in 1..queued
    BY <2>1, <2>2, <2>4 DEF Holds, Sorted
  <2> QED BY <2>5 DEF Empty
<1>2. CInv => HandlerCallable
  BY <1>1 DEF HandlerCallable
<1> QED BY <1>2, CallsInductive, PTL

\* Outside critical sections and handlers nothing is pending but what deferred calls
\* have queued: leave_critical or exit_trap has run the rest.
THEOREM NothingForgotten == ASSUME QueuesMasked PROVE Spec => []NothingLeftOutside
<1>1. ASSUME CInv, crit = 0, inIrq = 0 PROVE Calls(Chain(pending)) \in Seq(nested)
  <2>1. PICK L, W : Holds(L, W)
    BY <1>1 DEF CInv
  <2>2. InPending \in Place /\ InPending # InHand /\ HeadOf(InPending) = pending
    BY PlaceFacts DEF HeadOf
  <2> DEFINE P == L[InPending]
  <2>3. Chain(pending) = P /\ P \in Seq(Entry) /\ \A i \in 1..Len(P) : P[i] \in Entry /\ W[P[i]] = InPending
    BY <2>1, <2>2, ChainsAre
  <2>4. ~Foreign(W)
    BY <1>1, <2>1 DEF Holds, Kept
  <2> HIDE DEF P
  <2>5. \A i \in 1..Len(P) : handler[P[i]] \in nested
    BY <2>3, <2>4 DEF Foreign
  <2>6. [i \in 1..Len(P) |-> handler[P[i]]] \in Seq(nested)
    BY <2>3, <2>5
  <2>7. DOMAIN P = 1..Len(P)
    BY <2>3
  <2> QED BY <2>3, <2>6, <2>7 DEF Calls
<1>2. CInv => NothingLeftOutside
  BY <1>1 DEF NothingLeftOutside
<1> QED BY <1>2, CallsInductive, PTL

\* No call is run twice, and each drain runs what it has taken in the order in which it
\* was queued: deferred_call_execute_pending reverses the list before it runs it.
THEOREM RunsOnceInOrder == ASSUME QueuesMasked PROVE Spec => []RunOnceInOrder
<1>1. ASSUME CInv PROVE RunOnceInOrder
  <2>1. PICK L, W : Holds(L, W)
    BY <1>1 DEF CInv
  <2>2. ran \in Seq(Nat) /\ DOMAIN ran = 1..Len(ran) /\ \A r, q \in 1..Len(ran) : ran[r] = ran[q] => r = q
    BY <1>1, <2>1 DEF CInv, Fields, Holds, Spent
  <2>3. IsInjective(ran)
    BY <2>2 DEF IsInjective
  <2>4. ASSUME NEW i \in DOMAIN stack
        PROVE  /\ Ascending(Calls(Chain(stack[i].todo)))
               /\ stack[i].at = "run" =>
                    \A k \in DOMAIN Calls(Chain(stack[i].todo)), r \in DOMAIN ran :
                        Calls(Chain(stack[i].todo))[k] # ran[r]
    <3> DEFINE P == L[i]
    <3>1. i \in Nat /\ i > 0 /\ i \in 1..Len(stack) /\ i \in Place /\ i # InHand /\ HeadOf(i) = stack[i].todo
      BY <1>1, ContextsHave
    <3>2. /\ Chain(stack[i].todo) = P /\ P \in Seq(Entry)
          /\ \A k \in 1..Len(P) : P[k] \in Entry /\ W[P[k]] = i
      BY <2>1, <3>1, ChainsAre
    <3>3. \A k, l \in 1..Len(P) : k < l => handler[P[k]] < handler[P[l]]
      BY <2>1, <3>1 DEF Holds, Sorted
    <3> HIDE DEF P
    <3>4. DOMAIN P = 1..Len(P)
      BY <3>2
    <3>5. /\ DOMAIN Calls(P) = 1..Len(P)
          /\ \A k \in 1..Len(P) : Calls(P)[k] = handler[P[k]]
      BY <3>4 DEF Calls
    <3>6. Ascending(Calls(P))
      BY <3>3, <3>5 DEF Ascending
    <3>7. ASSUME stack[i].at = "run", NEW k \in 1..Len(P), NEW r \in 1..Len(ran), handler[P[k]] = ran[r] PROVE FALSE
      <4>1. P[k] \in Entry /\ W[P[k]] = i /\ W[P[k]] >= 0
        BY <3>1, <3>2
      <4> QED BY <2>1, <3>7, <4>1 DEF Holds, Spent
    <3> QED BY <2>2, <3>2, <3>5, <3>6, <3>7
  <2> QED BY <2>3, <2>4 DEF RunOnceInOrder
<1>2. CInv => RunOnceInOrder
  BY <1>1
<1> QED BY <1>2, CallsInductive, PTL

LEMMA Joined ==
    ASSUME NEW S, NEW a \in Seq(S), NEW s \in Seq(S)
    PROVE  /\ a \o s \in Seq(S) /\ Len(a \o s) = Len(a) + Len(s) /\ DOMAIN (a \o s) = 1..Len(a) + Len(s)
           /\ \A i \in 1..Len(a) + Len(s) : (a \o s)[i] = IF i <= Len(a) THEN a[i] ELSE s[i - Len(a)]
OBVIOUS

LEMMA TwoThen ==
    ASSUME NEW S, NEW a \in Seq(S), Len(a) = 2, NEW s \in Seq(S), NEW n \in Nat, Len(s) = n
    PROVE  /\ a \o s \in Seq(S) /\ DOMAIN (a \o s) = 1..n + 2
           /\ (a \o s)[1] = a[1] /\ (a \o s)[2] = a[2]
           /\ \A i \in 1..n : (a \o s)[i + 2] = s[i]
<1> DEFINE t == a \o s
           m == Len(a)
           l == Len(s)
<1>1. /\ t \in Seq(S) /\ DOMAIN t = 1..m + l
      /\ \A i \in 1..m + l : t[i] = IF i <= m THEN a[i] ELSE s[i - m]
  BY Joined
<1>2. m = 2 /\ l = n
  OBVIOUS
<1> HIDE DEF t, m, l
<1>3. DOMAIN t = 1..n + 2 /\ \A i \in 1..n + 2 : t[i] = IF i <= 2 THEN a[i] ELSE s[i - 2]
  BY <1>1, <1>2
<1>4. t[1] = a[1] /\ t[2] = a[2]
  BY <1>3
<1>5. ASSUME NEW i \in 1..n PROVE t[i + 2] = s[i]
  <2>1. i + 2 \in 1..n + 2 /\ ~(i + 2 <= 2) /\ (i + 2) - 2 = i
    OBVIOUS
  <2> QED BY <1>3, <2>1
<1> QED BY <1>1, <1>3, <1>4, <1>5 DEF t

\* What an index of Lists stands for.
AreLists(L, n) ==
    /\ n \in Nat \ {0} /\ DOMAIN Lists = 1..n + 2
    /\ Lists[1] = L[InPool] /\ Lists[2] = L[InPending]
    /\ \A i \in 1..n : Lists[i + 2] = L[i] \o (IF i = n THEN L[InHand] ELSE <<>>)

\* The lists that EntriesConserved looks at are those of the places, with what the
\* running context has in hand at the end of its own.
LEMMA ListsAre ==
    ASSUME CInv, NEW L, NEW W, Holds(L, W), NEW n, n = Len(stack)
    PROVE  AreLists(L, n)
<1> DEFINE s == [i \in DOMAIN stack |-> Chain(stack[i].todo) \o Filling(stack[i])]
           S == Seq(Entry)
           A == Chain(free)
           B == Chain(pending)
<1>1. /\ n \in Nat \ {0} /\ n \in 1..n /\ DOMAIN stack = 1..n /\ Top = stack[n]
  BY SharesOf DEF CInv, IInv, Stacked, IsSequence, Top
<1>2. L[InHand] = Filling(Top) /\ L[InHand] \in S
  BY LocatedFacts, PlaceFacts
<1>3. A = L[InPool] /\ A \in S /\ B = L[InPending] /\ B \in S
  <2>1. InPool \in Place /\ InPool # InHand /\ HeadOf(InPool) = free
    BY PlaceFacts DEF HeadOf
  <2>2. InPending \in Place /\ InPending # InHand /\ HeadOf(InPending) = pending
    BY PlaceFacts DEF HeadOf
  <2> QED BY <2>1, <2>2, ChainsAre
<1>4. ASSUME NEW i \in 1..n
      PROVE  /\ Chain(stack[i].todo) = L[i] /\ L[i] \in S
             /\ Filling(stack[i]) = IF i = n THEN L[InHand] ELSE <<>>
             /\ Filling(stack[i]) \in S
  <2>1. i \in Place /\ i # InHand /\ HeadOf(i) = stack[i].todo
    BY <1>1, ContextsHave
  <2>2. Chain(stack[i].todo) = L[i] /\ L[i] \in S
    BY <2>1, ChainsAre
  <2>3. i # n => Filling(stack[i]) = <<>>
    <3> SUFFICES ASSUME i # n PROVE Filling(stack[i]) = <<>>
      OBVIOUS
    <3>1. i < Len(stack) /\ i \in 1..Len(stack)
      BY <1>1
    <3>2. stack[i].at \notin Fillers
      BY <3>1 DEF CInv, Labelled
    <3> QED BY <3>2 DEF Filling, Fillers
  <2>4. i = n => Filling(stack[i]) = L[InHand]
    BY <1>1, <1>2
  <2>5. <<>> \in S
    OBVIOUS
  <2> QED BY <1>2, <2>2, <2>3, <2>4, <2>5
<1>5. ASSUME NEW i \in 1..n PROVE s[i] = L[i] \o (IF i = n THEN L[InHand] ELSE <<>>) /\ s[i] \in S
  <2> DEFINE f == Filling(stack[i])
             l == L[i]
  <2>1. s[i] = l \o f /\ l \in S /\ f \in S /\ f = IF i = n THEN L[InHand] ELSE <<>>
    BY <1>1, <1>4
  <2> HIDE DEF f, l, s
  <2>2. l \o f \in S
    BY <2>1
  <2> QED BY <2>1, <2>2 DEF l
<1>6. s \in Seq(S) /\ Len(s) = n
  <2>1. s = [i \in 1..n |-> s[i]]
    BY <1>1
  <2>2. \A i \in 1..n : s[i] \in S
    BY <1>5
  <2>3. n \in Nat
    BY <1>1
  <2> HIDE DEF s, S
  <2>4. [i \in 1..n |-> s[i]] \in Seq(S) /\ Len([i \in 1..n |-> s[i]]) = n
    BY <2>2, <2>3
  <2> QED BY <2>1, <2>4
<1>7. Lists = <<A, B>> \o s
  BY DEF Lists
<1> HIDE DEF s, A, B, S
<1>8. /\ DOMAIN (<<A, B>> \o s) = 1..n + 2
      /\ (<<A, B>> \o s)[1] = A /\ (<<A, B>> \o s)[2] = B
      /\ \A i \in 1..n : (<<A, B>> \o s)[i + 2] = s[i]
  <2> DEFINE a == <<A, B>>
  <2>1. a \in Seq(S) /\ Len(a) = 2 /\ a[1] = A /\ a[2] = B
    BY <1>3
  <2> HIDE DEF a
  <2>2. n \in Nat /\ s \in Seq(S) /\ Len(s) = n
    BY <1>1, <1>6
  <2>3. /\ DOMAIN (a \o s) = 1..n + 2
        /\ (a \o s)[1] = a[1] /\ (a \o s)[2] = a[2]
        /\ \A i \in 1..n : (a \o s)[i + 2] = s[i]
    BY <2>1, <2>2, TwoThen
  <2> QED BY <2>1, <2>3 DEF a
<1> QED BY <1>1, <1>3, <1>5, <1>7, <1>8 DEF AreLists

\* The list and the position at which an entry stands that is the i-th of a place.
Slot(L, n, k, i) ==
    IF k = InPool THEN <<1, i>>
    ELSE IF k = InPending THEN <<2, i>>
    ELSE IF k = InHand THEN <<n + 2, Len(L[n]) + i>> ELSE <<k + 2, i>>

\* An entry stands where its place is, and nowhere else.
LEMMA StandsThere ==
    ASSUME CInv, NEW L, NEW W, Holds(L, W), NEW n, n = Len(stack), NEW e \in Entry,
           NEW j \in 1..n + 2, NEW q \in DOMAIN Lists[j], Lists[j][q] = e
    PROVE  \E i \in 1..Len(L[W[e]]) : W[e] \in Place /\ L[W[e]][i] = e /\ <<j, q>> = Slot(L, n, W[e], i)
<1>1. /\ n \in Nat \ {0} /\ Lists[1] = L[InPool] /\ Lists[2] = L[InPending]
      /\ \A i \in 1..n : Lists[i + 2] = L[i] \o (IF i = n THEN L[InHand] ELSE <<>>)
  <2>1. AreLists(L, n)
    BY ListsAre
  <2> QED BY <2>1 DEF AreLists
<1>2. \A k \in Place : L[k] \in Seq(Entry) /\ ToSet(L[k]) = {x \in Entry : W[x] = k}
  BY LocatedFacts
<1>3. ASSUME NEW k \in Place, NEW i \in 1..Len(L[k]), L[k][i] = e, <<j, q>> = Slot(L, n, k, i)
      PROVE  \E i2 \in 1..Len(L[W[e]]) : W[e] \in Place /\ L[W[e]][i2] = e /\ <<j, q>> = Slot(L, n, W[e], i2)
  <2>1. e \in ToSet(L[k])
    BY <1>2, <1>3 DEF ToSet
  <2>2. W[e] = k
    BY <1>2, <2>1
  <2> QED BY <1>3, <2>2
<1>4. CASE j = 1
  <2>1. q \in 1..Len(L[InPool]) /\ L[InPool][q] = e /\ InPool \in Place
    BY <1>1, <1>2, <1>4, PlaceFacts
  <2>2. <<j, q>> = Slot(L, n, InPool, q)
    BY <1>4 DEF Slot
  <2> QED BY <1>3, <2>1, <2>2
<1>5. CASE j = 2
  <2>1. q \in 1..Len(L[InPending]) /\ L[InPending][q] = e /\ InPending \in Place
    BY <1>1, <1>2, <1>5, PlaceFacts
  <2>2. <<j, q>> = Slot(L, n, InPending, q)
    BY <1>5, PlaceFacts DEF Slot
  <2> QED BY <1>3, <2>1, <2>2
<1>6. CASE j \notin {1, 2}
  <2>1. PICK k \in 1..n : j = k + 2
    <3>1. j - 2 \in 1..n /\ j = (j - 2) + 2
      BY <1>1, <1>6
    <3> QED BY <3>1
  <2> DEFINE l == L[k]
             h == IF k = n THEN L[InHand] ELSE <<>>
  <2>2. k \in Place /\ k # InPool /\ k # InPending /\ k # InHand /\ InHand \in Place /\ InHand # InPool
        /\ InHand # InPending /\ k \in Nat
    BY <1>1, PlaceFacts
  <2>3. l \in Seq(Entry) /\ h \in Seq(Entry) /\ Lists[j] = l \o h
    <3>1. Lists[k + 2] = l \o h
      BY <1>1
    <3>2. L[k] \in Seq(Entry)
      BY <1>2, <2>2
    <3>3. L[InHand] \in Seq(Entry)
      BY <1>2, <2>2
    <3>4. <<>> \in Seq(Entry)
      OBVIOUS
    <3> QED BY <2>1, <3>1, <3>2, <3>3, <3>4
  <2> HIDE DEF l, h
  <2>4. Len(l) \in Nat /\ Len(h) \in Nat /\ DOMAIN (l \o h) = 1..Len(l) + Len(h)
    BY <2>3
  <2>5. /\ q \in 1..Len(l) + Len(h)
        /\ (l \o h)[q] = IF q <= Len(l) THEN l[q] ELSE h[q - Len(l)]
    BY <2>3, <2>4
  <2>6. CASE q <= Len(l)
    <3>1. q \in 1..Len(L[k]) /\ L[k][q] = e
      BY <2>3, <2>4, <2>5, <2>6 DEF l
    <3>2. <<j, q>> = Slot(L, n, k, q)
      BY <2>1, <2>2 DEF Slot
    <3> QED BY <1>3, <2>2, <3>1, <3>2
  <2>7. CASE ~(q <= Len(l))
    <3>1. q - Len(l) \in 1..Len(h) /\ h[q - Len(l)] = e /\ q = Len(l) + (q - Len(l))
      BY <2>3, <2>4, <2>5, <2>7
    <3>2. k = n /\ h = L[InHand]
      <4>1. k # n => h = <<>>
        BY DEF h
      <4>2. Len(h) # 0
        BY <2>4, <3>1
      <4> QED BY <4>1, <4>2 DEF h
    <3>3. <<j, q>> = Slot(L, n, InHand, q - Len(l))
      BY <2>1, <2>2, <3>1, <3>2 DEF Slot, l
    <3> QED BY <1>3, <2>2, <3>1, <3>2, <3>3
  <2> QED BY <2>6, <2>7
<1> QED BY <1>4, <1>5, <1>6

\* The place of an entry is one of the lists.
LEMMA StandsSomewhere ==
    ASSUME CInv, NEW L, NEW W, Holds(L, W), NEW n, n = Len(stack), NEW e \in Entry, W[e] # Nowhere
    PROVE  \E j \in 1..n + 2, q \in 1..Size + 1 : q \in DOMAIN Lists[j] /\ Lists[j][q] = e
<1>1. /\ n \in Nat \ {0} /\ Lists[1] = L[InPool] /\ Lists[2] = L[InPending]
      /\ \A i \in 1..n : Lists[i + 2] = L[i] \o (IF i = n THEN L[InHand] ELSE <<>>)
  <2>1. AreLists(L, n)
    BY ListsAre
  <2> QED BY <2>1 DEF AreLists
<1>2. PICK k \in Place : k = W[e]
  BY LocatedFacts
<1>3. L[k] \in Seq(Entry) /\ ToSet(L[k]) = {x \in Entry : W[x] = k} /\ IsInjective(L[k])
  BY LocatedFacts
<1>4. PICK i \in 1..Len(L[k]) : L[k][i] = e
  <2>1. e \in ToSet(L[k]) /\ DOMAIN L[k] = 1..Len(L[k])
    BY <1>2, <1>3
  <2> QED BY <2>1 DEF ToSet
<1>5. Len(L[k]) \in 0..Size /\ Size \in Nat
  BY <1>3, Bounded, Entries
<1>6. i \in 1..Size + 1 /\ i \in DOMAIN L[k]
  BY <1>3, <1>5
<1>7. CASE k = InPool
  <2>1. 1 \in 1..n + 2
    BY <1>1
  <2> QED BY <1>1, <1>4, <1>6, <1>7, <2>1
<1>8. CASE k = InPending
  <2>1. 2 \in 1..n + 2
    BY <1>1
  <2> QED BY <1>1, <1>4, <1>6, <1>8, <2>1
<1>9. CASE k = InHand
  <2> DEFINE l == L[n]
             h == L[InHand]
  <2>1. l \in Seq(Entry) /\ h \in Seq(Entry) /\ Len(l) \in 0..Size
    <3>1. n \in Place /\ n # InHand
      BY <1>1, PlaceFacts
    <3> QED BY <1>3, <1>9, <3>1, ChainsAre
  <2>2. Len(h) <= 1
    <3>1. h = Filling(Top)
      BY LocatedFacts
    <3>2. Len(<<Top.entry>>) = 1 /\ Len(<<>>) = 0
      OBVIOUS
    <3> HIDE DEF h
    <3> QED BY <3>1, <3>2 DEF Filling
  <2>3. n \in 1..n /\ n + 2 \in 1..n + 2
    BY <1>1
  <2>4. Lists[n + 2] = l \o h
    BY <1>1, <2>3
  <2>5. i \in 1..Len(h) /\ h[i] = e
    BY <1>4, <1>9
  <2> HIDE DEF l, h
  <2>6. /\ Len(l) \in Nat /\ Len(h) \in Nat /\ DOMAIN (l \o h) = 1..Len(l) + Len(h)
        /\ (l \o h)[Len(l) + i] = h[i]
    BY <2>1, <2>5
  <2>7. Len(l) + i \in 1..Len(l) + Len(h) /\ Len(l) + i \in 1..Size + 1
    BY <1>5, <2>1, <2>2, <2>5, <2>6
  <2> QED BY <2>3, <2>4, <2>5, <2>6, <2>7
<1>10. CASE k \notin {InPool, InPending, InHand}
  <2>1. k > 0
    BY <1>10, PlaceFacts
  <2>2. k \in 1..n
    BY <1>2, <2>1, NoList
  <2> DEFINE l == L[k]
             h == IF k = n THEN L[InHand] ELSE <<>>
  <2>3. l \in Seq(Entry) /\ h \in Seq(Entry)
    BY <1>3, LocatedFacts, PlaceFacts
  <2>4. Lists[k + 2] = l \o h /\ k + 2 \in 1..n + 2
    <3>1. k + 2 \in 1..n + 2
      BY <1>1, <2>2
    <3>2. Lists[k + 2] = l \o h
      BY <1>1, <2>2
    <3> QED BY <3>1, <3>2
  <2>5. i \in 1..Len(l) /\ l[i] = e
    BY <1>4
  <2> HIDE DEF l, h
  <2>6. i \in DOMAIN (l \o h) /\ (l \o h)[i] = l[i]
    BY <2>3, <2>5
  <2> QED BY <1>6, <2>4, <2>5, <2>6
<1> QED BY <1>7, <1>8, <1>9, <1>10

\* Every entry of the pool, and every one on the heap that is not deleted, stands on one
\* list, once; the others stand on none.
LEMMA Conserved == ASSUME CInv PROVE EntriesConserved
<1>1. PICK L, W : Holds(L, W)
  BY DEF CInv
<1>2. PICK n : n = Len(stack)
  OBVIOUS
<1>3. DOMAIN Lists = 1..n + 2
  BY <1>1, <1>2, ListsAre DEF AreLists
<1>4. /\ W \in [Entry -> Place \union {Nowhere}]
      /\ \A k \in Place : IsInjective(L[k]) /\ L[k] \in Seq(Entry)
      /\ \A x \in Entry : W[x] # Nowhere <=> x \in PoolEntry \union heap
  BY <1>1, LocatedFacts
<1> SUFFICES ASSUME NEW e \in Entry
             PROVE  Cardinality(Places(Lists, e)) = IF e \in PoolEntry \union heap THEN 1 ELSE 0
  BY DEF EntriesConserved
<1>5. Places(Lists, e) =
        {p \in (1..n + 2) \X (1..Size + 1) : p[2] \in DOMAIN Lists[p[1]] /\ Lists[p[1]][p[2]] = e}
  BY <1>3 DEF Places, Size
<1>6. ASSUME NEW p \in Places(Lists, e)
      PROVE  \E i \in 1..Len(L[W[e]]) : W[e] \in Place /\ L[W[e]][i] = e /\ p = Slot(L, n, W[e], i)
  <2>1. PICK j \in 1..n + 2, q \in 1..Size + 1 : p = <<j, q>> /\ q \in DOMAIN Lists[j] /\ Lists[j][q] = e
    BY <1>5
  <2> QED BY <1>1, <1>2, <2>1, StandsThere
<1>7. ASSUME NEW p \in Places(Lists, e), NEW r \in Places(Lists, e) PROVE p = r
  <2>1. PICK i \in 1..Len(L[W[e]]) : W[e] \in Place /\ L[W[e]][i] = e /\ p = Slot(L, n, W[e], i)
    BY <1>6
  <2>2. PICK m \in 1..Len(L[W[e]]) : L[W[e]][m] = e /\ r = Slot(L, n, W[e], m)
    BY <1>6
  <2>3. i = m
    <3>1. IsInjective(L[W[e]]) /\ DOMAIN L[W[e]] = 1..Len(L[W[e]])
      BY <1>4, <2>1
    <3> QED BY <2>1, <2>2, <3>1 DEF IsInjective
  <2> QED BY <2>1, <2>2, <2>3
<1>8. CASE e \in PoolEntry \union heap
  <2>1. W[e] # Nowhere
    BY <1>4, <1>8
  <2>2. PICK j \in 1..n + 2, q \in 1..Size + 1 : q \in DOMAIN Lists[j] /\ Lists[j][q] = e
    BY <1>1, <1>2, <2>1, StandsSomewhere
  <2>3. <<j, q>> \in Places(Lists, e)
    BY <1>5, <2>2
  <2>4. Places(Lists, e) = {<<j, q>>}
    BY <1>7, <2>3
  <2> QED BY <1>8, <2>4, FS_Singleton
<1>9. CASE e \notin PoolEntry \union heap
  <2>1. W[e] \notin Place
    BY <1>4, <1>9, PlaceFacts
  <2>2. Places(Lists, e) = {}
    BY <1>6, <2>1
  <2> QED BY <1>9, <2>2, FS_EmptySet
<1> QED BY <1>8, <1>9

\* No DeferredCallEntry is lost, used twice or used after delete, whatever interrupts what,
\* if deferred_call_queue is called with interrupts disabled: deferred_call_get_free,
\* deferred_call_queue_entry, deferred_call_execute_pending, deferred_call_return_to_pool.
THEOREM NoEntryLost == ASSUME QueuesMasked PROVE Spec => []EntriesConserved
BY Conserved, CallsInductive, PTL

=============================================================================
