---------------------------- MODULE OwnersProofs ----------------------------
(***************************************************************************)
(* Proofs about the owners of Components: what is counted, owned or        *)
(* allocated lives as long as it is held and no longer, for every value of *)
(* the constants.                                                          *)
(*                                                                         *)
(* Pointers: the state is that of a program between two steps, or one in   *)
(* which a reference to some y is yet to be given back (OwningInv).  In    *)
(* both, a count is the number of variables and members that hold the      *)
(* object, and one more for y (Balanced); an object lives and is not being *)
(* destroyed when it is counted or an untouched slot owns it, and only     *)
(* then (OwnedLive); the destructors that run are of living objects, each  *)
(* of one (DyingLive).                                                     *)
(*                                                                         *)
(* Functions: a function runs what it holds (RunsItsOwn), what lives is    *)
(* held by one function (LiveAreHeld), and a clear is put off only while   *)
(* the function is being called (PutOffWhileCalled).  Optional, Variant:   *)
(* the storage holds what the index says (Matches), or its object has just *)
(* been deleted (Without).                                                 *)
(*                                                                         *)
(* Buffers: a buffer out of line has a block of its capacity, which no     *)
(* other buffer has, and every block is some buffer's (BlocksAre), so that *)
(* one is always left to allocate (BlockLeft).  A size is within the       *)
(* capacity (Fits), and the cells hold the bytes the buffer is meant to    *)
(* hold (BuffersHold).                                                     *)
(***************************************************************************)
EXTENDS Components, Integers, Sequences, SequenceTheorems, FiniteSetTheorems, TLAPS

-----------------------------------------------------------------------------
(* Owning pointers                                                         *)

Object == Counted \cup Sole
Destructors == [what : {"dying"}, obj : Object, slot : OwnSlot \cup {NullPointer}]
\* The states in which the program or a destructor's body runs, and only destructors are pending.
Pointers == [ref : [RefSlot -> Counted \cup {NullPointer}], own : [OwnSlot -> Sole \cup {NullPointer}],
             member : [Object -> Counted \cup {NullPointer}], count : [Counted -> Nat],
             live : SUBSET Object, stack : Seq(Destructors)]

Same(a, b) == IF a = b THEN 1 ELSE 0
Recounted(n, old, new, x) == n - Same(old, x) + Same(new, x)
Others(f, g, S, s) == \A t \in S : t # s => g[t] = f[t]
Held(f, S, x) == Cardinality({s \in S : f[s] = x})
IsDying(h, x) == \E i \in 1 .. Len(h.stack) : h.stack[i].obj = x
Touches(h, s) == \E i \in 1 .. Len(h.stack) : h.stack[i].slot = s
Owned(h, x) == (x \in Counted /\ h.count[x] # 0) \/ \E s \in OwnSlot : h.own[s] = x /\ ~Touches(h, s)

\* y: an object one reference to which is yet to be given back; z: one that is about to be deleted.
Balanced(h, y) ==
    \A x \in Counted : h.count[x] = Held(h.ref, RefSlot, x) + Held(h.member, Object, x) + Same(y, x)
OwnedLive(h, z) ==
    /\ \A x \in Object : x \in h.live /\ ~IsDying(h, x) <=> Owned(h, x) \/ x = z
    /\ z # NullPointer => ~Owned(h, z)
SoleOwners(h) == \A s, t \in OwnSlot : s # t /\ h.own[s] = h.own[t] => h.own[s] = NullPointer
DyingLive(h) ==
    /\ \A i \in 1 .. Len(h.stack) :
          /\ h.stack[i].obj \in h.live
          /\ h.stack[i].slot # NullPointer => h.own[h.stack[i].slot] = h.stack[i].obj
    /\ \A i, j \in 1 .. Len(h.stack) : i # j => h.stack[i].obj # h.stack[j].obj
MembersLive(h) == \A x \in Object \ h.live : h.member[x] = NullPointer

Sound(h, y, z) ==
    /\ h \in Pointers
    /\ Balanced(h, y) /\ OwnedLive(h, z) /\ SoleOwners(h) /\ DyingLive(h) /\ MembersLive(h)

Releasing(h, y) == [h EXCEPT !.stack = Append(@, Owning!Unref(y))]
Deleting(h, z, s) == [h EXCEPT !.stack = Append(@, Owning!Dying(z, s))]

\* A reference is being given back, or else the program or a destructor's body runs.
OwningInv ==
    \/ Sound(obj, NullPointer, NullPointer)
    \/ \E h \in Pointers, y \in Counted : Sound(h, y, NullPointer) /\ obj = Releasing(h, y)

LEMMA OwningCardinality == ASSUME NEW S PROVE Owning!Cardinality(S) = Cardinality(S)
BY DEF Owning!Cardinality, Cardinality

LEMMA NullIsNothing ==
    /\ NullPointer \notin Counted /\ NullPointer \notin Sole /\ NullPointer \notin OwnSlot
    /\ NullPointer \notin Object /\ Counted \cap Sole = {}
    /\ IsFiniteSet(RefSlot) /\ IsFiniteSet(Counted) /\ IsFiniteSet(Object)
BY OwningAssumption, FS_Union DEF Object

LEMMA HeldType ==
    ASSUME NEW S, IsFiniteSet(S), NEW f, NEW x
    PROVE  Held(f, S, x) \in Nat /\ (Held(f, S, x) = 0 <=> \A s \in S : f[s] # x)
<1>1. IsFiniteSet({s \in S : f[s] = x})
  BY FS_Subset
<1> QED BY <1>1, FS_CardinalityType, FS_EmptySet DEF Held

\* How many of S hold x when one of them is assigned.
LEMMA HeldChanges ==
    ASSUME NEW S, IsFiniteSet(S), NEW f, NEW g, NEW s \in S, NEW v, NEW x,
           g[s] = v, Others(f, g, S, s)
    PROVE  Held(g, S, x) = Recounted(Held(f, S, x), f[s], v, x)
<1> DEFINE A == {t \in S : f[t] = x}
           B == {t \in S : g[t] = x}
<1>1. IsFiniteSet(A) /\ Cardinality(A) \in Nat /\ (s \in A <=> f[s] = x)
  BY FS_Subset, FS_CardinalityType
<1>2. Held(f, S, x) = Cardinality(A) /\ Held(g, S, x) = Cardinality(B)
  BY DEF Held
<1>3. CASE v = x
  <2>1. B = A \cup {s}
    BY <1>3 DEF Others
  <2> HIDE DEF A, B
  <2>2. Cardinality(B) = IF s \in A THEN Cardinality(A) ELSE Cardinality(A) + 1
    BY <1>1, <2>1, FS_AddElement
  <2> QED BY <1>1, <1>2, <1>3, <2>2 DEF Same, Recounted
<1>4. CASE v # x
  <2>1. B = A \ {s}
    BY <1>4 DEF Others
  <2> HIDE DEF A, B
  <2>2. Cardinality(B) = IF s \in A THEN Cardinality(A) - 1 ELSE Cardinality(A)
    BY <1>1, <2>1, FS_RemoveElement
  <2> QED BY <1>1, <1>2, <1>4, <2>2 DEF Same, Recounted
<1> QED BY <1>3, <1>4

LEMMA RefHeldChanges ==
    ASSUME NEW f \in [RefSlot -> Counted \cup {NullPointer}], NEW s \in RefSlot, NEW v, NEW x, NEW g,
           g = [f EXCEPT ![s] = v]
    PROVE  Held(g, RefSlot, x) = Held(f, RefSlot, x) - Same(f[s], x) + Same(v, x)
<1>1. IsFiniteSet(RefSlot)
  BY NullIsNothing
<1>2. g[s] = v /\ Others(f, g, RefSlot, s)
  BY DEF Others
<1>3. Held(g, RefSlot, x) = Recounted(Held(f, RefSlot, x), f[s], v, x)
  BY ONLY <1>1, <1>2, HeldChanges, s \in RefSlot
<1> QED BY <1>3 DEF Recounted

LEMMA MemberHeldChanges ==
    ASSUME NEW f \in [Object -> Counted \cup {NullPointer}], NEW s \in Object, NEW v, NEW x, NEW g,
           g = [f EXCEPT ![s] = v]
    PROVE  Held(g, Object, x) = Held(f, Object, x) - Same(f[s], x) + Same(v, x)
<1>1. IsFiniteSet(Object)
  BY NullIsNothing
<1>2. g[s] = v /\ Others(f, g, Object, s)
  BY DEF Others
<1>3. Held(g, Object, x) = Recounted(Held(f, Object, x), f[s], v, x)
  BY ONLY <1>1, <1>2, HeldChanges, s \in Object
<1> QED BY <1>3 DEF Recounted

\* The frames of a stack, and what is left when the last of them is taken off.
LEMMA StackTops ==
    ASSUME NEW F, NEW stack \in Seq(F), stack # <<>>
    PROVE  LET n == Len(stack)
           IN  /\ n \in Nat \ {0} /\ Owning!Last(stack) = stack[n] /\ stack[n] \in F
               /\ Owning!Front(stack) \in Seq(F) /\ Len(Owning!Front(stack)) = n - 1
               /\ \A i \in 1 .. n - 1 : Owning!Front(stack)[i] = stack[i]
<1> DEFINE n == Len(stack)
<1>1. n \in Nat \ {0} /\ \A i \in 1 .. n : stack[i] \in F
  OBVIOUS
<1>2. Owning!Last(stack) = stack[n]
  BY DEF Owning!Last
<1>3. Owning!Front(stack) = SubSeq(stack, 1, n - 1)
  BY DEF Owning!Front
<1>4. n - 1 \in Int /\ \A i \in 1 .. n - 1 : i \in 1 .. n
  BY <1>1
<1> HIDE DEF n
<1>5. /\ SubSeq(stack, 1, n - 1) \in Seq(F)
      /\ Len(SubSeq(stack, 1, n - 1)) = IF 1 <= n - 1 THEN n - 1 - 1 + 1 ELSE 0
      /\ \A i \in 1 .. n - 1 - 1 + 1 : SubSeq(stack, 1, n - 1)[i] = stack[1 + i - 1]
  <2>1. 1 \in Int
    OBVIOUS
  <2> QED BY <1>1, <1>4, <2>1, SubSeqProperties
<1>6. Len(SubSeq(stack, 1, n - 1)) = n - 1 /\ \A i \in 1 .. n - 1 : SubSeq(stack, 1, n - 1)[i] = stack[i]
  <2>1. \A i \in 1 .. n - 1 : i \in 1 .. n - 1 - 1 + 1 /\ 1 + i - 1 = i
    BY <1>1
  <2> QED BY <1>1, <1>5, <2>1
<1> QED BY <1>1, <1>2, <1>3, <1>5, <1>6 DEF n

LEMMA FrontOfAppend ==
    ASSUME NEW F, NEW stack \in Seq(F), NEW frame
    PROVE  /\ Owning!Last(Append(stack, frame)) = frame
           /\ Owning!Front(Append(stack, frame)) = stack
           /\ Append(stack, frame) # <<>>
<1> DEFINE G == F \cup {frame}
           st == Append(stack, frame)
<1>1. stack \in Seq(G) /\ frame \in G
  BY SeqMonotonic
<1>2. /\ st \in Seq(G) /\ st # <<>> /\ Len(st) = Len(stack) + 1
      /\ \A i \in 1 .. Len(stack) : st[i] = stack[i]
      /\ st[Len(stack) + 1] = frame
  BY <1>1, AppendProperties
<1>3. Len(stack) \in Nat
  OBVIOUS
<1> HIDE DEF st, G
<1>4. /\ Owning!Last(st) = st[Len(st)] /\ Owning!Front(st) \in Seq(G) /\ Len(Owning!Front(st)) = Len(st) - 1
      /\ \A i \in 1 .. Len(st) - 1 : Owning!Front(st)[i] = st[i]
  BY <1>2, StackTops
<1>5. Len(Owning!Front(st)) = Len(stack) /\ \A i \in 1 .. Len(Owning!Front(st)) : Owning!Front(st)[i] = stack[i]
  BY <1>2, <1>3, <1>4
<1>6. Owning!Front(st) = stack
  BY <1>1, <1>4, <1>5, SeqEqual
<1> QED BY <1>2, <1>4, <1>6 DEF st

LEMMA PushesRelease ==
    ASSUME NEW o, NEW y \in Counted \cup {NullPointer}, Sound(o, y, NullPointer),
           obj' = Owning!Pushed(o, Owning!Unref(y))
    PROVE  OwningInv'
<1>1. CASE y = NullPointer
  BY <1>1 DEF Owning!Pushed, Owning!Unref, OwningInv
<1>2. CASE y # NullPointer
  <2>1. obj' = Releasing(o, y)
    BY <1>2 DEF Owning!Pushed, Owning!Unref, Releasing
  <2>2. o \in Pointers /\ y \in Counted
    BY <1>2 DEF Sound
  <2> QED BY <2>1, <2>2 DEF OwningInv
<1> QED BY <1>1, <1>2

\* Nothing but the counts, and what the references are, has changed.
LEMMA Rebalanced ==
    ASSUME NEW h, NEW y, NEW o \in Pointers, NEW z, Sound(h, y, NullPointer),
           o.own = h.own, o.live = h.live, o.stack = h.stack, Balanced(o, z),
           \A x \in Counted : o.count[x] # 0 <=> h.count[x] # 0, MembersLive(o)
    PROVE  Sound(o, z, NullPointer)
<1>1. \A x \in Object : Owned(o, x) <=> Owned(h, x)
  BY DEF Owned, Touches
<1>2. OwnedLive(o, NullPointer)
  BY <1>1 DEF Sound, OwnedLive, IsDying
<1>3. SoleOwners(o) /\ DyingLive(o)
  BY DEF Sound, SoleOwners, DyingLive
<1> QED BY <1>2, <1>3 DEF Sound

\* What a reference refers to is counted, and lives.
LEMMA HeldIsCounted ==
    ASSUME NEW h, NEW y, Sound(h, y, NullPointer), NEW x \in Counted,
           (\E s \in RefSlot : h.ref[s] = x) \/ (\E m \in Object : h.member[m] = x) \/ y = x
    PROVE  h.count[x] # 0 /\ x \in h.live /\ ~IsDying(h, x)
<1>1. Held(h.ref, RefSlot, x) \in Nat /\ Held(h.member, Object, x) \in Nat /\ Same(y, x) \in Nat
  BY HeldType, NullIsNothing DEF Same
<1>2. Held(h.ref, RefSlot, x) + Held(h.member, Object, x) + Same(y, x) # 0
  <2>1. CASE \E s \in RefSlot : h.ref[s] = x
    <3>1. Held(h.ref, RefSlot, x) # 0
      BY <2>1, HeldType, NullIsNothing
    <3> QED BY <1>1, <3>1
  <2>2. CASE \E m \in Object : h.member[m] = x
    <3>1. Held(h.member, Object, x) # 0
      BY <2>2, HeldType, NullIsNothing
    <3> QED BY <1>1, <3>1
  <2>3. CASE y = x
    BY <1>1, <2>3 DEF Same
  <2> QED BY <2>1, <2>2, <2>3
<1>3. h.count[x] # 0
  BY <1>2 DEF Sound, Balanced
<1> QED BY <1>3 DEF Sound, OwnedLive, Owned, Object

\* Taking one more reference to x, the number of references of which is given.
LEMMA RefIs ==
    ASSUME NEW x \in Counted \cup {NullPointer}, obj \in Pointers
    PROVE  /\ Owning!Ref(obj, x) \in Pointers
           /\ Owning!Ref(obj, x).ref = obj.ref /\ Owning!Ref(obj, x).own = obj.own
           /\ Owning!Ref(obj, x).member = obj.member /\ Owning!Ref(obj, x).live = obj.live
           /\ Owning!Ref(obj, x).stack = obj.stack
           /\ \A c \in Counted : Owning!Ref(obj, x).count[c] = obj.count[c] + Same(x, c)
<1>1. CASE x = NullPointer
  BY <1>1, NullIsNothing DEF Owning!Ref, Same, Pointers
<1>2. CASE x # NullPointer
  <2>1. Owning!Ref(obj, x) = [obj EXCEPT !.count[x] = @ + 1] /\ x \in Counted
    BY <1>2 DEF Owning!Ref
  <2> DEFINE counts == [obj.count EXCEPT ![x] = obj.count[x] + 1]
             r == [obj EXCEPT !.count = counts]
  <2>2. obj.count \in [Counted -> Nat]
    BY DEF Pointers
  <2>3. counts \in [Counted -> Nat] /\ \A c \in Counted : counts[c] = obj.count[c] + Same(x, c)
    BY <2>1, <2>2 DEF Same
  <2>4. Owning!Ref(obj, x) = r
    BY <2>1
  <2> HIDE DEF counts
  <2>5. /\ r \in Pointers /\ r.count = counts /\ r.ref = obj.ref /\ r.own = obj.own /\ r.member = obj.member
        /\ r.live = obj.live /\ r.stack = obj.stack
    BY <2>3 DEF Pointers
  <2> HIDE DEF r
  <2> QED BY <2>3, <2>4, <2>5
<1> QED BY <1>1, <1>2

LEMMA CopyAssignKeeps ==
    ASSUME Sound(obj, NullPointer, NullPointer), NEW s \in RefSlot, NEW t \in RefSlot, Owning!CopyAssign(s, t)
    PROVE  OwningInv'
<1> DEFINE a == obj.ref[s]
           b == obj.ref[t]
           r == Owning!Ref(obj, b)
           o == [r EXCEPT !.ref[s] = b]
<1>1. obj' = Owning!Pushed(o, Owning!Unref(a)) /\ obj \in Pointers
  BY DEF Owning!CopyAssign, Sound
<1>2. a \in Counted \cup {NullPointer} /\ b \in Counted \cup {NullPointer}
  BY <1>1 DEF Pointers
<1>3. /\ r \in Pointers /\ r.ref = obj.ref /\ r.own = obj.own /\ r.member = obj.member /\ r.live = obj.live
      /\ r.stack = obj.stack /\ \A c \in Counted : r.count[c] = obj.count[c] + Same(b, c)
  BY <1>1, <1>2, RefIs
<1> HIDE DEF r
<1>4. /\ o \in Pointers /\ o.ref = [obj.ref EXCEPT ![s] = b] /\ o.own = obj.own /\ o.member = obj.member
      /\ o.live = obj.live /\ o.stack = obj.stack /\ o.count = r.count
  BY <1>2, <1>3 DEF Pointers
<1> HIDE DEF o
<1>5. ASSUME NEW x \in Counted
      PROVE  /\ o.count[x] = Held(o.ref, RefSlot, x) + Held(o.member, Object, x) + Same(a, x)
             /\ o.count[x] # 0 <=> obj.count[x] # 0
  <2>1. Held(o.ref, RefSlot, x) = Held(obj.ref, RefSlot, x) - Same(a, x) + Same(b, x)
    <3>1. obj.ref \in [RefSlot -> Counted \cup {NullPointer}]
      BY <1>1 DEF Pointers
    <3> QED BY <1>4, <3>1, RefHeldChanges
  <2>2. obj.count[x] = Held(obj.ref, RefSlot, x) + Held(obj.member, Object, x)
    BY NullIsNothing, HeldType DEF Sound, Balanced, Same
  <2>3. b = x => obj.count[x] # 0
    BY HeldIsCounted
  <2>4. o.count[x] = obj.count[x] + Same(b, x) /\ obj.count[x] \in Nat
    BY <1>1, <1>3, <1>4 DEF Pointers
  <2>5. Held(obj.ref, RefSlot, x) \in Nat /\ Held(obj.member, Object, x) \in Nat
    BY HeldType, NullIsNothing
  <2> HIDE DEF a, b
  <2> QED BY <1>4, <2>1, <2>2, <2>3, <2>4, <2>5 DEF Same
<1>6. Balanced(o, a) /\ MembersLive(o)
  BY <1>4, <1>5 DEF Balanced, Sound, MembersLive
<1>7. Sound(o, a, NullPointer)
  BY <1>4, <1>5, <1>6, Rebalanced
<1> QED BY <1>1, <1>2, <1>7, PushesRelease

LEMMA MoveAssignKeeps ==
    ASSUME Sound(obj, NullPointer, NullPointer), NEW s \in RefSlot, NEW t \in RefSlot, Owning!MoveAssign(s, t)
    PROVE  OwningInv'
<1> DEFINE left == [obj.ref EXCEPT ![t] = NullPointer]
           a == left[s]
           b == obj.ref[t]
           o == [obj EXCEPT !.ref = [left EXCEPT ![s] = b]]
<1>1. obj' = Owning!Pushed(o, Owning!Unref(a)) /\ obj \in Pointers
  BY DEF Owning!MoveAssign, Owning!Leaked, Sound
<1>2. /\ obj.ref \in [RefSlot -> Counted \cup {NullPointer}] /\ left \in [RefSlot -> Counted \cup {NullPointer}]
      /\ a \in Counted \cup {NullPointer} /\ b \in Counted \cup {NullPointer}
  BY <1>1 DEF Pointers
<1> HIDE DEF b, a
<1>3. /\ o \in Pointers /\ o.ref = [left EXCEPT ![s] = b] /\ o.own = obj.own /\ o.member = obj.member
      /\ o.live = obj.live /\ o.stack = obj.stack /\ o.count = obj.count
  BY <1>1, <1>2 DEF Pointers
<1> HIDE DEF o
<1>4. ASSUME NEW x \in Counted
      PROVE  o.count[x] = Held(o.ref, RefSlot, x) + Held(o.member, Object, x) + Same(a, x)
  <2>1. Held(left, RefSlot, x) = Held(obj.ref, RefSlot, x) - Same(b, x) + Same(NullPointer, x)
    BY <1>2, RefHeldChanges DEF b
  <2>2. Held(o.ref, RefSlot, x) = Held(left, RefSlot, x) - Same(a, x) + Same(b, x)
    BY <1>2, <1>3, RefHeldChanges DEF a
  <2>3. obj.count[x] = Held(obj.ref, RefSlot, x) + Held(obj.member, Object, x) + Same(NullPointer, x)
    BY DEF Sound, Balanced
  <2>4. Held(obj.ref, RefSlot, x) \in Nat /\ Held(obj.member, Object, x) \in Nat
    BY HeldType, NullIsNothing
  <2>5. Same(NullPointer, x) \in Nat /\ Same(a, x) \in Nat /\ Same(b, x) \in Nat /\ Same(NullPointer, x) = 0
    BY NullIsNothing DEF Same
  <2> QED BY <1>3, <2>1, <2>2, <2>3, <2>4, <2>5
<1>5. Balanced(o, a) /\ MembersLive(o)
  BY <1>3, <1>4 DEF Balanced, Sound, MembersLive
<1>6. Sound(o, a, NullPointer)
  BY <1>3, <1>5, Rebalanced
<1> QED BY <1>1, <1>2, <1>6, PushesRelease

LEMMA DestroyKeeps ==
    ASSUME Sound(obj, NullPointer, NullPointer), NEW s \in RefSlot, Owning!Destroy(s)
    PROVE  OwningInv'
<1> DEFINE a == obj.ref[s]
           o == [obj EXCEPT !.ref[s] = NullPointer]
<1>1. obj' = Owning!Pushed(o, Owning!Unref(a)) /\ obj \in Pointers
  BY DEF Owning!Destroy, Sound
<1>2. obj.ref \in [RefSlot -> Counted \cup {NullPointer}] /\ a \in Counted \cup {NullPointer}
  BY <1>1 DEF Pointers
<1> HIDE DEF a
<1>3. /\ o \in Pointers /\ o.ref = [obj.ref EXCEPT ![s] = NullPointer] /\ o.own = obj.own /\ o.member = obj.member
      /\ o.live = obj.live /\ o.stack = obj.stack /\ o.count = obj.count
  BY <1>1, <1>2 DEF Pointers
<1> HIDE DEF o
<1>4. ASSUME NEW x \in Counted
      PROVE  o.count[x] = Held(o.ref, RefSlot, x) + Held(o.member, Object, x) + Same(a, x)
  <2>1. Held(o.ref, RefSlot, x) = Held(obj.ref, RefSlot, x) - Same(a, x) + Same(NullPointer, x)
    BY <1>2, <1>3, RefHeldChanges DEF a
  <2>2. obj.count[x] = Held(obj.ref, RefSlot, x) + Held(obj.member, Object, x) + Same(NullPointer, x)
    BY DEF Sound, Balanced
  <2>3. Held(obj.ref, RefSlot, x) \in Nat /\ Held(obj.member, Object, x) \in Nat
    BY HeldType, NullIsNothing
  <2>4. Same(NullPointer, x) \in Nat /\ Same(a, x) \in Nat /\ Same(NullPointer, x) = 0
    BY NullIsNothing DEF Same
  <2> QED BY <1>3, <2>1, <2>2, <2>3, <2>4
<1>5. Balanced(o, a) /\ MembersLive(o)
  BY <1>3, <1>4 DEF Balanced, Sound, MembersLive
<1>6. Sound(o, a, NullPointer)
  BY <1>3, <1>5, Rebalanced
<1> QED BY <1>1, <1>2, <1>6, PushesRelease

LEMMA AssignMemberKeeps ==
    ASSUME Sound(obj, NullPointer, NullPointer), NEW m \in Object, NEW s \in RefSlot, Owning!AssignMember(m, s)
    PROVE  OwningInv'
<1> DEFINE a == obj.member[m]
           b == obj.ref[s]
           r == Owning!Ref(obj, b)
           o == [r EXCEPT !.member[m] = b]
<1>1. obj' = Owning!Pushed(o, Owning!Unref(a)) /\ obj \in Pointers /\ m \in obj.live
  BY DEF Owning!AssignMember, Sound
<1>2. a \in Counted \cup {NullPointer} /\ b \in Counted \cup {NullPointer}
  BY <1>1 DEF Pointers
<1>3. /\ r \in Pointers /\ r.ref = obj.ref /\ r.own = obj.own /\ r.member = obj.member /\ r.live = obj.live
      /\ r.stack = obj.stack /\ \A c \in Counted : r.count[c] = obj.count[c] + Same(b, c)
  BY <1>1, <1>2, RefIs
<1> HIDE DEF r
<1>4. /\ o \in Pointers /\ o.member = [obj.member EXCEPT ![m] = b] /\ o.own = obj.own /\ o.ref = obj.ref
      /\ o.live = obj.live /\ o.stack = obj.stack /\ o.count = r.count
  BY <1>2, <1>3 DEF Pointers
<1> HIDE DEF o
<1>5. ASSUME NEW x \in Counted
      PROVE  /\ o.count[x] = Held(o.ref, RefSlot, x) + Held(o.member, Object, x) + Same(a, x)
             /\ o.count[x] # 0 <=> obj.count[x] # 0
  <2>1. Held(o.member, Object, x) = Held(obj.member, Object, x) - Same(a, x) + Same(b, x)
    <3>1. obj.member \in [Object -> Counted \cup {NullPointer}]
      BY <1>1 DEF Pointers
    <3> QED BY <1>4, <3>1, MemberHeldChanges
  <2>2. obj.count[x] = Held(obj.ref, RefSlot, x) + Held(obj.member, Object, x)
    BY NullIsNothing, HeldType DEF Sound, Balanced, Same
  <2>3. b = x => obj.count[x] # 0
    BY HeldIsCounted
  <2>4. o.count[x] = obj.count[x] + Same(b, x) /\ obj.count[x] \in Nat
    BY <1>1, <1>3, <1>4 DEF Pointers
  <2>5. Held(obj.ref, RefSlot, x) \in Nat /\ Held(obj.member, Object, x) \in Nat
    BY HeldType, NullIsNothing
  <2> HIDE DEF a, b
  <2> QED BY <1>4, <2>1, <2>2, <2>3, <2>4, <2>5 DEF Same
<1>6. Balanced(o, a)
  BY <1>5 DEF Balanced
<1>7. MembersLive(o)
  BY <1>1, <1>4 DEF Sound, MembersLive, Pointers
<1>8. Sound(o, a, NullPointer)
  BY <1>4, <1>5, <1>6, <1>7, Rebalanced
<1> QED BY <1>1, <1>2, <1>8, PushesRelease

LEMMA MakeRefCountedKeeps ==
    ASSUME Sound(obj, NullPointer, NullPointer), NEW s \in RefSlot, NEW c \in Counted, Owning!MakeRefCounted(s, c)
    PROVE  OwningInv'
<1> DEFINE a == obj.ref[s]
           o == [obj EXCEPT !.live = @ \cup {c}, !.count[c] = 1, !.ref[s] = c]
<1>1. obj' = Owning!Pushed(o, Owning!Unref(a)) /\ obj \in Pointers /\ c \notin obj.live
  BY DEF Owning!MakeRefCounted, Sound
<1>2. obj.ref \in [RefSlot -> Counted \cup {NullPointer}] /\ a \in Counted \cup {NullPointer}
  BY <1>1 DEF Pointers
<1> HIDE DEF a
<1>3. /\ o \in Pointers /\ o.ref = [obj.ref EXCEPT ![s] = c] /\ o.own = obj.own /\ o.member = obj.member
      /\ o.live = obj.live \cup {c} /\ o.stack = obj.stack /\ o.count = [obj.count EXCEPT ![c] = 1]
  BY <1>1, <1>2 DEF Pointers, Object
<1>4. obj.count \in [Counted -> Nat]
  BY <1>1 DEF Pointers
<1> HIDE DEF o
<1>5. obj.count[c] = 0 /\ c \in Object /\ c \notin Sole /\ c # NullPointer
  BY <1>1, NullIsNothing DEF Sound, OwnedLive, Owned, Object
<1>6. ASSUME NEW x \in Counted
      PROVE  o.count[x] = Held(o.ref, RefSlot, x) + Held(o.member, Object, x) + Same(a, x)
  <2>1. Held(o.ref, RefSlot, x) = Held(obj.ref, RefSlot, x) - Same(a, x) + Same(c, x)
    BY <1>2, <1>3, RefHeldChanges DEF a
  <2>2. obj.count[x] = Held(obj.ref, RefSlot, x) + Held(obj.member, Object, x) + Same(NullPointer, x)
    BY DEF Sound, Balanced
  <2>3. Held(obj.ref, RefSlot, x) \in Nat /\ Held(obj.member, Object, x) \in Nat
    BY HeldType, NullIsNothing
  <2>4. Same(NullPointer, x) = 0 /\ Same(a, x) \in Nat
    BY NullIsNothing DEF Same
  <2>5. o.count[x] = obj.count[x] + Same(c, x)
    BY <1>3, <1>4, <1>5 DEF Same
  <2>6. Same(c, x) \in Nat
    BY DEF Same
  <2> QED BY <1>3, <2>1, <2>2, <2>3, <2>4, <2>5, <2>6
<1>7. OwnedLive(o, NullPointer)
  <2>1. \A x \in Object : IsDying(o, x) <=> IsDying(obj, x)
    BY <1>3 DEF IsDying
  <2>2. ~IsDying(obj, c)
    BY <1>1 DEF Sound, DyingLive, IsDying
  <2>3. \A x \in Object : x # c => (Owned(o, x) <=> Owned(obj, x))
    BY <1>3, <1>4 DEF Owned, Touches
  <2>4. Owned(o, c)
    BY <1>3, <1>4 DEF Owned
  <2> QED BY <1>3, <1>5, <2>1, <2>2, <2>3, <2>4 DEF Sound, OwnedLive
<1>8. SoleOwners(o) /\ DyingLive(o) /\ MembersLive(o) /\ Balanced(o, a)
  BY <1>3, <1>6 DEF Sound, SoleOwners, DyingLive, MembersLive, Balanced
<1>9. Sound(o, a, NullPointer)
  BY <1>3, <1>7, <1>8 DEF Sound
<1> QED BY <1>1, <1>2, <1>9, PushesRelease

\* A destructor starts: of an object that no owner has any more, or whose owner forgets it later.
LEMMA Frame ==
    ASSUME NEW o \in Pointers, NEW z \in Object, NEW s \in OwnSlot \cup {NullPointer}
    PROVE  LET d == Deleting(o, z, s)
           IN  /\ d \in Pointers /\ d.ref = o.ref /\ d.own = o.own /\ d.member = o.member /\ d.count = o.count
               /\ d.live = o.live
               /\ Len(d.stack) = Len(o.stack) + 1 /\ Len(o.stack) \in Nat
               /\ \A i \in 1 .. Len(o.stack) : d.stack[i] = o.stack[i]
               /\ d.stack[Len(d.stack)].obj = z /\ d.stack[Len(d.stack)].slot = s
               /\ \A x : IsDying(d, x) <=> IsDying(o, x) \/ x = z
               /\ \A t : Touches(d, t) <=> Touches(o, t) \/ t = s
<1> DEFINE frame == [what |-> "dying", obj |-> z, slot |-> s]
           stack == Append(o.stack, frame)
           d == [o EXCEPT !.stack = stack]
<1>1. o.stack \in Seq(Destructors) /\ frame \in Destructors
  BY DEF Pointers, Destructors
<1>2. frame.obj = z /\ frame.slot = s
  OBVIOUS
<1> HIDE DEF frame
<1>3. /\ stack \in Seq(Destructors) /\ Len(stack) = Len(o.stack) + 1 /\ Len(o.stack) \in Nat
      /\ \A i \in 1 .. Len(o.stack) : stack[i] = o.stack[i]
      /\ stack[Len(o.stack) + 1] = frame
  BY <1>1, AppendProperties
<1>4. Deleting(o, z, s) = d
  BY DEF Deleting, Owning!Dying, frame
<1> HIDE DEF stack
<1>5. /\ d \in Pointers /\ d.ref = o.ref /\ d.own = o.own /\ d.member = o.member /\ d.count = o.count
      /\ d.live = o.live /\ d.stack = stack
  BY <1>3 DEF Pointers
<1> HIDE DEF d
<1>6. \A x : IsDying(d, x) <=> IsDying(o, x) \/ x = z
  BY <1>2, <1>3, <1>5 DEF IsDying
<1>7. \A t : Touches(d, t) <=> Touches(o, t) \/ t = s
  BY <1>2, <1>3, <1>5 DEF Touches
<1> QED BY <1>2, <1>3, <1>4, <1>5, <1>6, <1>7

LEMMA Deleted ==
    ASSUME NEW o, NEW z \in Object, NEW s \in OwnSlot \cup {NullPointer}, Sound(o, NullPointer, NullPointer) \/ Sound(o, NullPointer, z),
           z \in o.live, ~IsDying(o, z), s # NullPointer => o.own[s] = z /\ ~Touches(o, s),
           s = NullPointer => ~Owned(o, z)
    PROVE  Sound(Deleting(o, z, s), NullPointer, NullPointer)
<1> DEFINE d == Deleting(o, z, s)
<1>1. /\ o \in Pointers /\ Balanced(o, NullPointer) /\ SoleOwners(o) /\ DyingLive(o) /\ MembersLive(o)
      /\ \A x \in Object : x # z => (x \in o.live /\ ~IsDying(o, x) <=> Owned(o, x))
  BY NullIsNothing DEF Sound, OwnedLive
<1>2. /\ d \in Pointers /\ d.ref = o.ref /\ d.own = o.own /\ d.member = o.member /\ d.count = o.count
      /\ d.live = o.live
      /\ Len(d.stack) = Len(o.stack) + 1 /\ Len(o.stack) \in Nat
      /\ \A i \in 1 .. Len(o.stack) : d.stack[i] = o.stack[i]
      /\ d.stack[Len(d.stack)].obj = z /\ d.stack[Len(d.stack)].slot = s
      /\ \A x : IsDying(d, x) <=> IsDying(o, x) \/ x = z
      /\ \A t : Touches(d, t) <=> Touches(o, t) \/ t = s
  BY <1>1, Frame
<1> HIDE DEF d
<1>3. ~Owned(d, z)
  <2>1. CASE s = NullPointer
    BY <1>2, <2>1, NullIsNothing DEF Owned
  <2>2. CASE s # NullPointer
    <3>1. s \in OwnSlot /\ o.own[s] = z /\ z \in Sole /\ z \notin Counted
      BY <1>1, <2>2, NullIsNothing DEF Pointers, Object
    <3>2. \A t \in OwnSlot : o.own[t] = z => t = s
      BY <1>1, <3>1, NullIsNothing DEF SoleOwners
    <3> QED BY <1>2, <3>1, <3>2 DEF Owned
  <2> QED BY <2>1, <2>2
<1>4. \A x \in Object : x # z => (Owned(d, x) <=> Owned(o, x))
  BY <1>2, NullIsNothing DEF Owned
<1>5. OwnedLive(d, NullPointer)
  BY <1>1, <1>2, <1>3, <1>4, NullIsNothing DEF OwnedLive
<1>6. DyingLive(d)
  <2>1. \A i \in 1 .. Len(d.stack) : i \in 1 .. Len(o.stack) \/ i = Len(d.stack)
    BY <1>2
  <2>2. \A i \in 1 .. Len(o.stack) : o.stack[i].obj # z
    BY DEF IsDying
  <2>3. ASSUME NEW i \in 1 .. Len(d.stack)
        PROVE  /\ d.stack[i].obj \in d.live
               /\ d.stack[i].slot # NullPointer => d.own[d.stack[i].slot] = d.stack[i].obj
    <3>1. CASE i \in 1 .. Len(o.stack)
      BY <1>1, <1>2, <3>1 DEF DyingLive
    <3>2. CASE i = Len(d.stack)
      BY <1>2, <3>2
    <3> QED BY <2>1, <3>1, <3>2
  <2>4. ASSUME NEW i \in 1 .. Len(d.stack), NEW j \in 1 .. Len(d.stack), i # j
        PROVE  d.stack[i].obj # d.stack[j].obj
    <3>1. CASE i \in 1 .. Len(o.stack) /\ j \in 1 .. Len(o.stack)
      <4>1. o.stack[i].obj # o.stack[j].obj
        BY <1>1, <2>4, <3>1 DEF DyingLive
      <4>2. d.stack[i] = o.stack[i] /\ d.stack[j] = o.stack[j]
        BY <1>2, <3>1
      <4> QED BY <4>1, <4>2
    <3>2. CASE i = Len(d.stack) /\ j \in 1 .. Len(o.stack)
      BY <1>2, <2>2, <3>2
    <3>3. CASE j = Len(d.stack) /\ i \in 1 .. Len(o.stack)
      BY <1>2, <2>2, <3>3
    <3> QED BY <2>1, <2>4, <3>1, <3>2, <3>3
  <2> QED BY <2>3, <2>4 DEF DyingLive
<1>7. Balanced(d, NullPointer) /\ SoleOwners(d) /\ MembersLive(d)
  BY <1>1, <1>2 DEF Balanced, SoleOwners, MembersLive
<1> QED BY <1>2, <1>5, <1>6, <1>7 DEF Sound, d

\* What nothing owns any more is deleted, if it is anything.
LEMMA PushesDying ==
    ASSUME NEW o, NEW z \in Object \cup {NullPointer}, Sound(o, NullPointer, z),
           obj' = Owning!Pushed(o, Owning!Dying(z, NullPointer))
    PROVE  OwningInv'
<1>1. CASE z = NullPointer
  BY <1>1 DEF Owning!Pushed, Owning!Dying, OwningInv
<1>2. CASE z # NullPointer
  <2>1. obj' = Deleting(o, z, NullPointer) /\ z \in Object
    BY <1>2 DEF Owning!Pushed, Owning!Dying, Deleting
  <2>2. z \in o.live /\ ~IsDying(o, z) /\ ~Owned(o, z)
    BY <1>2, <2>1 DEF Sound, OwnedLive
  <2>3. Sound(Deleting(o, z, NullPointer), NullPointer, NullPointer)
    BY <2>1, <2>2, Deleted
  <2> QED BY <2>1, <2>3 DEF OwningInv
<1> QED BY <1>1, <1>2

LEMMA TouchesIs ==
    ASSUME NEW s PROVE Owning!Untouched(s) /\ obj \in Pointers => ~Touches(obj, s)
BY DEF Owning!Untouched, Pointers, Touches

\* What an untouched slot owns lives, and no other slot owns it.
LEMMA SlotOwns ==
    ASSUME Sound(obj, NullPointer, NullPointer), NEW s \in OwnSlot, Owning!Untouched(s), obj.own[s] # NullPointer
    PROVE  /\ obj.own[s] \in Sole /\ obj.own[s] \in obj.live /\ ~IsDying(obj, obj.own[s])
           /\ \A t \in OwnSlot : obj.own[t] = obj.own[s] => t = s
<1>1. ~Touches(obj, s) /\ obj \in Pointers
  BY TouchesIs DEF Sound
<1>2. obj.own[s] \in Sole
  BY <1>1 DEF Pointers
<1>3. Owned(obj, obj.own[s])
  BY <1>1 DEF Owned
<1> QED BY <1>2, <1>3 DEF Sound, OwnedLive, Object, SoleOwners

LEMMA MakeOwnKeeps ==
    ASSUME Sound(obj, NullPointer, NullPointer), NEW s \in OwnSlot, NEW x \in Sole, Owning!MakeOwn(s, x)
    PROVE  OwningInv'
<1> DEFINE z == obj.own[s]
           o == [obj EXCEPT !.live = @ \cup {x}, !.own[s] = x]
<1>1. /\ obj' = Owning!Pushed(o, Owning!Dying(z, NullPointer)) /\ obj \in Pointers /\ x \notin obj.live
      /\ ~Touches(obj, s)
  BY TouchesIs DEF Owning!MakeOwn, Sound
<1>2. obj.own \in [OwnSlot -> Sole \cup {NullPointer}] /\ z \in Sole \cup {NullPointer} /\ x \in Object
  BY <1>1 DEF Pointers, Object
<1>3. z # NullPointer => z \in obj.live /\ ~IsDying(obj, z) /\ \A t \in OwnSlot : obj.own[t] = z => t = s
  BY SlotOwns DEF Owning!MakeOwn
<1>4. /\ o \in Pointers /\ o.own = [obj.own EXCEPT ![s] = x] /\ o.ref = obj.ref /\ o.member = obj.member
      /\ o.live = obj.live \cup {x} /\ o.stack = obj.stack /\ o.count = obj.count
  BY <1>1, <1>2 DEF Pointers, Object
<1> HIDE DEF o
<1>5. \A w \in Object : w \in obj.live /\ ~IsDying(obj, w) <=> Owned(obj, w)
  BY NullIsNothing DEF Sound, OwnedLive
<1>6. ~IsDying(obj, x) /\ ~Owned(obj, x) /\ x # z /\ x # NullPointer /\ x \notin Counted
  BY <1>1, <1>2, <1>3, <1>5, NullIsNothing DEF Sound, DyingLive, IsDying
<1>7. (\A w : IsDying(o, w) <=> IsDying(obj, w)) /\ \A t : Touches(o, t) <=> Touches(obj, t)
  BY <1>4 DEF IsDying, Touches
<1>8. Owned(o, x)
  BY <1>1, <1>2, <1>4, <1>7 DEF Owned
<1>9. \A w \in Object : w # x /\ w # z => (Owned(o, w) <=> Owned(obj, w))
  BY <1>2, <1>4, <1>7 DEF Owned
<1>10. z # NullPointer => z \in Object /\ ~Owned(o, z)
  BY <1>2, <1>3, <1>4, <1>6, <1>7, NullIsNothing DEF Owned, Object
<1> HIDE DEF z
<1>11. OwnedLive(o, z)
  <2>1. ASSUME NEW w \in Object PROVE w \in o.live /\ ~IsDying(o, w) <=> Owned(o, w) \/ w = z
    <3>1. CASE w = x
      BY <1>4, <1>6, <1>7, <1>8, <3>1
    <3>2. CASE w = z
      BY <1>3, <1>4, <1>7, <3>2, NullIsNothing
    <3>3. CASE w # x /\ w # z
      BY <1>4, <1>5, <1>7, <1>9, <3>3
    <3> QED BY <3>1, <3>2, <3>3
  <2> QED BY <1>10, <2>1 DEF OwnedLive
<1>12. SoleOwners(o)
  <2>1. \A t \in OwnSlot : obj.own[t] # x
    <3>1. SUFFICES ASSUME NEW t \in OwnSlot, obj.own[t] = x PROVE FALSE
      OBVIOUS
    <3>2. Touches(obj, t)
      BY <1>6, <3>1 DEF Owned
    <3>3. PICK i \in 1 .. Len(obj.stack) : obj.stack[i].slot = t
      BY <3>2 DEF Touches
    <3> QED BY <1>6, <3>1, <3>3, NullIsNothing DEF Sound, DyingLive, IsDying
  <2> QED BY <1>2, <1>4, <2>1 DEF Sound, SoleOwners
<1>13. DyingLive(o)
  <2>1. \A i \in 1 .. Len(obj.stack) : obj.stack[i].slot # s
    BY <1>1 DEF Touches
  <2>2. \A i \in 1 .. Len(obj.stack) : obj.stack[i].slot # NullPointer => obj.stack[i].slot \in OwnSlot
    <3>1. \A i \in 1 .. Len(obj.stack) : obj.stack[i] \in Destructors
      BY <1>1 DEF Pointers
    <3> QED BY <3>1 DEF Destructors
  <2> QED BY <1>2, <1>4, <2>1, <2>2 DEF Sound, DyingLive
<1>14. Balanced(o, NullPointer) /\ MembersLive(o)
  BY <1>4 DEF Sound, Balanced, MembersLive
<1>15. Sound(o, NullPointer, z)
  BY <1>4, <1>11, <1>12, <1>13, <1>14 DEF Sound
<1>16. z \in Object \cup {NullPointer}
  BY <1>10
<1> QED BY <1>1, <1>15, <1>16, PushesDying

LEMMA MoveOwnKeeps ==
    ASSUME Sound(obj, NullPointer, NullPointer), NEW s \in OwnSlot, NEW t \in OwnSlot, Owning!MoveOwn(s, t)
    PROVE  OwningInv'
<1> DEFINE left == [obj.own EXCEPT ![t] = NullPointer]
           z == left[s]
           o == [obj EXCEPT !.own = [left EXCEPT ![s] = obj.own[t]]]
<1>1. /\ obj' = Owning!Pushed(o, Owning!Dying(z, NullPointer)) /\ obj \in Pointers
      /\ ~Touches(obj, s) /\ ~Touches(obj, t)
  BY TouchesIs DEF Owning!MoveOwn, Sound
<1>2. obj.own \in [OwnSlot -> Sole \cup {NullPointer}] /\ z \in Sole \cup {NullPointer}
  BY <1>1 DEF Pointers
<1>3. z # NullPointer => /\ z \in obj.live /\ ~IsDying(obj, z) /\ s # t /\ obj.own[s] = z
                         /\ \A u \in OwnSlot : obj.own[u] = z => u = s
  BY <1>2, SlotOwns DEF Owning!MoveOwn
<1>4. /\ o \in Pointers /\ o.ref = obj.ref /\ o.member = obj.member
      /\ o.live = obj.live /\ o.stack = obj.stack /\ o.count = obj.count
      /\ \A u \in OwnSlot : o.own[u] = IF u = s THEN obj.own[t] ELSE IF u = t THEN NullPointer ELSE obj.own[u]
  BY <1>1, <1>2 DEF Pointers
<1>5. z # NullPointer \/ s = t \/ obj.own[s] = NullPointer
  BY <1>2
<1> HIDE DEF o, z
<1>6. \A w \in Object : w \in obj.live /\ ~IsDying(obj, w) <=> Owned(obj, w)
  BY NullIsNothing DEF Sound, OwnedLive
<1>7. (\A w : IsDying(o, w) <=> IsDying(obj, w)) /\ \A u : Touches(o, u) <=> Touches(obj, u)
  BY <1>4 DEF IsDying, Touches
<1>8. ASSUME NEW w \in Object, w # z PROVE Owned(o, w) <=> Owned(obj, w)
  <2>1. ASSUME NEW u \in OwnSlot, o.own[u] = w, ~Touches(o, u) PROVE Owned(obj, w)
    BY <1>1, <1>4, <1>7, <2>1, NullIsNothing DEF Owned
  <2>2. ASSUME NEW u \in OwnSlot, obj.own[u] = w, ~Touches(obj, u) PROVE Owned(o, w)
    <3>1. CASE u = t
      BY <1>1, <1>4, <1>7, <2>2, <3>1 DEF Owned
    <3>2. CASE u = s /\ s # t
      <4>1. obj.own[s] = z
        BY <1>2, <3>2 DEF z
      <4> QED BY <1>8, <2>2, <3>2, <4>1
    <3>3. CASE u # s /\ u # t
      BY <1>4, <1>7, <2>2, <3>3 DEF Owned
    <3> QED BY <3>1, <3>2, <3>3
  <2> QED BY <1>4, <2>1, <2>2 DEF Owned
<1>9. z # NullPointer => z \in Object /\ z \notin Counted /\ ~Owned(o, z)
  BY <1>2, <1>3, <1>4, NullIsNothing DEF Owned, Object
<1>10. OwnedLive(o, z)
  BY <1>3, <1>4, <1>6, <1>7, <1>8, <1>9, NullIsNothing DEF OwnedLive
<1>11. SoleOwners(o)
  BY <1>4 DEF Sound, SoleOwners
<1>12. DyingLive(o)
  <2>1. \A i \in 1 .. Len(obj.stack) : obj.stack[i].slot # s /\ obj.stack[i].slot # t
    BY <1>1 DEF Touches
  <2>2. \A i \in 1 .. Len(obj.stack) : obj.stack[i].slot # NullPointer => obj.stack[i].slot \in OwnSlot
    <3>1. \A i \in 1 .. Len(obj.stack) : obj.stack[i] \in Destructors
      BY <1>1 DEF Pointers
    <3> QED BY <3>1 DEF Destructors
  <2> QED BY <1>4, <2>1, <2>2 DEF Sound, DyingLive
<1>13. Balanced(o, NullPointer) /\ MembersLive(o)
  BY <1>4 DEF Sound, Balanced, MembersLive
<1>14. Sound(o, NullPointer, z)
  BY <1>4, <1>10, <1>11, <1>12, <1>13 DEF Sound
<1>15. z \in Object \cup {NullPointer}
  BY <1>9
<1> QED BY <1>1, <1>14, <1>15, PushesDying

LEMMA ClearOwnKeeps ==
    ASSUME Sound(obj, NullPointer, NullPointer), NEW s \in OwnSlot, Owning!ClearOwn(s)
    PROVE  OwningInv'
<1> DEFINE z == obj.own[s]
<1>1. obj' = Owning!Pushed(obj, Owning!Dying(z, s)) /\ ~Touches(obj, s)
  BY TouchesIs DEF Owning!ClearOwn, Sound
<1>2. CASE z = NullPointer
  <2>1. obj' = obj
    BY <1>1, <1>2 DEF Owning!Pushed, Owning!Dying
  <2> QED BY <2>1 DEF OwningInv
<1>3. CASE z # NullPointer
  <2>1. z \in Object /\ z \in obj.live /\ ~IsDying(obj, z)
    BY <1>3, SlotOwns DEF Owning!ClearOwn, Object
  <2>2. obj' = Deleting(obj, z, s)
    BY <1>1, <1>3 DEF Owning!Pushed, Owning!Dying, Deleting
  <2>3. s # NullPointer
    BY NullIsNothing
  <2>4. Sound(Deleting(obj, z, s), NullPointer, NullPointer)
    BY <1>1, <2>1, <2>3, Deleted
  <2> QED BY <2>2, <2>4 DEF OwningInv
<1> QED BY <1>2, <1>3

\* Which of the two a state is shows in the last frame.
LEMMA SoundRuns ==
    ASSUME Sound(obj, NullPointer, NullPointer)
    PROVE  Owning!Running /\ (obj.stack # <<>> => Owning!Last(obj.stack) \in Destructors)
<1>1. obj.stack \in Seq(Destructors)
  BY DEF Sound, Pointers
<1>2. obj.stack # <<>> => Owning!Last(obj.stack) \in Destructors
  BY <1>1, StackTops
<1> QED BY <1>2 DEF Owning!Running, Destructors

LEMMA ReleasingIs ==
    ASSUME NEW h \in Pointers, NEW y \in Counted
    PROVE  LET r == Releasing(h, y)
           IN  /\ r.stack = Append(h.stack, Owning!Unref(y)) /\ r.ref = h.ref /\ r.own = h.own
               /\ r.member = h.member /\ r.count = h.count /\ r.live = h.live
               /\ Owning!Front(r.stack) = h.stack /\ r.stack # <<>>
               /\ Owning!Last(r.stack) = Owning!Unref(y)
               /\ h = [ref |-> h.ref, own |-> h.own, member |-> h.member, count |-> h.count, live |-> h.live,
                       stack |-> h.stack]
<1>1. h.stack \in Seq(Destructors)
  BY DEF Pointers
<1>2. /\ Releasing(h, y).stack = Append(h.stack, Owning!Unref(y)) /\ Releasing(h, y).ref = h.ref
      /\ Releasing(h, y).own = h.own /\ Releasing(h, y).member = h.member /\ Releasing(h, y).count = h.count
      /\ Releasing(h, y).live = h.live
  BY DEF Releasing, Pointers
<1>3. h = [ref |-> h.ref, own |-> h.own, member |-> h.member, count |-> h.count, live |-> h.live,
           stack |-> h.stack]
  BY DEF Pointers
<1> QED BY <1>1, <1>2, <1>3, FrontOfAppend

LEMMA UnrefStepKeeps == ASSUME OwningInv, Owning!UnrefStep PROVE OwningInv'
<1>1. ~Sound(obj, NullPointer, NullPointer)
  BY SoundRuns DEF Owning!UnrefStep
<1>2. PICK h \in Pointers, y \in Counted : Sound(h, y, NullPointer) /\ obj = Releasing(h, y)
  BY <1>1 DEF OwningInv
<1> DEFINE n == h.count[y] - 1
           counts == [h.count EXCEPT ![y] = n]
           o == [h EXCEPT !.count = counts]
<1>3. Owning!Last(obj.stack).obj = y /\ obj.count = h.count /\ Owning!Front(obj.stack) = h.stack
  <2>1. Owning!Last(obj.stack) = Owning!Unref(y) /\ obj.count = h.count /\ Owning!Front(obj.stack) = h.stack
    BY <1>2, ReleasingIs
  <2> QED BY <2>1 DEF Owning!Unref
<1>4. [obj EXCEPT !.count[y] = n, !.stack = Owning!Front(@)] = o
  BY <1>2, <1>3, ReleasingIs DEF Releasing, Pointers
<1>5. obj' = IF n = 0 THEN Owning!Pushed(o, Owning!Dying(y, NullPointer)) ELSE o
  <2> HIDE DEF o
  <2> QED BY <1>3, <1>4 DEF Owning!UnrefStep, Owning!Deletes
<1>6. h.count \in [Counted -> Nat] /\ h.count[y] # 0 /\ y \in h.live /\ ~IsDying(h, y)
  BY <1>2, HeldIsCounted DEF Pointers
<1>7. counts \in [Counted -> Nat] /\ \A x \in Counted : counts[x] = h.count[x] - Same(y, x)
  BY <1>6 DEF Same
<1> HIDE DEF counts
<1>8. /\ o \in Pointers /\ o.ref = h.ref /\ o.own = h.own /\ o.member = h.member /\ o.live = h.live
      /\ o.stack = h.stack /\ o.count = counts
  BY <1>7 DEF Pointers
<1> HIDE DEF o
<1>9. ASSUME NEW x \in Counted
      PROVE  o.count[x] = Held(o.ref, RefSlot, x) + Held(o.member, Object, x) + Same(NullPointer, x)
  <2>1. h.count[x] = Held(h.ref, RefSlot, x) + Held(h.member, Object, x) + Same(y, x)
    BY <1>2 DEF Sound, Balanced
  <2>2. Held(h.ref, RefSlot, x) \in Nat /\ Held(h.member, Object, x) \in Nat
    BY HeldType, NullIsNothing
  <2>3. Same(NullPointer, x) = 0 /\ Same(y, x) \in Nat
    BY NullIsNothing DEF Same
  <2> QED BY <1>7, <1>8, <2>1, <2>2, <2>3
<1>10. Balanced(o, NullPointer) /\ SoleOwners(o) /\ DyingLive(o) /\ MembersLive(o)
  BY <1>2, <1>8, <1>9 DEF Sound, Balanced, SoleOwners, DyingLive, MembersLive
<1>11. /\ \A x : (IsDying(o, x) <=> IsDying(h, x)) /\ (x # y => (Owned(o, x) <=> Owned(h, x)))
       /\ y \in Object /\ y # NullPointer /\ y \notin Sole
  <2>1. \A x \in Counted : x # y => o.count[x] = h.count[x]
    BY <1>6, <1>7, <1>8 DEF Same
  <2> QED BY <1>8, <2>1, NullIsNothing DEF IsDying, Owned, Touches, Object
<1>12. Owned(o, y) <=> n # 0
  <2>1. \A s \in OwnSlot : o.own[s] # y
    BY <1>8, <1>11, NullIsNothing DEF Pointers
  <2>2. o.count[y] = n
    BY <1>6, <1>7, <1>8 DEF Same
  <2> QED BY <2>1, <2>2 DEF Owned
<1>13. \A x \in Object : x \in h.live /\ ~IsDying(h, x) <=> Owned(h, x)
  BY <1>2, NullIsNothing DEF Sound, OwnedLive
<1>14. CASE n = 0
  <2>1. OwnedLive(o, y)
    BY <1>6, <1>8, <1>11, <1>12, <1>13, <1>14 DEF OwnedLive
  <2>2. Sound(o, NullPointer, y)
    BY <1>8, <1>10, <2>1 DEF Sound
  <2> QED BY <1>5, <1>11, <1>14, <2>2, PushesDying
<1>15. CASE n # 0
  <2>1. OwnedLive(o, NullPointer)
    BY <1>6, <1>8, <1>11, <1>12, <1>13, <1>15, NullIsNothing DEF OwnedLive
  <2>2. Sound(o, NullPointer, NullPointer)
    BY <1>8, <1>10, <2>1 DEF Sound
  <2> QED BY <1>5, <1>15, <2>2 DEF OwningInv
<1> QED BY <1>14, <1>15

LEMMA RunningIs == ASSUME OwningInv, Owning!Running PROVE Sound(obj, NullPointer, NullPointer)
<1>1. SUFFICES ASSUME NEW h \in Pointers, NEW y \in Counted, obj = Releasing(h, y) PROVE FALSE
  BY DEF OwningInv
<1>2. Owning!Last(obj.stack) = Owning!Unref(y) /\ obj.stack # <<>>
  BY <1>1, ReleasingIs
<1>3. Owning!Unref(y).what = "unref"
  BY DEF Owning!Unref
<1> QED BY <1>2, <1>3 DEF Owning!Running

LEMMA DestructorEndsKeeps == ASSUME OwningInv, Owning!DestructorEnds PROVE OwningInv'
<1> DEFINE n == Len(obj.stack)
           top == Owning!Last(obj.stack)
           x == top.obj
           y == obj.member[x]
           owns == [s \in OwnSlot |-> IF s = top.slot THEN NullPointer ELSE obj.own[s]]
           o == [obj EXCEPT !.live = @ \ {x}, !.member[x] = NullPointer, !.stack = Owning!Front(@), !.own = owns]
<1>1. Sound(obj, NullPointer, NullPointer) /\ obj \in Pointers
  BY RunningIs DEF Owning!DestructorEnds, Sound
<1>2. obj' = Owning!Pushed(o, Owning!Unref(y)) /\ obj.stack # <<>>
  BY DEF Owning!DestructorEnds
<1>3. obj.stack \in Seq(Destructors)
  BY <1>1 DEF Pointers
<1>4. /\ n \in Nat \ {0} /\ top = obj.stack[n] /\ top \in Destructors
      /\ Owning!Front(obj.stack) \in Seq(Destructors) /\ Len(Owning!Front(obj.stack)) = n - 1
      /\ \A i \in 1 .. n - 1 : Owning!Front(obj.stack)[i] = obj.stack[i]
  BY <1>2, <1>3, StackTops
<1> HIDE DEF n, top
<1>5. x \in Object /\ top.slot \in OwnSlot \cup {NullPointer}
  BY <1>4 DEF Destructors
<1>6. y \in Counted \cup {NullPointer} /\ owns \in [OwnSlot -> Sole \cup {NullPointer}]
  BY <1>1, <1>5 DEF Pointers
<1>7. \A s \in OwnSlot : owns[s] = IF s = top.slot THEN NullPointer ELSE obj.own[s]
  OBVIOUS
<1> HIDE DEF x, owns
<1>8. /\ o \in Pointers /\ o.ref = obj.ref /\ o.own = owns /\ o.member = [obj.member EXCEPT ![x] = NullPointer]
      /\ o.live = obj.live \ {x} /\ o.stack = Owning!Front(obj.stack) /\ o.count = obj.count
  BY <1>1, <1>4, <1>5, <1>6 DEF Pointers
<1> HIDE DEF o, y
<1>9. /\ n = Len(obj.stack) /\ Len(o.stack) = n - 1 /\ x = obj.stack[n].obj
      /\ \A i \in 1 .. n - 1 : o.stack[i] = obj.stack[i] /\ i \in 1 .. n
      /\ n \in 1 .. n /\ \A i \in 1 .. n : i # n => i \in 1 .. n - 1
  BY <1>4, <1>8 DEF n, x
<1>10. ASSUME NEW i \in 1 .. n - 1
       PROVE  obj.stack[i].obj # x /\ (obj.stack[i].slot # NullPointer => obj.stack[i].slot # top.slot)
  <2>1. i \in 1 .. n /\ i # n
    BY <1>4, <1>9
  <2>2. obj.stack[i].obj # x
    BY <1>1, <1>9, <2>1 DEF Sound, DyingLive
  <2>3. ASSUME obj.stack[i].slot # NullPointer, obj.stack[i].slot = top.slot PROVE FALSE
    <3>1. obj.own[top.slot] = obj.stack[i].obj /\ obj.own[top.slot] = x
      BY <1>1, <1>4, <1>9, <2>1, <2>3 DEF Sound, DyingLive, x
    <3> QED BY <2>2, <3>1
  <2> QED BY <2>2, <2>3
<1>11. \A w : IsDying(obj, w) <=> IsDying(o, w) \/ w = x
  BY <1>9 DEF IsDying
<1>12. ~IsDying(o, x) /\ x \in obj.live
  BY <1>1, <1>9, <1>10 DEF IsDying, Sound, DyingLive
<1>13. \A s \in OwnSlot : s # top.slot => (Touches(o, s) <=> Touches(obj, s))
  BY <1>4, <1>9 DEF Touches
<1>14. top.slot \in OwnSlot => Touches(obj, top.slot)
  BY <1>4, <1>9 DEF Touches
<1>15. \A w \in Object : Owned(o, w) <=> Owned(obj, w)
  BY <1>7, <1>8, <1>13, <1>14, NullIsNothing DEF Owned
<1>16. OwnedLive(o, NullPointer)
  <2>1. \A w \in Object : w \in obj.live /\ ~IsDying(obj, w) <=> Owned(obj, w)
    BY <1>1, NullIsNothing DEF Sound, OwnedLive
  <2> QED BY <1>8, <1>11, <1>15, <2>1, NullIsNothing DEF OwnedLive
<1>17. SoleOwners(o)
  BY <1>1, <1>7, <1>8 DEF Sound, SoleOwners
<1>18. DyingLive(o)
  <2>1. \A i \in 1 .. Len(obj.stack) : obj.stack[i].slot # NullPointer => obj.stack[i].slot \in OwnSlot
    <3>1. \A i \in 1 .. Len(obj.stack) : obj.stack[i] \in Destructors
      BY <1>3
    <3> QED BY <3>1 DEF Destructors
  <2>2. ASSUME NEW i \in 1 .. Len(o.stack)
        PROVE  /\ o.stack[i].obj \in o.live
               /\ o.stack[i].slot # NullPointer => o.own[o.stack[i].slot] = o.stack[i].obj
    <3>1. i \in 1 .. n - 1 /\ i \in 1 .. n /\ o.stack[i] = obj.stack[i]
      BY <1>9
    <3>2. obj.stack[i].obj \in obj.live /\ (obj.stack[i].slot # NullPointer => obj.own[obj.stack[i].slot] = obj.stack[i].obj)
      BY <1>1, <1>9, <3>1 DEF Sound, DyingLive
    <3>3. o.stack[i].obj \in o.live
      BY <1>8, <1>10, <3>1, <3>2
    <3>4. ASSUME obj.stack[i].slot # NullPointer PROVE o.own[obj.stack[i].slot] = obj.stack[i].obj
      <4>1. obj.stack[i].slot \in OwnSlot /\ obj.stack[i].slot # top.slot
        BY <1>9, <1>10, <2>1, <3>1, <3>4
      <4> QED BY <1>7, <1>8, <3>2, <3>4, <4>1
    <3> QED BY <3>1, <3>3, <3>4
  <2>3. \A i, j \in 1 .. Len(o.stack) : i # j => o.stack[i].obj # o.stack[j].obj
    BY <1>1, <1>9 DEF Sound, DyingLive
  <2> QED BY <2>2, <2>3 DEF DyingLive
<1>19. MembersLive(o)
  BY <1>1, <1>5, <1>8 DEF Sound, MembersLive, Pointers
<1>20. Balanced(o, y)
  <2>1. ASSUME NEW c \in Counted
        PROVE  o.count[c] = Held(o.ref, RefSlot, c) + Held(o.member, Object, c) + Same(y, c)
    <3>1. obj.member \in [Object -> Counted \cup {NullPointer}]
      BY <1>1 DEF Pointers
    <3>2. Held(o.member, Object, c) = Held(obj.member, Object, c) - Same(y, c) + Same(NullPointer, c)
      BY <1>5, <1>8, <3>1, MemberHeldChanges DEF y
    <3>3. obj.count[c] = Held(obj.ref, RefSlot, c) + Held(obj.member, Object, c) + Same(NullPointer, c)
      BY <1>1 DEF Sound, Balanced
    <3>4. Held(obj.ref, RefSlot, c) \in Nat /\ Held(obj.member, Object, c) \in Nat
      BY HeldType, NullIsNothing
    <3>5. Same(NullPointer, c) = 0 /\ Same(y, c) \in Nat
      BY NullIsNothing DEF Same
    <3> QED BY <1>8, <3>2, <3>3, <3>4, <3>5
  <2> QED BY <2>1 DEF Balanced
<1>21. Sound(o, y, NullPointer)
  BY <1>8, <1>16, <1>17, <1>18, <1>19, <1>20 DEF Sound
<1> QED BY <1>2, <1>6, <1>21, PushesRelease DEF y

LEMMA OwningBegins == ASSUME Owning!Init PROVE OwningInv
<1>1. /\ obj \in Pointers /\ obj.stack = <<>> /\ obj.live = {} /\ Len(obj.stack) = 0
      /\ obj.ref = [s \in RefSlot |-> NullPointer] /\ obj.own = [s \in OwnSlot |-> NullPointer]
      /\ obj.member = [x \in Object |-> NullPointer] /\ obj.count = [x \in Counted |-> 0]
  BY DEF Owning!Init, Pointers, Object
<1>2. ASSUME NEW x \in Counted
      PROVE  obj.count[x] = Held(obj.ref, RefSlot, x) + Held(obj.member, Object, x) + Same(NullPointer, x)
  <2>1. (\A s \in RefSlot : obj.ref[s] # x) /\ (\A s \in Object : obj.member[s] # x)
    BY <1>1, NullIsNothing
  <2>2. Held(obj.ref, RefSlot, x) = 0 /\ Held(obj.member, Object, x) = 0
    BY <2>1, HeldType, NullIsNothing
  <2> QED BY <1>1, <2>2, NullIsNothing DEF Same
<1>3. Balanced(obj, NullPointer) /\ SoleOwners(obj) /\ DyingLive(obj) /\ MembersLive(obj)
  BY <1>1, <1>2 DEF Balanced, SoleOwners, DyingLive, MembersLive
<1>4. OwnedLive(obj, NullPointer)
  BY <1>1, NullIsNothing DEF OwnedLive, Owned, IsDying
<1> QED BY <1>1, <1>3, <1>4 DEF Sound, OwningInv

LEMMA OwningStep == ASSUME OwningInv, [Owning!Next]_obj PROVE OwningInv'
<1>1. CASE UNCHANGED obj
  BY <1>1 DEF OwningInv
<1>2. CASE Owning!UnrefStep
  BY <1>2, UnrefStepKeeps
<1>3. CASE Owning!DestructorEnds
  BY <1>3, DestructorEndsKeeps
<1>4. CASE \E s \in RefSlot, x \in Counted : Owning!MakeRefCounted(s, x)
  BY <1>4, RunningIs, MakeRefCountedKeeps DEF Owning!MakeRefCounted
<1>5. CASE \E s, t \in RefSlot : Owning!CopyAssign(s, t)
  BY <1>5, RunningIs, CopyAssignKeeps DEF Owning!CopyAssign
<1>6. CASE \E s, t \in RefSlot : Owning!MoveAssign(s, t)
  BY <1>6, RunningIs, MoveAssignKeeps DEF Owning!MoveAssign
<1>7. CASE \E s \in RefSlot : Owning!Destroy(s)
  BY <1>7, RunningIs, DestroyKeeps DEF Owning!Destroy
<1>8. CASE \E s \in RefSlot, x \in Object : Owning!AssignMember(x, s)
  BY <1>8, RunningIs, AssignMemberKeeps DEF Owning!AssignMember
<1>9. CASE \E s \in OwnSlot : Owning!ClearOwn(s)
  BY <1>9, RunningIs, ClearOwnKeeps DEF Owning!ClearOwn
<1>10. CASE \E s \in OwnSlot, x \in Sole : Owning!MakeOwn(s, x)
  BY <1>10, RunningIs, MakeOwnKeeps DEF Owning!MakeOwn
<1>11. CASE \E s, t \in OwnSlot : Owning!MoveOwn(s, t)
  BY <1>11, RunningIs, MoveOwnKeeps DEF Owning!MoveOwn
<1> QED BY <1>1, <1>2, <1>3, <1>4, <1>5, <1>6, <1>7, <1>8, <1>9, <1>10, <1>11 DEF Owning!Next, Object

-----------------------------------------------------------------------------
\* A state of either kind in the same terms: the pending destructors, then what is given back.
LEMMA View ==
    ASSUME OwningInv
    PROVE  \E h \in Pointers, y \in Counted \cup {NullPointer} :
              /\ Sound(h, y, NullPointer)
              /\ obj.ref = h.ref /\ obj.own = h.own /\ obj.member = h.member /\ obj.count = h.count
              /\ obj.live = h.live /\ Len(h.stack) \in Nat
              /\ DOMAIN obj.stack = 1 .. (IF y = NullPointer THEN Len(h.stack) ELSE Len(h.stack) + 1)
              /\ \A i \in 1 .. Len(h.stack) : obj.stack[i] = h.stack[i] /\ h.stack[i] \in Destructors
              /\ y # NullPointer => obj.stack[Len(h.stack) + 1] = Owning!Unref(y)
              /\ obj.stack = <<>> => y = NullPointer
<1>1. CASE Sound(obj, NullPointer, NullPointer)
  <2>1. obj \in Pointers
    BY <1>1 DEF Sound
  <2>2. obj.stack \in Seq(Destructors)
    BY <2>1 DEF Pointers
  <2>3. Len(obj.stack) \in Nat /\ DOMAIN obj.stack = 1 .. Len(obj.stack) /\ \A i \in 1 .. Len(obj.stack) : obj.stack[i] \in Destructors
    BY <2>2
  <2> QED BY <1>1, <2>1, <2>3
<1>2. CASE \E h \in Pointers, y \in Counted : Sound(h, y, NullPointer) /\ obj = Releasing(h, y)
  <2>1. PICK h \in Pointers, y \in Counted : Sound(h, y, NullPointer) /\ obj = Releasing(h, y)
    BY <1>2
  <2>2. /\ obj.ref = h.ref /\ obj.own = h.own /\ obj.member = h.member /\ obj.count = h.count
        /\ obj.live = h.live /\ obj.stack = Append(h.stack, Owning!Unref(y)) /\ obj.stack # <<>>
    BY <2>1, ReleasingIs
  <2>3. h.stack \in Seq(Destructors)
    BY DEF Pointers
  <2> DEFINE frame == Owning!Unref(y)
             G == Destructors \cup {frame}
  <2>4. h.stack \in Seq(G) /\ frame \in G
    BY <2>3, SeqMonotonic
  <2> HIDE DEF frame, G
  <2>5. /\ Append(h.stack, frame) \in Seq(G) /\ Len(Append(h.stack, frame)) = Len(h.stack) + 1
        /\ \A i \in 1 .. Len(h.stack) : Append(h.stack, frame)[i] = h.stack[i]
        /\ Append(h.stack, frame)[Len(h.stack) + 1] = frame
    BY <2>4, AppendProperties
  <2>6. obj.stack = Append(h.stack, frame)
    BY <2>2 DEF frame
  <2>7. DOMAIN obj.stack = 1 .. Len(h.stack) + 1 /\ Len(h.stack) \in Nat
    BY <2>3, <2>5, <2>6
  <2>8. \A i \in 1 .. Len(h.stack) : h.stack[i] \in Destructors
    BY <2>3
  <2>9. obj.stack[Len(h.stack) + 1] = Owning!Unref(y) /\ \A i \in 1 .. Len(h.stack) : obj.stack[i] = h.stack[i]
    BY <2>5, <2>6 DEF frame
  <2>10. y \in Counted \cup {NullPointer} /\ y # NullPointer
    BY NullIsNothing
  <2> QED BY <2>1, <2>2, <2>7, <2>8, <2>9, <2>10
<1> QED BY <1>1, <1>2 DEF OwningInv

\* As many pairs as there are members of a set.
LEMMA PairsCount ==
    ASSUME NEW S, IsFiniteSet(S), NEW kind
    PROVE  IsFiniteSet({<<kind, s>> : s \in S}) /\ Cardinality({<<kind, s>> : s \in S}) = Cardinality(S)
<1> DEFINE T == {<<kind, s>> : s \in S}
           f == [s \in S |-> <<kind, s>>]
<1>1. f \in [S -> T] /\ (\A a, b \in S : f[a] = f[b] => a = b) /\ \A t \in T : \E s \in S : f[s] = t
  OBVIOUS
<1> HIDE DEF f, T
<1>2. f \in Bijection(S, T)
  BY <1>1 DEF Bijection, Injection, Surjection, IsInjective
<1>3. ExistsBijection(S, T)
  BY <1>2 DEF ExistsBijection
<1>4. IsFiniteSet(T) /\ Cardinality(T) = Cardinality(S)
  BY <1>3, FS_Bijection
<1> QED BY <1>4 DEF T

LEMMA OwningCounts == ASSUME OwningInv PROVE Owning!CountIsHolders
<1>1. PICK h \in Pointers, y \in Counted \cup {NullPointer} :
         /\ Sound(h, y, NullPointer)
         /\ obj.ref = h.ref /\ obj.own = h.own /\ obj.member = h.member /\ obj.count = h.count
         /\ obj.live = h.live /\ Len(h.stack) \in Nat
         /\ DOMAIN obj.stack = 1 .. (IF y = NullPointer THEN Len(h.stack) ELSE Len(h.stack) + 1)
         /\ \A i \in 1 .. Len(h.stack) : obj.stack[i] = h.stack[i] /\ h.stack[i] \in Destructors
         /\ y # NullPointer => obj.stack[Len(h.stack) + 1] = Owning!Unref(y)
         /\ obj.stack = <<>> => y = NullPointer
  BY View
<1>2. ASSUME NEW x \in Counted PROVE obj.count[x] = Owning!Cardinality(Owning!Holders(x))
  <2> DEFINE slots == {s \in RefSlot : obj.ref[s] = x}
             members == {m \in Object : obj.member[m] = x}
             pending == {i \in DOMAIN obj.stack : obj.stack[i] = Owning!Unref(x)}
             A == {<<"slot", s>> : s \in slots}
             B == {<<"member", m>> : m \in members}
             C == {<<"unref", i>> : i \in pending}
  <2>1. IsFiniteSet(slots) /\ Cardinality(slots) = Held(h.ref, RefSlot, x) /\ Cardinality(slots) \in Nat
    BY <1>1, NullIsNothing, FS_Subset, FS_CardinalityType DEF Held
  <2>2. IsFiniteSet(members) /\ Cardinality(members) = Held(h.member, Object, x) /\ Cardinality(members) \in Nat
    BY <1>1, NullIsNothing, FS_Subset, FS_CardinalityType DEF Held
  <2>3. IsFiniteSet(pending) /\ Cardinality(pending) = Same(y, x)
    <3>1. \A i \in 1 .. Len(h.stack) : obj.stack[i] # Owning!Unref(x)
      <4>1. \A i \in 1 .. Len(h.stack) : obj.stack[i] \in Destructors
        BY <1>1
      <4>2. Owning!Unref(x) \notin Destructors
        BY DEF Owning!Unref, Destructors
      <4> QED BY <4>1, <4>2
    <3>2. Owning!Unref(y) = Owning!Unref(x) <=> y = x
      BY DEF Owning!Unref
    <3>3. pending = IF y = x THEN {Len(h.stack) + 1} ELSE {}
      BY <1>1, <3>1, <3>2, NullIsNothing
    <3> HIDE DEF pending
    <3>4. CASE y = x
      <4>1. pending = {Len(h.stack) + 1} /\ Same(y, x) = 1
        BY <3>3, <3>4 DEF Same
      <4> QED BY <4>1, FS_Singleton
    <3>5. CASE y # x
      <4>1. pending = {} /\ Same(y, x) = 0
        BY <3>3, <3>5 DEF Same
      <4> QED BY <4>1, FS_EmptySet
    <3> QED BY <3>4, <3>5
  <2>4. Owning!Holders(x) = A \cup B \cup C
    BY DEF Owning!Holders, Object
  <2>5. A \cap B = {} /\ (A \cup B) \cap C = {}
    OBVIOUS
  <2> HIDE DEF slots, members, pending
  <2>6. /\ IsFiniteSet(A) /\ Cardinality(A) = Cardinality(slots)
        /\ IsFiniteSet(B) /\ Cardinality(B) = Cardinality(members)
        /\ IsFiniteSet(C) /\ Cardinality(C) = Cardinality(pending)
    BY <2>1, <2>2, <2>3, PairsCount
  <2> HIDE DEF A, B, C
  <2>7. IsFiniteSet(A \cup B) /\ Cardinality(A \cup B) = Cardinality(A) + Cardinality(B) - 0
    BY <2>5, <2>6, FS_Union, FS_EmptySet
  <2>8. Cardinality(A \cup B \cup C) = Cardinality(A \cup B) + Cardinality(C) - 0
    BY <2>5, <2>6, <2>7, FS_Union, FS_EmptySet
  <2>9. obj.count[x] = Held(h.ref, RefSlot, x) + Held(h.member, Object, x) + Same(y, x)
    BY <1>1 DEF Sound, Balanced
  <2>10. Owning!Cardinality(Owning!Holders(x)) = Cardinality(A \cup B \cup C)
    BY <2>4, OwningCardinality
  <2>11. Same(y, x) \in Nat
    BY DEF Same
  <2> QED BY <2>1, <2>2, <2>3, <2>6, <2>7, <2>8, <2>9, <2>10, <2>11
<1> QED BY <1>2 DEF Owning!CountIsHolders

LEMMA OwningNothingDangles == ASSUME OwningInv PROVE Owning!NothingDangles
<1>1. PICK h \in Pointers, y \in Counted \cup {NullPointer} :
         /\ Sound(h, y, NullPointer)
         /\ obj.ref = h.ref /\ obj.own = h.own /\ obj.member = h.member /\ obj.count = h.count
         /\ obj.live = h.live /\ Len(h.stack) \in Nat
         /\ DOMAIN obj.stack = 1 .. (IF y = NullPointer THEN Len(h.stack) ELSE Len(h.stack) + 1)
         /\ \A i \in 1 .. Len(h.stack) : obj.stack[i] = h.stack[i] /\ h.stack[i] \in Destructors
         /\ y # NullPointer => obj.stack[Len(h.stack) + 1] = Owning!Unref(y)
         /\ obj.stack = <<>> => y = NullPointer
  BY View
<1> DEFINE dying == {obj.stack[i].obj : i \in {i \in DOMAIN obj.stack : obj.stack[i].what = "dying"}}
<1>2. \A i \in DOMAIN obj.stack : obj.stack[i].what = "dying" => i \in 1 .. Len(h.stack)
  <2>1. Owning!Unref(y).what # "dying"
    BY DEF Owning!Unref
  <2> QED BY <1>1, <2>1
<1>3. \A x : x \in dying => IsDying(h, x)
  BY <1>1, <1>2 DEF IsDying
<1>4. \A s \in RefSlot : obj.ref[s] # NullPointer => obj.ref[s] \in obj.live /\ obj.ref[s] \notin dying
  <2>1. \A s \in RefSlot : h.ref[s] # NullPointer => h.ref[s] \in Counted
    BY DEF Pointers
  <2> QED BY <1>1, <1>3, <2>1, HeldIsCounted
<1>5. \A m \in Object : obj.member[m] # NullPointer => obj.member[m] \in obj.live /\ obj.member[m] \notin dying
  <2>1. \A m \in Object : h.member[m] # NullPointer => h.member[m] \in Counted
    BY DEF Pointers
  <2> QED BY <1>1, <1>3, <2>1, HeldIsCounted
<1>6. \A m \in obj.live : m \in Object
  BY <1>1 DEF Pointers
<1>7. ASSUME NEW s \in OwnSlot, obj.own[s] # NullPointer, Owning!Untouched(s)
      PROVE  obj.own[s] \in obj.live /\ obj.own[s] \notin dying
  <2>1. ~Touches(h, s)
    <3>1. \A i \in 1 .. Len(h.stack) : i \in DOMAIN obj.stack /\ obj.stack[i] = h.stack[i]
      BY <1>1
    <3> QED BY <1>7, <3>1 DEF Owning!Untouched, Touches
  <2>2. h.own[s] \in Object
    BY <1>1, <1>7 DEF Pointers, Object
  <2>3. Owned(h, h.own[s])
    BY <2>1 DEF Owned
  <2> QED BY <1>1, <1>3, <2>2, <2>3 DEF Sound, OwnedLive
<1>8. \A s, t \in OwnSlot : s # t /\ obj.own[s] = obj.own[t] => obj.own[s] = NullPointer
  BY <1>1 DEF Sound, SoleOwners
<1>9. ASSUME NEW i \in DOMAIN obj.stack, NEW j \in DOMAIN obj.stack, i # j, obj.stack[i].what = "dying"
      PROVE  obj.stack[i] # obj.stack[j]
  <2>1. CASE obj.stack[j].what = "dying"
    <3>1. i \in 1 .. Len(h.stack) /\ j \in 1 .. Len(h.stack)
      BY <1>2, <1>9, <2>1
    <3> QED BY <1>1, <1>9, <3>1 DEF Sound, DyingLive
  <2>2. CASE obj.stack[j].what # "dying"
    BY <1>9, <2>2
  <2> QED BY <2>1, <2>2
<1> HIDE DEF dying
<1>10. ({obj.ref[s] : s \in RefSlot} \cup {obj.member[x] : x \in obj.live}) \ {NullPointer} \subseteq obj.live \ dying
  BY <1>4, <1>5, <1>6
<1>11. \A s \in OwnSlot : obj.own[s] # NullPointer /\ Owning!Untouched(s) => obj.own[s] \in obj.live \ dying
  BY <1>7
<1> QED BY <1>8, <1>9, <1>10, <1>11 DEF Owning!NothingDangles, dying

LEMMA OwningNothingLeaks == ASSUME OwningInv PROVE Owning!NothingLeaks
<1>1. SUFFICES ASSUME obj.stack = <<>>
               PROVE  /\ \A x \in Counted \cap obj.live : Owning!Holders(x) # {}
                      /\ \A x \in Sole \cap obj.live : \E s \in OwnSlot : obj.own[s] = x
  BY DEF Owning!NothingLeaks
<1>2. Sound(obj, NullPointer, NullPointer)
  BY <1>1, RunningIs DEF Owning!Running
<1>3. \A x \in Object : ~IsDying(obj, x)
  BY <1>1 DEF IsDying
<1>4. \A x \in Object \cap obj.live : Owned(obj, x)
  BY <1>2, <1>3, NullIsNothing DEF Sound, OwnedLive
<1>5. ASSUME NEW x \in Counted, x \in obj.live PROVE Owning!Holders(x) # {}
  <2>1. obj.count[x] # 0
    BY <1>2, <1>4, <1>5, NullIsNothing DEF Owned, Object, Sound, Pointers
  <2>2. obj.count[x] = Held(obj.ref, RefSlot, x) + Held(obj.member, Object, x) + 0
    BY <1>2, NullIsNothing DEF Sound, Balanced, Same
  <2>3. (\E s \in RefSlot : obj.ref[s] = x) \/ \E m \in Object : obj.member[m] = x
    BY <2>1, <2>2, HeldType, NullIsNothing
  <2> QED BY <2>3 DEF Owning!Holders, Object
<1>6. ASSUME NEW x \in Sole, x \in obj.live PROVE \E s \in OwnSlot : obj.own[s] = x
  BY <1>4, <1>6, NullIsNothing DEF Owned, Object
<1> QED BY <1>5, <1>6

\* RefCountedBase::ref, unref and the destructors: the inductive invariant of the pointers.
THEOREM PointersInvariance == Owning!Spec => []OwningInv
<1> QED BY OwningBegins, OwningStep, PTL DEF Owning!Spec

\* RefCountedBase: an object's count is the number of the references to it at every step, in the middle
\* of destructors as well.
THEOREM CountsAreExact == Owning!Spec => []Owning!CountIsHolders
<1> QED BY OwningCounts, PointersInvariance, PTL

\* RefPtr, OwnPtr: no pointer refers to an object destroyed or being destroyed, two OwnPtrs own two
\* objects, and no object is destroyed twice.
THEOREM PointersAreLive == Owning!Spec => []Owning!NothingDangles
<1> QED BY OwningNothingDangles, PointersInvariance, PTL

\* unref, ~OwnPtr: when no destructor runs, every object that lives has an owner.
THEOREM NothingIsLeaked == Owning!Spec => []Owning!NothingLeaks
<1> QED BY OwningNothingLeaks, PointersInvariance, PTL

-----------------------------------------------------------------------------
(* Function, Optional and Variant                                          *)

Name == Holder!Name
Frames == [of : Name, runs : Callable]
FunctionType ==
    obj \in [kind : {"function"}, callable : [Name -> Callable \cup {NullPointer}],
             deferred : [Name -> BOOLEAN], live : SUBSET Callable, calls : Seq(Frames)]

Called(h, f) == \E i \in 1 .. Len(h.calls) : h.calls[i].of = f

RunsItsOwn == \A i \in 1 .. Len(obj.calls) : obj.calls[i].runs = obj.callable[obj.calls[i].of]
LiveAreHeld ==
    /\ \A f \in Name : obj.callable[f] # NullPointer => obj.callable[f] \in obj.live
    /\ \A c \in obj.live : \E f \in Name : obj.callable[f] = c
    /\ \A f, g \in Name : f # g /\ obj.callable[f] = obj.callable[g] => obj.callable[f] = NullPointer
PutOffWhileCalled == \A f \in Name : obj.deferred[f] => Called(obj, f)

FunctionInv == FunctionType /\ RunsItsOwn /\ LiveAreHeld /\ PutOffWhileCalled

\* The states of an Optional or a Variant, and those without the object of one of the two.
Storages == [kind : {"optional", "variant"}, index : [Name -> Alternative \cup {NoAlternative}],
             data : [Name -> Alternative \cup {NoAlternative}], fault : BOOLEAN]
Matches(h) == h \in Storages /\ h.data = h.index /\ ~h.fault
Without(h, v) ==
    /\ h \in Storages /\ ~h.fault /\ h.data[v] = NoAlternative
    /\ \A w \in Name : w # v => h.data[w] = h.index[w]

HolderInv == FunctionInv \/ Matches(obj)

LEMMA NameIs == Name = {"x", "y"}
BY DEF Name, Holder!Name

LEMMA HolderCardinality == ASSUME NEW S PROVE Holder!Cardinality(S) = Cardinality(S)
BY DEF Holder!Cardinality, Cardinality

LEMMA NestingCounts ==
    ASSUME NEW h, h.calls \in Seq(Frames), NEW f \in Name
    PROVE  Holder!Nesting(h, f) \in Nat /\ (Holder!Nesting(h, f) = 0 <=> ~Called(h, f))
<1> DEFINE of == {i \in DOMAIN h.calls : h.calls[i].of = f}
<1>1. DOMAIN h.calls = 1 .. Len(h.calls) /\ Len(h.calls) \in Nat
  OBVIOUS
<1>2. IsFiniteSet(1 .. Len(h.calls))
  BY <1>1, FS_Interval
<1>3. IsFiniteSet(of)
  BY <1>1, <1>2, FS_Subset
<1>4. Cardinality(of) \in Nat /\ (Cardinality(of) = 0 <=> of = {})
  BY <1>3, FS_CardinalityType, FS_EmptySet
<1>5. Holder!Nesting(h, f) = Cardinality(of)
  BY HolderCardinality DEF Holder!Nesting
<1>6. of = {} <=> ~Called(h, f)
  BY <1>1 DEF Called
<1> QED BY <1>4, <1>5, <1>6

LEMMA FramesOf ==
    ASSUME NEW calls \in Seq(Frames)
    PROVE  \A i \in 1 .. Len(calls) : calls[i] \in Frames /\ calls[i].of \in Name /\ calls[i].runs \in Callable
<1>1. \A i \in 1 .. Len(calls) : calls[i] \in Frames
  OBVIOUS
<1> QED BY <1>1 DEF Frames

LEMMA HolderBegins == ASSUME Holder!Init PROVE HolderInv
<1>1. CASE obj = Holder!Functions
  <2>1. FunctionType
    BY <1>1 DEF Holder!Functions, FunctionType, Name
  <2>2. RunsItsOwn
    BY <1>1 DEF Holder!Functions, RunsItsOwn
  <2>3. LiveAreHeld /\ PutOffWhileCalled
    BY <1>1 DEF Holder!Functions, LiveAreHeld, PutOffWhileCalled, Name
  <2> QED BY <2>1, <2>2, <2>3 DEF HolderInv, FunctionInv
<1>2. CASE obj = Holder!Storages("optional")
  BY <1>2 DEF Holder!Storages, HolderInv, Matches, Storages, Name
<1>3. CASE obj = Holder!SomeVariant
  <2>1. Holder!OptionalType \in Alternative
    BY HolderAssumption DEF Holder!OptionalType
  <2> QED BY <1>3, <2>1 DEF Holder!SomeVariant, Holder!Storages, HolderInv, Matches, Storages, Name
<1> QED BY <1>1, <1>2, <1>3 DEF Holder!Init

\* While no call of f is in progress, clearing it destroys what it holds; else that is put off.
LEMMA ClearedIs ==
    ASSUME FunctionInv, NEW f \in Name
    PROVE  /\ ~Called(obj, f) => Holder!Cleared(obj, f) =
                  [obj EXCEPT !.deferred[f] = FALSE, !.callable[f] = NullPointer, !.live = @ \ {obj.callable[f]}]
           /\ Called(obj, f) => Holder!Cleared(obj, f) = [obj EXCEPT !.deferred[f] = TRUE]
<1>1. obj.calls \in Seq(Frames)
  BY DEF FunctionInv, FunctionType
<1>2. Holder!Nesting(obj, f) \in Nat /\ (Holder!Nesting(obj, f) = 0 <=> ~Called(obj, f))
  BY <1>1, NestingCounts
<1> QED BY <1>2 DEF Holder!Cleared, Holder!Defers

LEMMA AssignNullKeeps == ASSUME FunctionInv, NEW f \in Name, Holder!AssignNull(f) PROVE FunctionInv'
<1>1. obj' = Holder!Cleared(obj, f)
  BY DEF Holder!AssignNull
<1>2. CASE Called(obj, f)
  <2>1. obj' = [obj EXCEPT !.deferred[f] = TRUE]
    BY <1>1, <1>2, ClearedIs
  <2> QED BY <1>2, <2>1 DEF FunctionInv, FunctionType, RunsItsOwn, LiveAreHeld, PutOffWhileCalled, Called
<1>3. CASE ~Called(obj, f)
  <2>1. obj' = [obj EXCEPT !.deferred[f] = FALSE, !.callable[f] = NullPointer, !.live = @ \ {obj.callable[f]}]
    BY <1>1, <1>3, ClearedIs
  <2>2. /\ obj'.calls = obj.calls /\ obj'.live = obj.live \ {obj.callable[f]}
        /\ obj'.callable = [obj.callable EXCEPT ![f] = NullPointer]
        /\ obj'.deferred = [obj.deferred EXCEPT ![f] = FALSE]
    BY <2>1 DEF FunctionInv, FunctionType
  <2>3. FunctionType'
    BY <2>1 DEF FunctionInv, FunctionType
  <2>4. RunsItsOwn'
    BY <1>3, <2>2 DEF FunctionInv, FunctionType, RunsItsOwn, Called, Frames
  <2>5. LiveAreHeld'
    BY <2>2 DEF FunctionInv, FunctionType, LiveAreHeld
  <2>6. PutOffWhileCalled'
    BY <2>2 DEF FunctionInv, FunctionType, PutOffWhileCalled, Called
  <2> QED BY <2>3, <2>4, <2>5, <2>6 DEF FunctionInv
<1> QED BY <1>2, <1>3

LEMMA AssignCallableKeeps ==
    ASSUME FunctionInv, NEW f \in Name, NEW c \in Callable, Holder!AssignCallable(f, c)
    PROVE  FunctionInv'
<1>1. /\ obj' = [Holder!Cleared(obj, f) EXCEPT !.callable[f] = c, !.live = @ \cup {c}]
      /\ c \notin obj.live /\ Holder!Nesting(obj, f) = 0
  BY DEF Holder!AssignCallable
<1>2. ~Called(obj, f)
  BY <1>1, NestingCounts DEF FunctionInv, FunctionType
<1> DEFINE h == [obj EXCEPT !.deferred[f] = FALSE, !.callable[f] = NullPointer, !.live = @ \ {obj.callable[f]}]
<1>3. obj' = [h EXCEPT !.callable[f] = c, !.live = @ \cup {c}]
  BY <1>1, <1>2, ClearedIs
<1>4. /\ obj'.calls = obj.calls /\ obj'.live = (obj.live \ {obj.callable[f]}) \cup {c} /\ obj'.kind = obj.kind
      /\ obj'.callable = [obj.callable EXCEPT ![f] = c]
      /\ obj'.deferred = [obj.deferred EXCEPT ![f] = FALSE]
  BY <1>3 DEF FunctionInv, FunctionType
<1>5. FunctionType'
  BY <1>3 DEF FunctionInv, FunctionType
<1>6. RunsItsOwn'
  BY <1>2, <1>4 DEF FunctionInv, FunctionType, RunsItsOwn, Called, Frames
<1>7. LiveAreHeld'
  BY <1>1, <1>4, HolderAssumption DEF FunctionInv, FunctionType, LiveAreHeld
<1>8. PutOffWhileCalled'
  BY <1>4 DEF FunctionInv, FunctionType, PutOffWhileCalled, Called
<1> QED BY <1>5, <1>6, <1>7, <1>8 DEF FunctionInv

LEMMA AssignMovedKeeps ==
    ASSUME FunctionInv, NEW f \in Name, NEW g \in Name, Holder!AssignMoved(f, g)
    PROVE  FunctionInv'
<1> DEFINE h == [obj EXCEPT !.deferred[f] = FALSE, !.callable[f] = NullPointer, !.live = @ \ {obj.callable[f]}]
<1>1. /\ obj' = [Holder!Cleared(obj, f) EXCEPT
                    !.callable = [Holder!Cleared(obj, f).callable EXCEPT ![f] = Holder!Cleared(obj, f).callable[g],
                                                                         ![g] = NullPointer]]
      /\ f # g /\ Holder!Nesting(obj, f) = 0 /\ Holder!Nesting(obj, g) = 0
  BY DEF Holder!AssignMoved
<1>2. ~Called(obj, f) /\ ~Called(obj, g)
  BY <1>1, NestingCounts DEF FunctionInv, FunctionType
<1>3. obj' = [h EXCEPT !.callable = [h.callable EXCEPT ![f] = h.callable[g], ![g] = NullPointer]]
  BY <1>1, <1>2, ClearedIs
<1>4. /\ obj'.calls = obj.calls /\ obj'.live = obj.live \ {obj.callable[f]} /\ obj'.kind = obj.kind
      /\ obj'.callable = [obj.callable EXCEPT ![f] = obj.callable[g], ![g] = NullPointer]
      /\ obj'.deferred = [obj.deferred EXCEPT ![f] = FALSE]
  <2>1. /\ h.calls = obj.calls /\ h.live = obj.live \ {obj.callable[f]} /\ h.kind = obj.kind
        /\ h.callable = [obj.callable EXCEPT ![f] = NullPointer] /\ h.deferred = [obj.deferred EXCEPT ![f] = FALSE]
        /\ h \in [kind : {"function"}, callable : [Name -> Callable \cup {NullPointer}],
                  deferred : [Name -> BOOLEAN], live : SUBSET Callable, calls : Seq(Frames)]
    BY DEF FunctionInv, FunctionType
  <2>2. obj.callable \in [Name -> Callable \cup {NullPointer}]
    BY DEF FunctionInv, FunctionType
  <2> HIDE DEF h
  <2>3. /\ obj'.calls = h.calls /\ obj'.live = h.live /\ obj'.kind = h.kind /\ obj'.deferred = h.deferred
        /\ obj'.callable = [h.callable EXCEPT ![f] = h.callable[g], ![g] = NullPointer]
    BY <1>3, <2>1
  <2>4. h.callable[g] = obj.callable[g]
    BY <1>1, <2>1, <2>2
  <2>5. [h.callable EXCEPT ![f] = h.callable[g], ![g] = NullPointer]
            = [obj.callable EXCEPT ![f] = obj.callable[g], ![g] = NullPointer]
    BY <2>1, <2>2, <2>4
  <2> QED BY <2>1, <2>3, <2>5
<1>5. FunctionType'
  BY <1>3 DEF FunctionInv, FunctionType
<1>6. RunsItsOwn'
  <2>1. \A i \in 1 .. Len(obj.calls) : obj.calls[i].of \in Name /\ obj.calls[i].of \notin {f, g}
    BY <1>2, FramesOf DEF FunctionInv, FunctionType, Called
  <2>2. \A e \in Name \ {f, g} : obj'.callable[e] = obj.callable[e]
    BY <1>4 DEF FunctionInv, FunctionType
  <2> QED BY <1>4, <2>1, <2>2 DEF FunctionInv, RunsItsOwn
<1>7. LiveAreHeld'
  BY <1>1, <1>4, NameIs DEF FunctionInv, FunctionType, LiveAreHeld
<1>8. PutOffWhileCalled'
  BY <1>4 DEF FunctionInv, FunctionType, PutOffWhileCalled, Called
<1> QED BY <1>5, <1>6, <1>7, <1>8 DEF FunctionInv
LEMMA CallKeeps == ASSUME FunctionInv, NEW f \in Name, Holder!Call(f) PROVE FunctionInv'
<1> DEFINE frame == [of |-> f, runs |-> obj.callable[f]]
<1>1. obj' = [obj EXCEPT !.calls = Append(@, frame)] /\ obj.callable[f] # NullPointer
  BY DEF Holder!Call
<1>2. frame \in Frames /\ obj.calls \in Seq(Frames)
  BY <1>1 DEF FunctionInv, FunctionType, Frames
<1>3. /\ obj'.calls = Append(obj.calls, frame) /\ obj'.callable = obj.callable
      /\ obj'.live = obj.live /\ obj'.deferred = obj.deferred
  BY <1>1 DEF FunctionInv, FunctionType
<1>4. FunctionType'
  <2>1. Append(obj.calls, frame) \in Seq(Frames)
    BY <1>2
  <2> HIDE DEF frame
  <2> QED BY <1>1, <2>1 DEF FunctionInv, FunctionType
<1>5. RunsItsOwn'
  BY <1>2, <1>3 DEF FunctionInv, RunsItsOwn
<1>6. LiveAreHeld'
  BY <1>3 DEF FunctionInv, LiveAreHeld
<1>7. PutOffWhileCalled'
  BY <1>2, <1>3 DEF FunctionInv, PutOffWhileCalled, Called
<1> QED BY <1>4, <1>5, <1>6, <1>7 DEF FunctionInv

\* What was put off is done when the last call of f returns, and no call of f is left then.
LEMMA ReturnKeeps == ASSUME FunctionInv, Holder!Return PROVE FunctionInv'
<1> DEFINE f == Holder!Last(obj.calls).of
           h == [obj EXCEPT !.calls = Holder!Front(@)]
           n == Len(obj.calls)
<1>1. obj.calls # <<>> /\ obj' = IF Holder!ClearsOnReturn(h, f)
                                THEN [h EXCEPT !.deferred[f] = FALSE, !.callable[f] = NullPointer,
                                               !.live = @ \ {h.callable[f]}]
                                ELSE h
  BY DEF Holder!Return
<1>2. obj.calls \in Seq(Frames) /\ n \in Nat /\ n > 0
  BY <1>1 DEF FunctionInv, FunctionType
<1>3. f = obj.calls[n].of /\ f \in Name
  <2>1. f = obj.calls[n].of
    BY <1>2 DEF Holder!Last
  <2>2. n \in 1 .. n
    BY <1>2
  <2> QED BY <1>2, <2>1, <2>2, FramesOf
<1>4. /\ h.calls \in Seq(Frames) /\ Len(h.calls) = n - 1
      /\ \A i \in 1 .. n - 1 : h.calls[i] = obj.calls[i]
  <2>1. h.calls = SubSeq(obj.calls, 1, n - 1)
    BY DEF Holder!Front, FunctionInv, FunctionType
  <2> DEFINE front == SubSeq(obj.calls, 1, n - 1)
  <2> HIDE DEF n
  <2>2. n = Len(obj.calls)
    BY DEF n
  <2>3. front \in Seq(Frames) /\ Len(front) = n - 1 /\ \A i \in 1 .. n - 1 : front[i] = obj.calls[i]
    BY <1>2, <2>2
  <2> QED BY <2>1, <2>3
<1>5. h.callable = obj.callable /\ h.live = obj.live /\ h.deferred = obj.deferred
  BY DEF FunctionInv, FunctionType
<1>6. FunctionType /\ h \in [kind : {"function"}, callable : [Name -> Callable \cup {NullPointer}],
                             deferred : [Name -> BOOLEAN], live : SUBSET Callable, calls : Seq(Frames)]
  BY <1>4 DEF FunctionInv, FunctionType
<1>7. Holder!ClearsOnReturn(h, f) <=> ~Called(h, f) /\ obj.deferred[f]
  BY <1>3, <1>4, <1>5, NestingCounts DEF Holder!ClearsOnReturn
<1>8. /\ \A i \in 1 .. Len(h.calls) : h.calls[i].of \in Name /\ h.calls[i].runs = obj.callable[h.calls[i].of]
      /\ \A g \in Name : g # f /\ obj.deferred[g] => Called(h, g)
  <2>1. \A i \in 1 .. n - 1 : i \in 1 .. n
    BY <1>2
  <2>2. \A i \in 1 .. Len(h.calls) : h.calls[i].of \in Name /\ h.calls[i].runs = obj.callable[h.calls[i].of]
    <3>1. \A i \in 1 .. n : obj.calls[i].of \in Name /\ obj.calls[i].runs = obj.callable[obj.calls[i].of]
      BY <1>2, FramesOf DEF FunctionInv, RunsItsOwn
    <3> HIDE DEF n, h
    <3> QED BY <1>4, <2>1, <3>1
  <2>3. ASSUME NEW g \in Name, g # f, obj.deferred[g] PROVE Called(h, g)
    <3>1. PICK i \in 1 .. n : obj.calls[i].of = g
      BY <2>3 DEF FunctionInv, PutOffWhileCalled, Called
    <3>2. i # n
      BY <1>3, <2>3, <3>1
    <3>3. i \in 1 .. n - 1
      BY <1>2, <3>1, <3>2
    <3> QED BY <1>4, <3>1, <3>3 DEF Called
  <2> QED BY <2>2, <2>3
<1> HIDE DEF f, h, n
<1>9. CASE ~Called(h, f) /\ obj.deferred[f]
  <2>1. obj' = [h EXCEPT !.deferred[f] = FALSE, !.callable[f] = NullPointer, !.live = @ \ {h.callable[f]}]
    BY <1>1, <1>7, <1>9
  <2>2. /\ obj'.calls = h.calls /\ obj'.live = obj.live \ {obj.callable[f]}
        /\ obj'.callable = [obj.callable EXCEPT ![f] = NullPointer]
        /\ obj'.deferred = [obj.deferred EXCEPT ![f] = FALSE]
    BY <1>5, <1>6, <2>1
  <2>3. FunctionType'
    BY <1>6, <2>1 DEF FunctionType
  <2>4. RunsItsOwn'
    BY <1>3, <1>6, <1>8, <1>9, <2>2 DEF FunctionType, RunsItsOwn, Called
  <2>5. LiveAreHeld'
    <3>1. obj.callable \in [Name -> Callable \cup {NullPointer}] /\ LiveAreHeld
      BY <1>6 DEF FunctionInv, FunctionType
    <3>2. \A g \in Name : obj'.callable[g] = IF g = f THEN NullPointer ELSE obj.callable[g]
      BY <1>3, <2>2, <3>1
    <3> QED BY <1>3, <2>2, <3>1, <3>2 DEF LiveAreHeld
  <2>6. PutOffWhileCalled'
    BY <1>6, <1>8, <2>2 DEF FunctionType, PutOffWhileCalled, Called
  <2> QED BY <2>3, <2>4, <2>5, <2>6 DEF FunctionInv
<1>10. CASE Called(h, f) \/ ~obj.deferred[f]
  <2>1. obj' = h
    BY <1>1, <1>7, <1>10
  <2>2. FunctionType' /\ RunsItsOwn' /\ LiveAreHeld'
    BY <1>5, <1>6, <1>8, <2>1 DEF FunctionInv, FunctionType, RunsItsOwn, LiveAreHeld
  <2>3. PutOffWhileCalled'
    BY <1>5, <1>8, <1>10, <2>1 DEF PutOffWhileCalled, Called
  <2> QED BY <2>2, <2>3 DEF FunctionInv
<1> QED BY <1>9, <1>10

LEMMA FunctionKeeps == ASSUME FunctionInv, Holder!Next PROVE FunctionInv'
<1>1. Holder!IsFunction /\ obj.kind = "function"
  BY DEF FunctionInv, FunctionType, Holder!IsFunction
<1>2. \/ \E f \in Name : \/ Holder!AssignNull(f) \/ Holder!Call(f)
                         \/ \E c \in Callable : Holder!AssignCallable(f, c)
      \/ \E f, g \in Name : Holder!AssignMoved(f, g)
      \/ Holder!Return
  BY <1>1 DEF Holder!Next, Holder!CopyValue, Holder!MoveValue, Holder!ClearValue, Holder!SetValue, Name
<1> QED BY <1>2, AssignNullKeeps, CallKeeps, AssignCallableKeeps, AssignMovedKeeps, ReturnKeeps

-----------------------------------------------------------------------------
\* Deleting what the index says leaves the storage empty, whatever it held.
LEMMA Deletes ==
    ASSUME NEW h, Matches(h), NEW v \in Name
    PROVE  /\ Without(Holder!Delete(h, v), v) /\ Holder!Delete(h, v).index = h.index
           /\ Holder!Delete(h, v).kind = h.kind
<1>1. CASE h.index[v] = NoAlternative
  BY <1>1 DEF Holder!Delete, Matches, Without
<1>2. CASE h.index[v] # NoAlternative
  <2>1. Holder!Delete(h, v) = [h EXCEPT !.data[v] = NoAlternative, !.fault = h.fault \/ h.data[v] # h.index[v]]
    BY <1>2 DEF Holder!Delete
  <2>2. (h.fault \/ h.data[v] # h.index[v]) = FALSE
    BY DEF Matches, Storages
  <2>3. Holder!Delete(h, v) = [h EXCEPT !.data[v] = NoAlternative, !.fault = FALSE]
    BY <2>1, <2>2
  <2> DEFINE d == [h EXCEPT !.data[v] = NoAlternative, !.fault = FALSE]
  <2>4. d \in Storages /\ d.data = [h.data EXCEPT ![v] = NoAlternative] /\ d.index = h.index /\ d.kind = h.kind /\ ~d.fault
    BY DEF Matches, Storages
  <2>5. h.data = h.index /\ h.data \in [Name -> Alternative \cup {NoAlternative}]
    BY DEF Matches, Storages
  <2> HIDE DEF d
  <2>6. d.data[v] = NoAlternative /\ \A w \in Name : w # v => d.data[w] = d.index[w]
    BY <2>4, <2>5
  <2> QED BY <2>3, <2>4, <2>6 DEF Without, d
<1> QED BY <1>1, <1>2

LEMMA Constructs ==
    ASSUME NEW h, NEW v \in Name, NEW type \in Alternative, Without(h, v)
    PROVE  Matches(Holder!WithIndex(Holder!Construct(h, v, type), v, type))
<1> DEFINE c == [h EXCEPT !.data[v] = type, !.fault = FALSE]
<1>1. Holder!Construct(h, v, type) = c
  <2>1. (h.fault \/ h.data[v] # NoAlternative) = FALSE
    BY DEF Without, Storages
  <2> QED BY <2>1 DEF Holder!Construct
<1>2. c \in Storages /\ c.data = [h.data EXCEPT ![v] = type] /\ c.index = h.index /\ ~c.fault
  BY DEF Without, Storages
<1> HIDE DEF c
<1>3. Holder!WithIndex(c, v, type) = [c EXCEPT !.index[v] = type]
  BY DEF Holder!WithIndex
<1>4. [c EXCEPT !.index[v] = type] \in Storages
  BY <1>2 DEF Storages
<1>5. [h.data EXCEPT ![v] = type] = [h.index EXCEPT ![v] = type]
  BY DEF Without, Storages
<1> QED BY <1>1, <1>2, <1>3, <1>4, <1>5 DEF Matches, Storages

LEMMA Empties ==
    ASSUME NEW h, NEW v \in Name, Without(h, v)
    PROVE  Matches(Holder!WithIndex(h, v, NoAlternative))
<1>1. Holder!WithIndex(h, v, NoAlternative) = [h EXCEPT !.index[v] = NoAlternative]
  BY DEF Holder!WithIndex
<1>2. [h.index EXCEPT ![v] = NoAlternative] = h.data
  BY DEF Without, Storages
<1> QED BY <1>1, <1>2 DEF Without, Matches, Storages

LEMMA Transfers ==
    ASSUME NEW h, Matches(h), NEW v \in Name, NEW w \in Name, v # w
    PROVE  Matches(Holder!Transferred(h, v, w))
<1> DEFINE g == Holder!Delete(h, v)
           type == h.index[w]
<1>1. Without(g, v) /\ type \in Alternative \cup {NoAlternative}
  BY Deletes DEF Matches, Storages
<1> HIDE DEF g
<1>2. CASE type = NoAlternative
  BY <1>1, <1>2, Empties DEF Holder!Transferred, g
<1>3. CASE type # NoAlternative
  <2>1. Holder!Transferred(h, v, w) = Holder!Construct(Holder!WithIndex(g, v, type), v, type)
    BY <1>3 DEF Holder!Transferred, g
  <2> DEFINE d == [g EXCEPT !.index[v] = type]
  <2>2. Holder!WithIndex(g, v, type) = d
    BY DEF Holder!WithIndex
  <2>3. d \in Storages /\ d.data = g.data /\ d.index = [g.index EXCEPT ![v] = type] /\ d.fault = FALSE
        /\ d.data[v] = NoAlternative
    BY <1>1, <1>3 DEF Without, Storages
  <2> HIDE DEF d, type
  <2>4. Holder!Construct(d, v, type) = [d EXCEPT !.data[v] = type, !.fault = FALSE]
    <3>1. (d.fault \/ d.data[v] # NoAlternative) = FALSE
      BY <2>3
    <3> QED BY <3>1 DEF Holder!Construct
  <2>5. [g.data EXCEPT ![v] = type] = [g.index EXCEPT ![v] = type]
    BY <1>1 DEF Without, Storages
  <2> DEFINE e == [d EXCEPT !.data[v] = type, !.fault = FALSE]
  <2>6. type \in Alternative \cup {NoAlternative}
    BY <1>1 DEF type
  <2>7. e \in Storages /\ e.data = [d.data EXCEPT ![v] = type] /\ e.index = d.index /\ ~e.fault
    BY <2>3, <2>6 DEF Storages
  <2>8. Holder!Transferred(h, v, w) = e
    BY <2>1, <2>2, <2>4
  <2> HIDE DEF e
  <2> QED BY <2>3, <2>5, <2>7, <2>8 DEF Matches
<1> QED BY <1>2, <1>3

LEMMA StorageKeeps == ASSUME Matches(obj), Holder!Next PROVE Matches(obj')
<1>1. ~Holder!IsFunction
  BY DEF Matches, Storages, Holder!IsFunction
<1>2. ASSUME NEW v \in Name, NEW type \in Alternative, Holder!SetValue(v, type) PROVE Matches(obj')
  BY <1>2, Deletes, Constructs DEF Holder!SetValue
<1>3. ASSUME NEW v \in Name, NEW w \in Name, Holder!CopyValue(v, w) PROVE Matches(obj')
  BY <1>3, Transfers DEF Holder!CopyValue
<1>4. ASSUME NEW v \in Name, NEW w \in Name, Holder!MoveValue(v, w) PROVE Matches(obj')
  <2>1. Matches(Holder!Transferred(obj, v, w))
    BY <1>4, Transfers DEF Holder!MoveValue
  <2>2. Matches(Holder!Released(Holder!Transferred(obj, v, w), w))
    BY <2>1, Deletes, Empties DEF Holder!Released
  <2> QED BY <1>4, <2>1, <2>2 DEF Holder!MoveValue
<1>5. ASSUME NEW v \in Name, Holder!ClearValue(v) PROVE Matches(obj')
  BY <1>5, Deletes, Empties DEF Holder!ClearValue, Holder!Released
<1>6. \/ \E f, g \in Name : Holder!CopyValue(f, g) \/ Holder!MoveValue(f, g)
      \/ \E v \in Name : Holder!ClearValue(v) \/ \E type \in Alternative : Holder!SetValue(v, type)
  BY <1>1 DEF Holder!Next, Holder!AssignNull, Holder!Call, Holder!AssignCallable, Holder!AssignMoved, Holder!Return, Name
<1> QED BY <1>2, <1>3, <1>4, <1>5, <1>6

LEMMA HolderStep == ASSUME HolderInv, [Holder!Next]_obj PROVE HolderInv'
<1>1. CASE UNCHANGED obj
  BY <1>1 DEF HolderInv, FunctionInv, FunctionType, RunsItsOwn, LiveAreHeld, PutOffWhileCalled
<1>2. CASE Holder!Next
  BY <1>2, FunctionKeeps, StorageKeeps DEF HolderInv
<1> QED BY <1>1, <1>2

LEMMA HolderOwns ==
    ASSUME HolderInv
    PROVE  Holder!RunningIsAlive /\ Holder!CallablesOwned /\ Holder!StorageMatches
<1>1. CASE FunctionInv
  <2>1. Holder!IsFunction /\ obj.calls \in Seq(Frames) /\ DOMAIN obj.calls = 1 .. Len(obj.calls)
    BY <1>1 DEF FunctionInv, FunctionType, Holder!IsFunction
  <2>2. Holder!RunningIsAlive
    <3>1. ASSUME NEW i \in 1 .. Len(obj.calls)
          PROVE  obj.calls[i].runs \in obj.live /\ obj.callable[obj.calls[i].of] = obj.calls[i].runs
      <4>1. obj.calls[i].of \in Name /\ obj.calls[i].runs \in Callable
        BY <2>1, FramesOf
      <4> QED BY <1>1, <4>1, HolderAssumption DEF FunctionInv, RunsItsOwn, LiveAreHeld
    <3> QED BY <2>1, <3>1 DEF Holder!RunningIsAlive
  <2>3. obj.live = {obj.callable[f] : f \in Name} \ {NullPointer}
    BY <1>1, HolderAssumption DEF FunctionInv, FunctionType, LiveAreHeld
  <2>4. obj.callable["x"] = obj.callable["y"] => obj.callable["x"] = NullPointer
    BY <1>1, NameIs DEF FunctionInv, LiveAreHeld
  <2>5. ASSUME NEW f \in Name, obj.deferred[f] PROVE Holder!Nesting(obj, f) > 0
    BY <1>1, <2>1, <2>5, NestingCounts DEF FunctionInv, PutOffWhileCalled
  <2> QED BY <2>1, <2>2, <2>3, <2>4, <2>5 DEF Holder!CallablesOwned, Holder!StorageMatches, Name
<1>2. CASE Matches(obj)
  BY <1>2 DEF Matches, Storages, Holder!IsFunction, Holder!RunningIsAlive, Holder!CallablesOwned, Holder!StorageMatches
<1> QED BY <1>1, <1>2 DEF HolderInv

\* Function::call, clear, the assignments; Variant and Optional: the inductive invariant.
THEOREM HoldersInvariance == Holder!Spec => []HolderInv
<1> QED BY HolderBegins, HolderStep, PTL DEF Holder!Spec

\* Function::clear defers while a call runs: a callable that runs is alive, whatever the call does.
THEOREM RunningCallablesLive == Holder!Spec => []Holder!RunningIsAlive
<1>1. HolderInv => Holder!RunningIsAlive
  BY HolderOwns
<1> QED BY <1>1, HoldersInvariance, PTL

-----------------------------------------------------------------------------
(* Byte buffers                                                            *)

\* n cells, whatever they hold
IsCells(c, n) == n \in Nat /\ c = [i \in 1 .. n |-> c[i]]
IsMember(b) ==
    /\ b = [inline |-> b.inline, size |-> b.size, cells |-> b.cells, block |-> b.block, capacity |-> b.capacity]
    /\ b.inline \in BOOLEAN /\ b.size \in Nat
IsState(s) ==
    /\ s = [of |-> s.of, heap |-> s.heap, meant |-> s.meant, freed |-> s.freed]
    /\ s.of = [x \in Buffer |-> s.of[x]] /\ \A x \in Buffer : IsMember(s.of[x])
    /\ s.heap = [k \in DOMAIN s.heap |-> s.heap[k]]
    /\ s.meant = [x \in Buffer |-> s.meant[x]]

Outline(s, x) == ~s.of[x].inline
\* A buffer out of line has a block of its capacity, which no other has; every block is some buffer's.
BlocksAre(s) ==
    /\ s.freed = TRUE
    /\ \A x \in Buffer : Outline(s, x) => /\ s.of[x].block \in DOMAIN s.heap
                                          /\ IsCells(s.heap[s.of[x].block], s.of[x].capacity)
    /\ \A x, y \in Buffer : Outline(s, x) /\ Outline(s, y) /\ s.of[x].block = s.of[y].block => x = y
    /\ \A k \in DOMAIN s.heap : \E x \in Buffer : Outline(s, x) /\ s.of[x].block = k
Cells(s, x) == Buffers!Data(s, s.of[x])
Room(s, x) == Buffers!Capacity(s.of[x])
Fits(s) == \A x \in Buffer : IsCells(Cells(s, x), Room(s, x)) /\ s.of[x].size <= Room(s, x)
BuffersOwn(s) == IsState(s) /\ BlocksAre(s) /\ Fits(s)

\* t is s but for the buffer x, which has n bytes; those that both have are the same.
Becomes(s, t, x, n) ==
    /\ BuffersOwn(t) /\ t.meant = s.meant /\ t.of[x].size = n
    /\ \A y \in Buffer : y # x => t.of[y] = s.of[y] /\ Cells(t, y) = Cells(s, y)
Keeps(s, t, x) == \A i \in 1 .. s.of[x].size : i <= t.of[x].size => Cells(t, x)[i] = Cells(s, x)[i]

\* What a buffer holds is what it is meant to hold, wherever that was written.
HoldsAs(s, x, bytes) ==
    /\ IsCells(bytes, s.of[x].size)
    /\ \A i \in 1 .. s.of[x].size : bytes[i] \in {Unfilled, Cells(s, x)[i]}
BuffersHold(s) == \A x \in Buffer : HoldsAs(s, x, s.meant[x])

LEMMA BuffersCardinality == ASSUME NEW S PROVE Buffers!Cardinality(S) = Cardinality(S)
BY DEF Buffers!Cardinality, Cardinality

LEMMA CellsLen == ASSUME NEW c, NEW n, IsCells(c, n) PROVE Len(c) = n
<1> DEFINE S == {c[i] : i \in 1 .. n}
<1>1. n \in Nat /\ c = [i \in 1 .. n |-> c[i]]
  BY DEF IsCells
<1>2. c \in [1 .. n -> S]
  <2>1. \A i \in 1 .. n : c[i] \in S
    OBVIOUS
  <2> HIDE DEF S
  <2> QED BY <1>1, <2>1
<1> HIDE DEF S
<1>3. c \in Seq(S)
  BY <1>1, <1>2, SeqDef
<1>4. Len(c) \in Nat /\ DOMAIN c = 1 .. Len(c) /\ DOMAIN c = 1 .. n
  BY <1>2, <1>3, LenProperties
<1>5. \A i \in Nat : i \in 1 .. Len(c) <=> i \in 1 .. n
  BY <1>4
<1> QED BY <1>1, <1>4, <1>5

LEMMA OverlaidIs ==
    ASSUME NEW c, NEW n, IsCells(c, n), NEW at, NEW bytes
    PROVE  /\ IsCells(Buffers!Overlaid(c, at, bytes), n)
           /\ \A i \in 1 .. n : Buffers!Overlaid(c, at, bytes)[i] = IF i - at \in DOMAIN bytes THEN bytes[i - at] ELSE c[i]
<1>1. DOMAIN c = 1 .. n
  BY DEF IsCells
<1>2. Buffers!Overlaid(c, at, bytes) = [i \in 1 .. n |-> IF i - at \in DOMAIN bytes THEN bytes[i - at] ELSE c[i]]
  BY <1>1 DEF Buffers!Overlaid
<1> QED BY <1>2 DEF IsCells

LEMMA UnwrittenIs == ASSUME NEW n \in Nat PROVE IsCells(Buffers!Unwritten(n), n) /\ \A i \in 1 .. n : Buffers!Unwritten(n)[i] = Unfilled
BY DEF Buffers!Unwritten, IsCells

LEMMA SubSeqIs ==
    ASSUME NEW c, NEW from \in Nat, NEW n \in Nat
    PROVE  IsCells(SubSeq(c, from + 1, from + n), n) /\ \A i \in 1 .. n : SubSeq(c, from + 1, from + n)[i] = c[from + i]
<1> DEFINE S == {c[i] : i \in from + 1 .. from + n}
           r == SubSeq(c, from + 1, from + n)
<1>1. \A i \in from + 1 .. from + n : c[i] \in S
  OBVIOUS
<1>2. from + 1 \in Int /\ from + n \in Int
  OBVIOUS
<1> HIDE DEF S
<1>3. /\ r \in Seq(S) /\ Len(r) = IF from + 1 <= from + n THEN (from + n) - (from + 1) + 1 ELSE 0
      /\ \A i \in 1 .. (from + n) - (from + 1) + 1 : r[i] = c[(from + 1) + i - 1]
  <2> HIDE DEF r
  <2> QED BY <1>1, <1>2, SubSeqProperties DEF r
<1> HIDE DEF r
<1>4. Len(r) = n /\ \A i \in 1 .. n : r[i] = c[from + i]
  BY <1>3
<1>5. r = [i \in 1 .. n |-> r[i]]
  BY <1>3, <1>4
<1> QED BY <1>4, <1>5 DEF IsCells, r

LEMMA PrefixIs ==
    ASSUME NEW c, NEW n \in Nat
    PROVE  IsCells(Buffers!Prefix(c, n), n) /\ \A i \in 1 .. n : Buffers!Prefix(c, n)[i] = c[i]
<1>1. IsCells(SubSeq(c, 0 + 1, 0 + n), n) /\ \A i \in 1 .. n : SubSeq(c, 0 + 1, 0 + n)[i] = c[0 + i]
  BY SubSeqIs
<1>2. 0 + 1 = 1 /\ 0 + n = n /\ \A i \in 1 .. n : 0 + i = i
  OBVIOUS
<1>3. IsCells(SubSeq(c, 1, n), n) /\ \A i \in 1 .. n : SubSeq(c, 1, n)[i] = c[i]
  BY <1>1, <1>2
<1> QED BY <1>3 DEF Buffers!Prefix

IsJoined(r, a, m, b, n) ==
    IsCells(r, m + n) /\ \A i \in 1 .. m + n : r[i] = IF i <= m THEN a[i] ELSE b[i - m]

LEMMA ConcatIs ==
    ASSUME NEW a, NEW m, IsCells(a, m), NEW b, NEW n, IsCells(b, n)
    PROVE  IsJoined(a \o b, a, m, b, n)
<1> DEFINE S == {a[i] : i \in 1 .. m} \cup {b[i] : i \in 1 .. n}
           r == a \o b
<1>1. /\ m \in Nat /\ n \in Nat /\ a = [i \in 1 .. m |-> a[i]] /\ b = [i \in 1 .. n |-> b[i]]
      /\ Len(a) = m /\ Len(b) = n
  BY CellsLen DEF IsCells
<1>2. (\A i \in 1 .. m : a[i] \in S) /\ \A i \in 1 .. n : b[i] \in S
  OBVIOUS
<1> HIDE DEF S
<1>3. a \in [1 .. m -> S] /\ b \in [1 .. n -> S]
  BY <1>1, <1>2
<1>4. a \in Seq(S) /\ b \in Seq(S)
  BY <1>1, <1>3, SeqDef
<1>5. r \in Seq(S) /\ Len(r) = m + n /\ \A i \in 1 .. m + n : r[i] = IF i <= m THEN a[i] ELSE b[i - m]
  BY <1>1, <1>4, ConcatProperties
<1> HIDE DEF r
<1>6. r = [i \in 1 .. m + n |-> r[i]]
  BY <1>5
<1> QED BY <1>1, <1>5, <1>6 DEF IsCells, IsJoined, r

LEMMA InPlaceIs ==
    /\ IsMember(Buffers!InPlace) /\ Buffers!InPlace.inline = TRUE /\ Buffers!InPlace.size = 0
    /\ Buffers!InPlace.cells = Buffers!Unwritten(InlineCapacity) /\ IsCells(Buffers!InPlace.cells, InlineCapacity)
<1>1. InlineCapacity \in Nat
  BY BuffersAssumption
<1>2. IsCells(Buffers!Unwritten(InlineCapacity), InlineCapacity)
  BY <1>1, UnwrittenIs
<1> QED BY <1>2 DEF Buffers!InPlace, IsMember

\* There is a block to allocate: each buffer has one at most.
LEMMA BlockLeft == ASSUME NEW s, BuffersOwn(s) PROVE \E k \in Buffers!Blocks : k \notin DOMAIN s.heap
<1>1. SUFFICES ASSUME Buffers!Blocks \subseteq DOMAIN s.heap PROVE FALSE
  OBVIOUS
<1>2. IsFiniteSet(Buffer) /\ Cardinality(Buffer) \in Nat
  BY BuffersAssumption, FS_CardinalityType
<1>3. Buffers!Blocks = 1 .. Cardinality(Buffer) + 2
  BY BuffersCardinality DEF Buffers!Blocks
<1>4. IsFiniteSet(Buffers!Blocks) /\ Cardinality(Buffers!Blocks) = Cardinality(Buffer) + 2
  BY <1>2, <1>3, FS_Interval
<1> DEFINE has(k) == CHOOSE x \in Buffer : Outline(s, x) /\ s.of[x].block = k
           f == [k \in Buffers!Blocks |-> has(k)]
<1>5. \A k \in Buffers!Blocks : has(k) \in Buffer /\ s.of[has(k)].block = k
  BY <1>1 DEF BuffersOwn, BlocksAre
<1> HIDE DEF has
<1>6. f \in [Buffers!Blocks -> Buffer]
  BY <1>5
<1>7. \E k, l \in Buffers!Blocks : k # l /\ f[k] = f[l]
  <2> HIDE DEF f
  <2>1. Cardinality(Buffer) < Cardinality(Buffers!Blocks)
    BY <1>2, <1>4
  <2> QED BY <1>2, <1>4, <1>6, <2>1, FS_PigeonHole
<1>8. PICK k \in Buffers!Blocks, l \in Buffers!Blocks : k # l /\ f[k] = f[l]
  BY <1>7
<1>9. has(k) = has(l)
  BY <1>8
<1> QED BY <1>5, <1>8, <1>9

LEMMA MemberReplaced ==
    ASSUME NEW s, IsState(s), NEW x \in Buffer, NEW b, IsMember(b)
    PROVE  LET t == [s EXCEPT !.of[x] = b]
           IN  /\ IsState(t) /\ t.of[x] = b /\ \A y \in Buffer : y # x => t.of[y] = s.of[y]
               /\ t.heap = s.heap /\ t.freed = s.freed /\ t.meant = s.meant
<1> DEFINE of == [s.of EXCEPT ![x] = b]
           t == [s EXCEPT !.of = of]
<1>1. of = [y \in Buffer |-> of[y]] /\ of[x] = b /\ \A y \in Buffer : y # x => of[y] = s.of[y]
  BY DEF IsState
<1>2. [s EXCEPT !.of[x] = b] = t
  BY DEF IsState
<1> HIDE DEF of
<1>3. /\ t = [of |-> t.of, heap |-> t.heap, meant |-> t.meant, freed |-> t.freed]
      /\ t.of = of /\ t.heap = s.heap /\ t.freed = s.freed /\ t.meant = s.meant
  BY DEF IsState
<1> HIDE DEF t
<1>4. \A y \in Buffer : IsMember(t.of[y])
  BY <1>1, <1>3 DEF IsState
<1>5. IsState(t)
  BY <1>1, <1>3, <1>4 DEF IsState
<1> QED BY <1>1, <1>2, <1>3, <1>5

\* What is left to show of an operation on x that leaves the blocks in order.
LEMMA Assembled ==
    ASSUME NEW s, BuffersOwn(s), NEW t, IsState(t), BlocksAre(t), t.meant = s.meant, NEW x \in Buffer, NEW n,
           \A y \in Buffer : y # x => /\ t.of[y] = s.of[y]
                                      /\ Outline(s, y) => t.heap[s.of[y].block] = s.heap[s.of[y].block],
           IsCells(Cells(t, x), Room(t, x)), t.of[x].size = n, n <= Room(t, x)
    PROVE  Becomes(s, t, x, n)
<1>1. ASSUME NEW y \in Buffer, y # x PROVE Cells(t, y) = Cells(s, y) /\ Room(t, y) = Room(s, y) /\ t.of[y] = s.of[y]
  <2>1. t.of[y] = s.of[y] /\ s.of[y].inline \in BOOLEAN /\ (Outline(t, y) <=> Outline(s, y))
    BY <1>1 DEF BuffersOwn, IsState, IsMember, Outline
  <2>2. CASE Outline(s, y)
    BY <1>1, <2>1, <2>2 DEF Cells, Room, Buffers!Data, Buffers!Capacity, Outline
  <2>3. CASE ~Outline(s, y)
    <3>1. s.of[y].inline = TRUE /\ t.of[y].inline = TRUE
      BY <2>1, <2>3 DEF Outline
    <3> QED BY <2>1, <3>1 DEF Cells, Room, Buffers!Data, Buffers!Capacity, Outline
  <2> QED BY <2>1, <2>2, <2>3
<1>2. Fits(t)
  BY <1>1 DEF Fits, BuffersOwn
<1> QED BY <1>1, <1>2 DEF Becomes, BuffersOwn

LEMMA BecomesAgain ==
    ASSUME NEW s, NEW t, NEW u, NEW x \in Buffer, NEW m, NEW n, Becomes(s, t, x, m), Becomes(t, u, x, n)
    PROVE  Becomes(s, u, x, n)
BY DEF Becomes

LEMMA Unchanged ==
    ASSUME NEW s, BuffersOwn(s), NEW x \in Buffer PROVE Becomes(s, s, x, s.of[x].size) /\ Keeps(s, s, x)
BY DEF Becomes, Keeps

LEMMA SizeIs ==
    ASSUME NEW s, BuffersOwn(s), NEW x \in Buffer
    PROVE  /\ s.of[x].size \in Nat /\ Room(s, x) \in Nat /\ s.of[x].size <= Room(s, x)
           /\ IsCells(Cells(s, x), Room(s, x)) /\ IsMember(s.of[x]) /\ IsState(s) /\ s.of[x].inline \in BOOLEAN
BY DEF BuffersOwn, IsState, IsMember, Fits, IsCells

LEMMA Reshaped ==
    ASSUME NEW s, BuffersOwn(s), NEW x \in Buffer, NEW b, IsMember(b),
           b.inline = s.of[x].inline, b.block = s.of[x].block, b.capacity = s.of[x].capacity,
           b.inline => IsCells(b.cells, InlineCapacity), b.size <= Room(s, x)
    PROVE  LET t == [s EXCEPT !.of[x] = b]
           IN  /\ Becomes(s, t, x, b.size) /\ Room(t, x) = Room(s, x)
               /\ Cells(t, x) = IF b.inline THEN b.cells ELSE Cells(s, x)
<1> DEFINE t == [s EXCEPT !.of[x] = b]
<1>1. /\ IsState(t) /\ t.of[x] = b /\ \A y \in Buffer : y # x => t.of[y] = s.of[y]
      /\ t.heap = s.heap /\ t.freed = s.freed /\ t.meant = s.meant
  BY MemberReplaced DEF BuffersOwn
<1> HIDE DEF t
<1>2. \A y \in Buffer : t.of[y].inline = s.of[y].inline /\ t.of[y].block = s.of[y].block /\ t.of[y].capacity = s.of[y].capacity
  BY <1>1
<1>3. BlocksAre(t)
  BY <1>1, <1>2 DEF BuffersOwn, BlocksAre, Outline
<1>4. Room(t, x) = Room(s, x) /\ Cells(t, x) = IF b.inline THEN b.cells ELSE Cells(s, x)
  BY <1>1 DEF Room, Cells, Buffers!Data, Buffers!Capacity
<1>5. IsCells(Cells(t, x), Room(t, x))
  <2>1. CASE b.inline
    <3>1. Room(s, x) = InlineCapacity
      BY <2>1 DEF Room, Buffers!Capacity
    <3> QED BY <1>4, <2>1, <3>1
  <2>2. CASE ~b.inline
    BY <1>4, <2>2, SizeIs
  <2> QED BY <2>1, <2>2
<1>6. Becomes(s, t, x, b.size)
  BY <1>1, <1>3, <1>4, <1>5, Assembled
<1> QED BY <1>4, <1>6 DEF t

LEMMA SizedOwn ==
    ASSUME NEW s, BuffersOwn(s), NEW x \in Buffer, NEW n \in Nat, n <= Room(s, x)
    PROVE  LET t == [s EXCEPT !.of[x].size = n]
           IN  Becomes(s, t, x, n) /\ Cells(t, x) = Cells(s, x) /\ Room(t, x) = Room(s, x)
<1> DEFINE m == s.of[x]
           b == [m EXCEPT !.size = n]
           t == [s EXCEPT !.of[x] = b]
<1>1. IsMember(m) /\ IsState(s) /\ IsCells(Cells(s, x), Room(s, x)) /\ m.inline \in BOOLEAN
  BY SizeIs
<1>2. b = [inline |-> m.inline, size |-> n, cells |-> m.cells, block |-> m.block, capacity |-> m.capacity]
  <2> HIDE DEF m
  <2> QED BY <1>1 DEF IsMember
<1>3. IsMember(b) /\ b.inline = m.inline /\ b.block = m.block /\ b.capacity = m.capacity /\ b.size = n /\ b.cells = m.cells
  BY <1>1, <1>2 DEF IsMember
<1>4. [s EXCEPT !.of[x].size = n] = t
  BY <1>1 DEF IsState
<1> HIDE DEF b
<1>5. m.inline => Cells(s, x) = m.cells /\ IsCells(m.cells, InlineCapacity)
  BY <1>1 DEF Cells, Room, Buffers!Data, Buffers!Capacity
<1>6. Becomes(s, t, x, n) /\ Room(t, x) = Room(s, x) /\ Cells(t, x) = IF b.inline THEN b.cells ELSE Cells(s, x)
  BY <1>3, <1>5, Reshaped
<1> QED BY <1>3, <1>4, <1>5, <1>6

LEMMA WithDataOwn ==
    ASSUME NEW s, BuffersOwn(s), NEW x \in Buffer, NEW c, IsCells(c, Room(s, x))
    PROVE  LET t == Buffers!WithData(s, x, c) IN Becomes(s, t, x, s.of[x].size) /\ Cells(t, x) = c
<1> DEFINE m == s.of[x]
<1>1. IsMember(m) /\ IsState(s) /\ m.size <= Room(s, x)
  BY SizeIs
<1>2. CASE m.inline
  <2> DEFINE b == [m EXCEPT !.cells = c]
             t == [s EXCEPT !.of[x] = b]
  <2>1. b = [inline |-> m.inline, size |-> m.size, cells |-> c, block |-> m.block, capacity |-> m.capacity]
    <3> HIDE DEF m
    <3> QED BY <1>1 DEF IsMember
  <2>2. IsMember(b) /\ b.inline = m.inline /\ b.block = m.block /\ b.capacity = m.capacity /\ b.size = m.size /\ b.cells = c
    BY <1>1, <2>1 DEF IsMember
  <2>3. Buffers!WithData(s, x, c) = t
    BY <1>1, <1>2 DEF Buffers!WithData, IsState
  <2>4. Room(s, x) = InlineCapacity
    BY <1>2 DEF Room, Buffers!Capacity
  <2> HIDE DEF b
  <2>5. Becomes(s, t, x, m.size) /\ Cells(t, x) = IF b.inline THEN b.cells ELSE Cells(s, x)
    BY <1>1, <2>2, <2>4, Reshaped
  <2> QED BY <1>2, <2>2, <2>3, <2>5
<1>3. CASE ~m.inline
  <2> DEFINE heap == [s.heap EXCEPT ![m.block] = c]
             t == [s EXCEPT !.heap = heap]
  <2>1. Buffers!WithData(s, x, c) = t
    BY <1>1, <1>3 DEF Buffers!WithData, IsState
  <2>2. m.block \in DOMAIN s.heap /\ IsCells(c, m.capacity) /\ Room(s, x) = m.capacity
    BY <1>3 DEF BuffersOwn, BlocksAre, Cells, Room, Buffers!Data, Buffers!Capacity, Outline
  <2>3. /\ heap = [k \in DOMAIN heap |-> heap[k]] /\ DOMAIN heap = DOMAIN s.heap /\ heap[m.block] = c
        /\ \A k \in DOMAIN s.heap : k # m.block => heap[k] = s.heap[k]
    BY <1>1, <2>2 DEF IsState
  <2> HIDE DEF heap
  <2>4. /\ t = [of |-> t.of, heap |-> t.heap, meant |-> t.meant, freed |-> t.freed]
        /\ t.of = s.of /\ t.heap = heap /\ t.freed = s.freed /\ t.meant = s.meant
    BY <1>1 DEF IsState
  <2> HIDE DEF t
  <2>5. IsState(t)
    BY <1>1, <2>3, <2>4 DEF IsState
  <2>6. \A y \in Buffer : Outline(s, y) => IsCells(heap[s.of[y].block], s.of[y].capacity)
    BY <1>3, <2>2, <2>3 DEF BuffersOwn, BlocksAre, Outline
  <2>7. BlocksAre(t)
    BY <2>3, <2>4, <2>6 DEF BuffersOwn, BlocksAre, Outline
  <2>8. Outline(t, x) /\ Cells(t, x) = c /\ Room(t, x) = m.capacity
    <3>1. Outline(t, x)
      BY <1>3, <2>4 DEF Outline
    <3> QED BY <2>3, <2>4, <3>1 DEF Cells, Room, Buffers!Data, Buffers!Capacity, Outline
  <2>9. \A y \in Buffer : y # x /\ Outline(s, y) => heap[s.of[y].block] = s.heap[s.of[y].block]
    BY <1>3, <2>3 DEF BuffersOwn, BlocksAre, Outline
  <2>10. Becomes(s, t, x, m.size)
    BY <1>1, <2>2, <2>4, <2>5, <2>7, <2>8, <2>9, Assembled
  <2> QED BY <2>1, <2>8, <2>10
<1> QED BY <1>2, <1>3

LEMMA StateFreed ==
    ASSUME NEW s, IsState(s), NEW h, NEW f
    PROVE  [s EXCEPT !.heap = h, !.freed = f] = [of |-> s.of, heap |-> h, meant |-> s.meant, freed |-> f]
<1> DEFINE r == [s EXCEPT !.heap = h, !.freed = f]
<1>1. s \in [of : {s.of}, heap : {s.heap}, meant : {s.meant}, freed : {s.freed}]
  BY DEF IsState
<1>2. r \in [of : {s.of}, heap : {h}, meant : {s.meant}, freed : {f}]
  BY <1>1
<1> HIDE DEF r
<1>3. r = [of |-> r.of, heap |-> r.heap, meant |-> r.meant, freed |-> r.freed]
      /\ r.of = s.of /\ r.heap = h /\ r.meant = s.meant /\ r.freed = f
  BY <1>2
<1> QED BY <1>3 DEF r

\* Without the block of x, if it has one: for x to be in place
Less(s, x, t) ==
    /\ IsState(t) /\ t.of = s.of /\ t.freed = TRUE /\ t.meant = s.meant
    /\ DOMAIN t.heap = IF Outline(s, x) THEN DOMAIN s.heap \ {s.of[x].block} ELSE DOMAIN s.heap
    /\ \A k \in DOMAIN t.heap : t.heap[k] = s.heap[k]

LEMMA FreeIs ==
    ASSUME NEW s, IsState(s), s.freed = TRUE, NEW x \in Buffer, Outline(s, x), s.of[x].block \in DOMAIN s.heap,
           IsCells(s.heap[s.of[x].block], s.of[x].capacity)
    PROVE  Less(s, x, Buffers!Free(s, s.of[x]))
<1> DEFINE m == s.of[x]
           heap == [k \in DOMAIN s.heap \ {m.block} |-> s.heap[k]]
           t == [s EXCEPT !.heap = heap, !.freed = TRUE]
<1>1. m.block \in DOMAIN s.heap /\ Len(s.heap[m.block]) = m.capacity /\ s.freed = TRUE /\ IsState(s)
  BY CellsLen
<1>2. Buffers!Free(s, m) = t
  <2>1. (s.freed /\ m.block \in DOMAIN s.heap /\ Len(s.heap[m.block]) = m.capacity) = TRUE
    BY <1>1
  <2>2. Buffers!Free(s, m) = [s EXCEPT !.heap = heap,
                                       !.freed = s.freed /\ m.block \in DOMAIN s.heap /\ Len(s.heap[m.block]) = m.capacity]
    BY <1>1 DEF Buffers!Free, IsState
  <2> HIDE DEF heap, m
  <2> QED BY <2>1, <2>2
<1>3. heap = [k \in DOMAIN heap |-> heap[k]] /\ DOMAIN heap = DOMAIN s.heap \ {m.block} /\ \A k \in DOMAIN heap : heap[k] = s.heap[k]
  OBVIOUS
<1> HIDE DEF heap
<1>4. t = [of |-> s.of, heap |-> heap, meant |-> s.meant, freed |-> TRUE]
  BY <1>1, StateFreed
<1> HIDE DEF t
<1>5. /\ t = [of |-> t.of, heap |-> t.heap, meant |-> t.meant, freed |-> t.freed]
      /\ t.of = s.of /\ t.heap = heap /\ t.freed = TRUE /\ t.meant = s.meant
  BY <1>4
<1>6. IsState(t)
  BY <1>1, <1>3, <1>5 DEF IsState
<1> QED BY <1>2, <1>3, <1>5, <1>6 DEF Less

LEMMA Inlined ==
    ASSUME NEW s, BuffersOwn(s), NEW x \in Buffer, NEW f, Less(s, x, f), NEW b, IsMember(b), b.inline,
           IsCells(b.cells, InlineCapacity), b.size <= InlineCapacity
    PROVE  LET t == [f EXCEPT !.of[x] = b] IN Becomes(s, t, x, b.size) /\ Cells(t, x) = b.cells
<1> DEFINE t == [f EXCEPT !.of[x] = b]
<1>1. /\ IsState(f) /\ f.of = s.of /\ f.freed = TRUE /\ f.meant = s.meant
      /\ DOMAIN f.heap = IF Outline(s, x) THEN DOMAIN s.heap \ {s.of[x].block} ELSE DOMAIN s.heap
      /\ \A k \in DOMAIN f.heap : f.heap[k] = s.heap[k]
  BY DEF Less
<1>2. /\ IsState(t) /\ t.of[x] = b /\ \A y \in Buffer : y # x => t.of[y] = s.of[y]
      /\ t.heap = f.heap /\ t.freed = f.freed /\ t.meant = f.meant
  BY <1>1, MemberReplaced
<1> HIDE DEF t
<1>3. ~Outline(t, x) /\ \A y \in Buffer : y # x => (Outline(t, y) <=> Outline(s, y))
  BY <1>2 DEF Outline
<1>4. \A y \in Buffer : y # x /\ Outline(s, y) => s.of[y].block \in DOMAIN f.heap
  BY <1>1 DEF BuffersOwn, BlocksAre
<1>5. \A y \in Buffer : Outline(t, y) => t.of[y].block \in DOMAIN t.heap /\ IsCells(t.heap[t.of[y].block], t.of[y].capacity)
  BY <1>1, <1>2, <1>3, <1>4 DEF BuffersOwn, BlocksAre
<1>6. \A y, z \in Buffer : Outline(t, y) /\ Outline(t, z) /\ t.of[y].block = t.of[z].block => y = z
  BY <1>2, <1>3 DEF BuffersOwn, BlocksAre
<1>7. \A k \in DOMAIN t.heap : \E y \in Buffer : Outline(t, y) /\ t.of[y].block = k
  BY <1>1, <1>2, <1>3 DEF BuffersOwn, BlocksAre
<1>8. BlocksAre(t)
  BY <1>1, <1>2, <1>5, <1>6, <1>7 DEF BlocksAre
<1>9. Cells(t, x) = b.cells /\ Room(t, x) = InlineCapacity
  BY <1>2 DEF Cells, Room, Buffers!Data, Buffers!Capacity
<1>10. \A y \in Buffer : y # x /\ Outline(s, y) => t.heap[s.of[y].block] = s.heap[s.of[y].block]
  BY <1>1, <1>2, <1>4
<1>11. Becomes(s, t, x, b.size)
  BY <1>1, <1>2, <1>8, <1>9, <1>10, Assembled
<1> QED BY <1>9, <1>11 DEF t

LEMMA InlinedOwn ==
    ASSUME NEW s, BuffersOwn(s), NEW x \in Buffer, NEW b, IsMember(b), b.inline,
           IsCells(b.cells, InlineCapacity), b.size <= InlineCapacity
    PROVE  LET t == [(IF s.of[x].inline THEN s ELSE Buffers!Free(s, s.of[x])) EXCEPT !.of[x] = b]
           IN  Becomes(s, t, x, b.size) /\ Cells(t, x) = b.cells
<1>1. CASE s.of[x].inline
  <2>1. Less(s, x, s)
    BY <1>1 DEF Less, BuffersOwn, BlocksAre, Outline
  <2>2. Becomes(s, [s EXCEPT !.of[x] = b], x, b.size) /\ Cells([s EXCEPT !.of[x] = b], x) = b.cells
    BY <2>1, Inlined
  <2> QED BY <1>1, <2>2
<1>2. CASE ~s.of[x].inline
  <2>1. Less(s, x, Buffers!Free(s, s.of[x]))
    BY <1>2, FreeIs DEF BuffersOwn, BlocksAre, Outline
  <2>2. /\ Becomes(s, [Buffers!Free(s, s.of[x]) EXCEPT !.of[x] = b], x, b.size)
        /\ Cells([Buffers!Free(s, s.of[x]) EXCEPT !.of[x] = b], x) = b.cells
    BY <2>1, Inlined
  <2> QED BY <1>2, <2>2
<1> QED BY <1>1, <1>2

LEMMA EnsuredOwn ==
    ASSUME NEW s, BuffersOwn(s), NEW x \in Buffer, NEW n \in Nat
    PROVE  LET t == Buffers!EnsureCapacity(s, x, n)
           IN  Becomes(s, t, x, s.of[x].size) /\ Keeps(s, t, x) /\ n <= Room(t, x)
<1> DEFINE b == s.of[x]
           good == Buffers!GoodSize(n)
           cells == Buffers!CopiedTo(s, b, good)
           k == CHOOSE j \in Buffers!Blocks \ DOMAIN s.heap : TRUE
           heap == [j \in DOMAIN s.heap \cup {k} |-> IF j = k THEN cells ELSE s.heap[j]]
           t == [s EXCEPT !.heap = heap]
           u == IF b.inline THEN t ELSE Buffers!Free(t, b)
           m == [inline |-> FALSE, size |-> b.size, cells |-> <<>>, block |-> k, capacity |-> good]
           w == [u EXCEPT !.of[x] = m]
<1>1. CASE n <= Buffers!Capacity(b)
  <2>1. Buffers!EnsureCapacity(s, x, n) = s
    BY <1>1 DEF Buffers!EnsureCapacity
  <2> QED BY <1>1, <2>1, Unchanged DEF Room
<1>2. CASE ~(n <= Buffers!Capacity(b))
  <2>1. Buffers!EnsureCapacity(s, x, n) = w
    BY <1>2 DEF Buffers!EnsureCapacity, Buffers!Allocate
  <2>2. k \notin DOMAIN s.heap
    BY BlockLeft
  <2>3. good \in Nat /\ n <= good /\ IsCells(cells, good)
    <3>1. good \in Nat /\ n <= good
      BY DEF Buffers!GoodSize
    <3> HIDE DEF good
    <3>2. IsCells(Buffers!Unwritten(good), good)
      BY <3>1, UnwrittenIs
    <3>3. \A at, bytes : IsCells(Buffers!Overlaid(Buffers!Unwritten(good), at, bytes), good)
      BY <3>2, OverlaidIs
    <3>4. IsCells(cells, good)
      BY <3>3 DEF Buffers!CopiedTo
    <3> QED BY <3>1, <3>4
  <2>18. b.size < n /\ \A i \in 1 .. b.size : cells[i] = Cells(s, x)[i]
    <3>1. b.size \in Nat /\ b.size <= Room(s, x) /\ Room(s, x) \in Nat /\ IsCells(Cells(s, x), Room(s, x)) /\ b.size < n
      BY <1>2, SizeIs DEF Room
    <3>2. good \in Nat /\ n <= good
      BY <2>3
    <3> HIDE DEF good
    <3>3. IsCells(Buffers!Unwritten(good), good)
      BY <3>2, UnwrittenIs
    <3>4. ASSUME NEW bytes, DOMAIN bytes = 1 .. Len(bytes), Len(bytes) \in Nat, b.size <= Len(bytes)
          PROVE  \A i \in 1 .. b.size : Buffers!Overlaid(Buffers!Unwritten(good), 0, bytes)[i] = bytes[i]
      BY <3>1, <3>2, <3>3, <3>4, OverlaidIs
    <3>5. CASE b.inline
      <4> DEFINE bytes == Buffers!Prefix(b.cells, b.size)
      <4>1. IsCells(bytes, b.size) /\ \A i \in 1 .. b.size : bytes[i] = b.cells[i]
        BY <3>1, PrefixIs
      <4>2. Cells(s, x) = b.cells
        BY <3>5 DEF Cells, Buffers!Data
      <4>3. cells = Buffers!Overlaid(Buffers!Unwritten(good), 0, bytes)
        BY <3>5 DEF Buffers!CopiedTo
      <4> HIDE DEF bytes, cells, b
      <4>4. DOMAIN bytes = 1 .. Len(bytes) /\ Len(bytes) = b.size
        BY <4>1, CellsLen DEF IsCells
      <4> QED BY <3>1, <3>4, <4>1, <4>2, <4>3, <4>4
    <3>6. CASE ~b.inline
      <4> DEFINE bytes == s.heap[b.block]
      <4>1. Cells(s, x) = bytes /\ IsCells(bytes, Room(s, x))
        BY <3>1, <3>6 DEF Cells, Buffers!Data
      <4>2. cells = Buffers!Overlaid(Buffers!Unwritten(good), 0, bytes)
        BY <3>6 DEF Buffers!CopiedTo
      <4> HIDE DEF bytes, cells, b
      <4>3. DOMAIN bytes = 1 .. Len(bytes) /\ Len(bytes) = Room(s, x)
        BY <4>1, CellsLen DEF IsCells
      <4> QED BY <3>1, <3>4, <4>1, <4>2, <4>3
    <3> QED BY <3>1, <3>5, <3>6
  <2> HIDE DEF good, cells, k
  <2>4. IsState(s) /\ BlocksAre(s) /\ IsMember(b)
    BY SizeIs DEF BuffersOwn
  <2>5. IsMember(m) /\ m.inline = FALSE /\ m.block = k /\ m.capacity = good /\ m.size = b.size
    BY <2>3, <2>4 DEF IsMember
  <2> HIDE DEF m
  <2>6. /\ heap = [j \in DOMAIN heap |-> heap[j]] /\ DOMAIN heap = DOMAIN s.heap \cup {k} /\ heap[k] = cells
        /\ \A j \in DOMAIN s.heap : heap[j] = s.heap[j]
    BY <2>2
  <2> HIDE DEF heap
  <2>7. /\ t = [of |-> t.of, heap |-> t.heap, meant |-> t.meant, freed |-> t.freed]
        /\ t.of = s.of /\ t.heap = heap /\ t.freed = TRUE /\ t.meant = s.meant
    BY <2>4 DEF IsState, BlocksAre
  <2> HIDE DEF t
  <2>8. IsState(t)
    BY <2>4, <2>6, <2>7 DEF IsState
  <2>9. Less(t, x, u)
    <3>1. CASE b.inline
      BY <2>7, <2>8, <3>1 DEF Less, Outline
    <3>2. CASE ~b.inline
      <4>1. b.block \in DOMAIN s.heap /\ IsCells(s.heap[b.block], b.capacity)
        BY <2>4, <3>2 DEF BlocksAre, Outline
      <4>2. t.of[x] = b /\ Outline(t, x) /\ b.block \in DOMAIN t.heap /\ IsCells(t.heap[b.block], b.capacity)
        BY <2>6, <2>7, <3>2, <4>1 DEF Outline
      <4>3. Less(t, x, Buffers!Free(t, t.of[x]))
        BY <2>7, <2>8, <4>2, FreeIs
      <4> QED BY <3>2, <4>2, <4>3
    <3> QED BY <3>1, <3>2
  <2> HIDE DEF u
  <2>10. /\ IsState(u) /\ u.of = s.of /\ u.freed = TRUE /\ u.meant = s.meant
         /\ DOMAIN u.heap = IF Outline(s, x) THEN (DOMAIN s.heap \cup {k}) \ {b.block} ELSE DOMAIN s.heap \cup {k}
         /\ \A j \in DOMAIN u.heap : u.heap[j] = heap[j]
    BY <2>6, <2>7, <2>9 DEF Less, Outline
  <2>11. /\ IsState(w) /\ w.of[x] = m /\ \A y \in Buffer : y # x => w.of[y] = s.of[y]
         /\ w.heap = u.heap /\ w.freed = TRUE /\ w.meant = s.meant
    BY <2>5, <2>10, MemberReplaced
  <2> HIDE DEF w, b
  <2>12. Outline(w, x) /\ \A y \in Buffer : y # x => (Outline(w, y) <=> Outline(s, y))
    BY <2>5, <2>11 DEF Outline
  <2>13. k \in DOMAIN u.heap /\ \A y \in Buffer : y # x /\ Outline(s, y) => s.of[y].block \in DOMAIN u.heap /\ s.of[y].block # k
    BY <2>2, <2>4, <2>10 DEF BlocksAre, b
  <2>14. \A y \in Buffer : Outline(w, y) => w.of[y].block \in DOMAIN w.heap /\ IsCells(w.heap[w.of[y].block], w.of[y].capacity)
    <3>1. SUFFICES ASSUME NEW y \in Buffer, Outline(w, y)
                   PROVE  w.of[y].block \in DOMAIN w.heap /\ IsCells(w.heap[w.of[y].block], w.of[y].capacity)
      OBVIOUS
    <3>2. CASE y = x
      BY <2>3, <2>5, <2>6, <2>10, <2>11, <2>13, <3>2
    <3>3. CASE y # x
      <4>1. Outline(s, y) /\ w.of[y] = s.of[y]
        BY <2>11, <2>12, <3>1, <3>3
      <4>2. s.of[y].block \in DOMAIN s.heap /\ IsCells(s.heap[s.of[y].block], s.of[y].capacity)
        BY <2>4, <4>1 DEF BlocksAre
      <4>3. s.of[y].block \in DOMAIN u.heap /\ u.heap[s.of[y].block] = s.heap[s.of[y].block]
        BY <2>6, <2>10, <2>13, <3>3, <4>1, <4>2
      <4> QED BY <2>11, <4>1, <4>2, <4>3
    <3> QED BY <3>2, <3>3
  <2>15. \A y, z \in Buffer : Outline(w, y) /\ Outline(w, z) /\ w.of[y].block = w.of[z].block => y = z
    BY <2>4, <2>5, <2>11, <2>12, <2>13 DEF BlocksAre
  <2>16. ASSUME NEW j \in DOMAIN w.heap PROVE \E y \in Buffer : Outline(w, y) /\ w.of[y].block = j
    <3>1. CASE j = k
      BY <2>5, <2>11, <2>12, <3>1
    <3>2. CASE j # k
      <4>1. j \in DOMAIN s.heap /\ (Outline(s, x) => j # s.of[x].block)
        BY <2>10, <2>11, <3>2 DEF b
      <4>2. PICK y \in Buffer : Outline(s, y) /\ s.of[y].block = j
        BY <2>4, <4>1 DEF BlocksAre
      <4>3. y # x
        BY <4>1, <4>2
      <4> QED BY <2>11, <2>12, <4>2, <4>3
    <3> QED BY <3>1, <3>2
  <2>17. BlocksAre(w)
    BY <2>11, <2>14, <2>15, <2>16 DEF BlocksAre
  <2>19. Cells(w, x) = cells /\ Room(w, x) = good
    BY <2>5, <2>6, <2>10, <2>11, <2>12, <2>13 DEF Cells, Room, Buffers!Data, Buffers!Capacity, Outline
  <2>20. \A y \in Buffer : y # x /\ Outline(s, y) => w.heap[s.of[y].block] = s.heap[s.of[y].block]
    BY <2>4, <2>6, <2>10, <2>11, <2>13 DEF BlocksAre
  <2>21. b.size \in Nat /\ b.size <= good /\ w.of[x].size = b.size
    BY <2>3, <2>4, <2>5, <2>11, <2>18 DEF IsMember
  <2>22. Becomes(s, w, x, b.size)
    BY <2>3, <2>11, <2>17, <2>19, <2>20, <2>21, Assembled
  <2>23. Keeps(s, w, x)
    BY <2>18, <2>19 DEF Keeps, b
  <2> QED BY <2>1, <2>3, <2>19, <2>22, <2>23 DEF b
<1> QED BY <1>1, <1>2

\* The bytes laid over what a buffer holds.
LEMMA WrittenOwn ==
    ASSUME NEW s, BuffersOwn(s), NEW x \in Buffer, NEW at, NEW bytes
    PROVE  LET t == Buffers!Written(s, x, at, bytes)
           IN  /\ Becomes(s, t, x, s.of[x].size)
               /\ \A i \in 1 .. s.of[x].size :
                     Cells(t, x)[i] = IF i - at \in DOMAIN bytes THEN bytes[i - at] ELSE Cells(s, x)[i]
<1> DEFINE c == Buffers!Overlaid(Cells(s, x), at, bytes)
           t == Buffers!WithData(s, x, c)
           n == s.of[x].size
<1>1. IsCells(Cells(s, x), Room(s, x)) /\ n \in Nat /\ Room(s, x) \in Nat /\ n <= Room(s, x)
  BY SizeIs
<1>2. /\ IsCells(c, Room(s, x))
      /\ \A i \in 1 .. Room(s, x) : c[i] = IF i - at \in DOMAIN bytes THEN bytes[i - at] ELSE Cells(s, x)[i]
  BY <1>1, OverlaidIs
<1>3. \A i \in 1 .. n : i \in 1 .. Room(s, x)
  BY <1>1
<1> HIDE DEF c
<1>4. Becomes(s, t, x, n) /\ Cells(t, x) = c
  BY <1>2, WithDataOwn
<1>5. Buffers!Written(s, x, at, bytes) = t
  BY DEF Buffers!Written, Cells, c
<1> HIDE DEF t, n
<1>6. \A i \in 1 .. n : Cells(t, x)[i] = IF i - at \in DOMAIN bytes THEN bytes[i - at] ELSE Cells(s, x)[i]
  BY <1>2, <1>3, <1>4
<1> QED BY <1>4, <1>5, <1>6 DEF n

LEMMA TrimOwn ==
    ASSUME NEW s, BuffersOwn(s), NEW x \in Buffer, NEW n \in Nat, n <= s.of[x].size, NEW mayDiscard
    PROVE  LET t == Buffers!Trim(s, x, n, mayDiscard)
           IN  Becomes(s, t, x, n) /\ (~mayDiscard => Keeps(s, t, x))
<1> DEFINE b == s.of[x]
           kept == IF mayDiscard THEN <<>> ELSE Buffers!Prefix(s.heap[b.block], n)
           cells == Buffers!Overlaid(Buffers!InPlace.cells, 0, kept)
           m == [Buffers!InPlace EXCEPT !.size = n, !.cells = cells]
           t == [s EXCEPT !.of[x].size = n]
           pre == Buffers!Prefix(Cells(s, x), n)
           c == Buffers!Overlaid(Buffers!Unwritten(Room(s, x)), 0, pre)
<1>1. n <= Room(s, x) /\ Room(s, x) \in Nat /\ b.size \in Nat
  BY SizeIs
<1>2. \A i \in 1 .. n : i - 0 = i
  OBVIOUS
<1>3. CASE ~b.inline /\ n <= InlineCapacity
  <2>1. Buffers!Trim(s, x, n, mayDiscard) = [Buffers!Free(s, b) EXCEPT !.of[x] = m]
    BY <1>3 DEF Buffers!Trim, Buffers!BlockFreed
  <2>2. m = [inline |-> TRUE, size |-> n, cells |-> cells, block |-> 0, capacity |-> 0]
    <3>1. Buffers!InPlace \in [inline : {TRUE}, size : {0}, cells : {Buffers!InPlace.cells}, block : {0}, capacity : {0}]
      BY DEF Buffers!InPlace
    <3> HIDE DEF cells
    <3>2. m \in [inline : {TRUE}, size : {n}, cells : {cells}, block : {0}, capacity : {0}]
      BY <3>1
    <3> HIDE DEF m
    <3> QED BY <3>2
  <2>3. IsMember(m) /\ m.inline /\ m.size = n /\ m.cells = cells
    <3> HIDE DEF m, cells
    <3> QED BY <2>2 DEF IsMember
  <2>4. /\ IsCells(cells, InlineCapacity)
        /\ \A i \in 1 .. InlineCapacity : i - 0 \in DOMAIN kept => cells[i] = kept[i - 0]
    BY InPlaceIs, OverlaidIs
  <2> DEFINE u == [(IF s.of[x].inline THEN s ELSE Buffers!Free(s, s.of[x])) EXCEPT !.of[x] = m]
  <2>5. Buffers!Trim(s, x, n, mayDiscard) = u
    BY <1>3, <2>1
  <2>6. Becomes(s, u, x, n) /\ Cells(u, x) = cells
    <3> HIDE DEF m, cells
    <3> QED BY <1>3, <2>3, <2>4, InlinedOwn
  <2>7. ASSUME ~mayDiscard PROVE Keeps(s, u, x)
    <3>1. Cells(s, x) = s.heap[b.block]
      BY <1>3 DEF Cells, Buffers!Data
    <3>2. kept = Buffers!Prefix(s.heap[b.block], n)
      BY <2>7
    <3> HIDE DEF kept, b
    <3>3. IsCells(kept, n) /\ \A i \in 1 .. n : kept[i] = Cells(s, x)[i]
      BY <3>1, <3>2, PrefixIs
    <3>4. DOMAIN kept = 1 .. n
      BY <3>3 DEF IsCells
    <3> HIDE DEF cells
    <3>5. \A i \in 1 .. n : cells[i] = Cells(s, x)[i]
      BY <1>2, <1>3, <2>4, <3>3, <3>4, BuffersAssumption
    <3>6. u.of[x].size = n
      BY <2>6 DEF Becomes
    <3> HIDE DEF u
    <3> QED BY <1>1, <2>6, <3>5, <3>6 DEF Keeps, b
  <2> HIDE DEF u
  <2> QED BY <2>5, <2>6, <2>7
<1>4. CASE ~(~b.inline /\ n <= InlineCapacity)
  <2>1. Buffers!Trim(s, x, n, mayDiscard) = Buffers!WithData(t, x, c)
    BY <1>4 DEF Buffers!Trim, Cells, Room
  <2>2. Becomes(s, t, x, n) /\ Room(t, x) = Room(s, x) /\ Cells(t, x) = Cells(s, x)
    BY <1>1, SizedOwn
  <2>3. IsCells(Buffers!Unwritten(Room(s, x)), Room(s, x)) /\ IsCells(pre, n) /\ \A i \in 1 .. n : pre[i] = Cells(s, x)[i]
    BY <1>1, UnwrittenIs, PrefixIs
  <2> HIDE DEF t, pre
  <2>4. /\ IsCells(c, Room(s, x))
        /\ \A i \in 1 .. Room(s, x) : i - 0 \in DOMAIN pre => c[i] = pre[i - 0]
    BY <2>3, OverlaidIs
  <2>5. DOMAIN pre = 1 .. n
    BY <2>3 DEF IsCells
  <2> HIDE DEF c
  <2>6. \A i \in 1 .. n : c[i] = Cells(s, x)[i]
    BY <1>1, <1>2, <2>3, <2>4, <2>5
  <2> DEFINE u == Buffers!WithData(t, x, c)
  <2>7. BuffersOwn(t) /\ t.of[x].size = n
    BY <2>2 DEF Becomes
  <2>8. Becomes(t, u, x, n) /\ Cells(u, x) = c
    BY <2>2, <2>4, <2>7, WithDataOwn
  <2> HIDE DEF u
  <2>9. Becomes(s, u, x, n)
    BY <2>2, <2>8, BecomesAgain
  <2>10. Keeps(s, u, x)
    BY <1>1, <2>6, <2>8, <2>9 DEF Keeps, Becomes
  <2> QED BY <2>1, <2>9, <2>10 DEF u
<1> QED BY <1>3, <1>4

LEMMA ResizedOwn ==
    ASSUME NEW s, BuffersOwn(s), NEW x \in Buffer, NEW n \in Nat
    PROVE  LET t == Buffers!Resized(s, x, n) IN Becomes(s, t, x, n) /\ Keeps(s, t, x)
<1>1. CASE n <= s.of[x].size
  <2>1. Buffers!Resized(s, x, n) = Buffers!Trim(s, x, n, FALSE)
    BY <1>1 DEF Buffers!Resized
  <2> QED BY <1>1, <2>1, TrimOwn
<1>2. CASE ~(n <= s.of[x].size)
  <2> DEFINE e == Buffers!EnsureCapacity(s, x, n)
             t == [e EXCEPT !.of[x].size = n]
  <2>1. Becomes(s, e, x, s.of[x].size) /\ Keeps(s, e, x) /\ n <= Room(e, x)
    BY EnsuredOwn
  <2>2. Buffers!Resized(s, x, n) = t
    BY <1>2 DEF Buffers!Resized
  <2> HIDE DEF e
  <2>3. BuffersOwn(e)
    BY <2>1 DEF Becomes
  <2>4. Becomes(e, t, x, n) /\ Cells(t, x) = Cells(e, x)
    BY <2>1, <2>3, SizedOwn
  <2> HIDE DEF t
  <2>5. Becomes(s, t, x, n)
    BY <2>1, <2>4, BecomesAgain
  <2>6. s.of[x].size \in Nat
    BY SizeIs
  <2>7. Keeps(s, t, x)
    BY <2>1, <2>4, <2>6 DEF Keeps, Becomes
  <2> QED BY <2>2, <2>5, <2>7
<1> QED BY <1>1, <1>2

LEMMA ClearedOwn ==
    ASSUME NEW s, BuffersOwn(s), NEW x \in Buffer PROVE Becomes(s, Buffers!Cleared(s, x), x, 0)
<1>1. Becomes(s, [(IF s.of[x].inline THEN s ELSE Buffers!Free(s, s.of[x])) EXCEPT !.of[x] = Buffers!InPlace], x, 0)
  <2>1. InlineCapacity \in Nat
    BY BuffersAssumption
  <2> QED BY <2>1, InPlaceIs, InlinedOwn
<1> QED BY <1>1 DEF Buffers!Cleared

\* k more bytes behind those that were there.
Adds(s, t, x, bytes, k) ==
    /\ Becomes(s, t, x, s.of[x].size + k)
    /\ \A i \in 1 .. s.of[x].size + k :
          Cells(t, x)[i] = IF i <= s.of[x].size THEN Cells(s, x)[i] ELSE bytes[i - s.of[x].size]

LEMMA AppendedOwn ==
    ASSUME NEW s, BuffersOwn(s), NEW x \in Buffer, NEW bytes, NEW k, IsCells(bytes, k)
    PROVE  Adds(s, Buffers!Appended(s, x, bytes), x, bytes, k)
<1> DEFINE n == s.of[x].size
           r == Buffers!Resized(s, x, n + k)
           t == Buffers!Written(r, x, n, bytes)
<1>1. n \in Nat /\ k \in Nat /\ Len(bytes) = k /\ DOMAIN bytes = 1 .. k
  BY SizeIs, CellsLen DEF IsCells
<1>2. CASE bytes = <<>>
  <2>1. Len(bytes) = 0 /\ Buffers!Appended(s, x, bytes) = s
    BY <1>2 DEF Buffers!Appended
  <2>2. k = 0 /\ n + k = n
    BY <1>1, <2>1
  <2>3. Becomes(s, s, x, n + k)
    BY <2>2, Unchanged
  <2> QED BY <1>1, <2>1, <2>2, <2>3 DEF Adds
<1>3. CASE bytes # <<>>
  <2>1. Buffers!Appended(s, x, bytes) = t
    BY <1>1, <1>3 DEF Buffers!Appended
  <2>2. Becomes(s, r, x, n + k) /\ Keeps(s, r, x)
    BY <1>1, ResizedOwn
  <2>3. BuffersOwn(r) /\ r.of[x].size = n + k
    BY <2>2 DEF Becomes
  <2> HIDE DEF r
  <2>4. /\ Becomes(r, t, x, n + k)
        /\ \A i \in 1 .. n + k : Cells(t, x)[i] = IF i - n \in DOMAIN bytes THEN bytes[i - n] ELSE Cells(r, x)[i]
    BY <2>3, WrittenOwn
  <2> HIDE DEF t
  <2>5. Becomes(s, t, x, n + k)
    BY <2>2, <2>4, BecomesAgain
  <2>6. \A i \in 1 .. n + k : Cells(t, x)[i] = IF i <= n THEN Cells(s, x)[i] ELSE bytes[i - n]
    BY <1>1, <2>2, <2>3, <2>4 DEF Keeps
  <2> QED BY <2>1, <2>5, <2>6 DEF Adds
<1> QED BY <1>2, <1>3

LEMMA BuiltOwn ==
    ASSUME NEW s, BuffersOwn(s), NEW x \in Buffer, NEW bytes, NEW k, IsCells(bytes, k)
    PROVE  Adds(s, Buffers!Appended(Buffers!WillAppend(s, x, k), x, bytes), x, bytes, k)
<1> DEFINE n == s.of[x].size
           w == Buffers!WillAppend(s, x, k)
           t == Buffers!Appended(w, x, bytes)
<1>1. n \in Nat /\ k \in Nat
  BY SizeIs DEF IsCells
<1>2. Becomes(s, w, x, n) /\ Keeps(s, w, x)
  <2>1. CASE n + k <= Room(s, x)
    <3>1. w = s
      BY <2>1 DEF Buffers!WillAppend, Room
    <3> QED BY <3>1, Unchanged
  <2>2. CASE ~(n + k <= Room(s, x))
    <3>1. w = Buffers!EnsureCapacity(s, x, 2 * (n + k))
      BY <2>2 DEF Buffers!WillAppend, Room
    <3>2. 2 * (n + k) \in Nat
      BY <1>1
    <3> QED BY <3>1, <3>2, EnsuredOwn
  <2> QED BY <2>1, <2>2
<1>3. BuffersOwn(w) /\ w.of[x].size = n
  BY <1>2 DEF Becomes
<1> HIDE DEF w
<1>4. Adds(w, t, x, bytes, k)
  BY <1>3, AppendedOwn
<1> HIDE DEF t
<1>5. Becomes(s, t, x, n + k)
  BY <1>2, <1>3, <1>4, BecomesAgain DEF Adds
<1>6. \A i \in 1 .. n + k : Cells(t, x)[i] = IF i <= n THEN Cells(s, x)[i] ELSE bytes[i - n]
  BY <1>1, <1>2, <1>3, <1>4 DEF Keeps, Adds
<1> QED BY <1>5, <1>6 DEF Adds, w, t

LEMMA ReplacedOwn ==
    ASSUME NEW s, BuffersOwn(s), NEW x \in Buffer, NEW bytes, NEW k, IsCells(bytes, k)
    PROVE  LET t == Buffers!Replaced(s, x, bytes)
           IN  Becomes(s, t, x, k) /\ \A i \in 1 .. k : Cells(t, x)[i] = bytes[i]
<1> DEFINE f == Buffers!Cleared(s, x)
           r == Buffers!Resized(f, x, k)
           t == Buffers!Written(r, x, 0, bytes)
<1>1. k \in Nat /\ Len(bytes) = k /\ DOMAIN bytes = 1 .. k
  BY CellsLen DEF IsCells
<1>2. Buffers!Replaced(s, x, bytes) = t
  BY <1>1 DEF Buffers!Replaced, Buffers!Cleared
<1>3. Becomes(s, f, x, 0)
  BY ClearedOwn
<1> HIDE DEF f
<1>4. Becomes(f, r, x, k)
  BY <1>1, <1>3, ResizedOwn DEF Becomes
<1> HIDE DEF r
<1>5. BuffersOwn(r) /\ r.of[x].size = k
  BY <1>4 DEF Becomes
<1>6. /\ Becomes(r, t, x, k)
      /\ \A i \in 1 .. k : Cells(t, x)[i] = IF i - 0 \in DOMAIN bytes THEN bytes[i - 0] ELSE Cells(r, x)[i]
  BY <1>5, WrittenOwn
<1> HIDE DEF t
<1>7. Becomes(s, t, x, k)
  BY <1>3, <1>4, <1>6, BecomesAgain
<1>8. \A i \in 1 .. k : i - 0 = i
  BY <1>1
<1>9. \A i \in 1 .. k : Cells(t, x)[i] = bytes[i]
  BY <1>1, <1>6, <1>8
<1> QED BY <1>2, <1>7, <1>9

-----------------------------------------------------------------------------
(* What the buffers hold                                                   *)

LEMMA MeansIs ==
    ASSUME NEW s, BuffersOwn(s), NEW x \in Buffer, NEW bytes
    PROVE  LET t == Buffers!Means(s, x, bytes)
           IN  /\ BuffersOwn(t) /\ t.of = s.of /\ t.heap = s.heap
               /\ t.meant[x] = bytes /\ \A y \in Buffer : y # x => t.meant[y] = s.meant[y]
<1> DEFINE meant == [s.meant EXCEPT ![x] = bytes]
           t == [s EXCEPT !.meant = meant]
<1>1. Buffers!Means(s, x, bytes) = t
  BY DEF Buffers!Means, BuffersOwn, IsState
<1>2. meant = [y \in Buffer |-> meant[y]] /\ meant[x] = bytes /\ \A y \in Buffer : y # x => meant[y] = s.meant[y]
  BY DEF BuffersOwn, IsState
<1> HIDE DEF meant
<1>3. /\ t = [of |-> t.of, heap |-> t.heap, meant |-> t.meant, freed |-> t.freed]
      /\ t.of = s.of /\ t.heap = s.heap /\ t.freed = s.freed /\ t.meant = meant
  BY DEF BuffersOwn, IsState
<1> HIDE DEF t
<1>4. IsState(t) /\ BlocksAre(t)
  BY <1>2, <1>3 DEF BuffersOwn, IsState, BlocksAre, Outline
<1>5. Fits(t)
  BY <1>3 DEF BuffersOwn, Fits, Cells, Room, Buffers!Data
<1> QED BY <1>1, <1>2, <1>3, <1>4, <1>5 DEF BuffersOwn

\* The last part of every operation on one buffer: its contents are said to be what it has become.
LEMMA MeansHolds ==
    ASSUME NEW s, BuffersOwn(s), BuffersHold(s), NEW x \in Buffer, NEW t, NEW n, Becomes(s, t, x, n),
           NEW bytes, IsCells(bytes, n), \A i \in 1 .. n : bytes[i] \in {Unfilled, Cells(t, x)[i]}
    PROVE  BuffersOwn(Buffers!Means(t, x, bytes)) /\ BuffersHold(Buffers!Means(t, x, bytes))
<1> DEFINE u == Buffers!Means(t, x, bytes)
<1>1. BuffersOwn(t) /\ t.meant = s.meant /\ t.of[x].size = n
  BY DEF Becomes
<1>2. /\ BuffersOwn(u) /\ u.of = t.of /\ u.heap = t.heap
      /\ u.meant[x] = bytes /\ \A y \in Buffer : y # x => u.meant[y] = s.meant[y]
  BY <1>1, MeansIs
<1> HIDE DEF u
<1>3. \A y : Cells(u, y) = Cells(t, y)
  BY <1>2 DEF Cells, Buffers!Data
<1>4. HoldsAs(u, x, u.meant[x])
  BY <1>1, <1>2, <1>3 DEF HoldsAs
<1>5. ASSUME NEW y \in Buffer, y # x PROVE HoldsAs(u, y, u.meant[y])
  <2>1. HoldsAs(s, y, s.meant[y])
    BY DEF BuffersHold
  <2>2. u.of[y] = s.of[y] /\ Cells(u, y) = Cells(s, y) /\ u.meant[y] = s.meant[y]
    BY <1>2, <1>3, <1>5 DEF Becomes
  <2> QED BY <2>1, <2>2 DEF HoldsAs
<1>6. BuffersHold(u)
  BY <1>4, <1>5 DEF BuffersHold
<1> QED BY <1>2, <1>6 DEF u

\* The block changes hands.
Handed(s, x, y) == [(IF s.of[x].inline THEN s ELSE Buffers!Free(s, s.of[x]))
                       EXCEPT !.of[x] = s.of[y], !.of[y] = Buffers!MovedFrom(s.of[y])]

LEMMA MovedOwn ==
    ASSUME NEW s, BuffersOwn(s), NEW x \in Buffer, NEW y \in Buffer, x # y
    PROVE  LET w == Handed(s, x, y)
           IN  /\ BuffersOwn(w) /\ w.meant = s.meant
               /\ w.of[x] = s.of[y] /\ Cells(w, x) = Cells(s, y) /\ w.of[y].size = 0
               /\ \A z \in Buffer : z # x /\ z # y => w.of[z] = s.of[z] /\ Cells(w, z) = Cells(s, z)
<1> DEFINE f == IF s.of[x].inline THEN s ELSE Buffers!Free(s, s.of[x])
           t == [f EXCEPT !.of[x] = s.of[y]]
           w == [t EXCEPT !.of[y] = Buffers!InPlace]
<1>1. Less(s, x, f)
  <2>1. CASE s.of[x].inline
    BY <2>1 DEF Less, BuffersOwn, BlocksAre, Outline
  <2>2. CASE ~s.of[x].inline
    BY <2>2, FreeIs DEF BuffersOwn, BlocksAre, Outline
  <2> QED BY <2>1, <2>2
<1>2. Handed(s, x, y) = w
  BY DEF Buffers!MovedFrom, Handed
<1> HIDE DEF f
<1>3. /\ IsState(f) /\ f.of = s.of /\ f.freed = TRUE /\ f.meant = s.meant
      /\ DOMAIN f.heap = IF Outline(s, x) THEN DOMAIN s.heap \ {s.of[x].block} ELSE DOMAIN s.heap
      /\ \A k \in DOMAIN f.heap : f.heap[k] = s.heap[k]
  BY <1>1 DEF Less
<1>4. IsMember(s.of[y]) /\ BlocksAre(s)
  BY DEF BuffersOwn, IsState
<1>5. /\ IsState(t) /\ t.of[x] = s.of[y] /\ \A z \in Buffer : z # x => t.of[z] = s.of[z]
      /\ t.heap = f.heap /\ t.freed = f.freed /\ t.meant = s.meant
  BY <1>3, <1>4, MemberReplaced
<1> HIDE DEF t
<1>6. /\ IsState(w) /\ w.of[y] = Buffers!InPlace /\ \A z \in Buffer : z # y => w.of[z] = t.of[z]
      /\ w.heap = f.heap /\ w.freed = TRUE /\ w.meant = s.meant
  BY <1>3, <1>5, InPlaceIs, MemberReplaced
<1> HIDE DEF w
<1>7. /\ ~Outline(w, y) /\ (Outline(w, x) <=> Outline(s, y)) /\ w.of[x] = s.of[y]
      /\ \A z \in Buffer : z # x /\ z # y => (Outline(w, z) <=> Outline(s, z)) /\ w.of[z] = s.of[z]
  BY <1>5, <1>6, InPlaceIs DEF Outline
<1>8. \A z \in Buffer : z # x /\ Outline(s, z) => /\ s.of[z].block \in DOMAIN f.heap
                                                  /\ IsCells(f.heap[s.of[z].block], s.of[z].capacity)
  BY <1>3, <1>4 DEF BlocksAre
<1>9. \A z \in Buffer : Outline(w, z) => w.of[z].block \in DOMAIN w.heap /\ IsCells(w.heap[w.of[z].block], w.of[z].capacity)
  <2>1. SUFFICES ASSUME NEW z \in Buffer, Outline(w, z)
                 PROVE  w.of[z].block \in DOMAIN w.heap /\ IsCells(w.heap[w.of[z].block], w.of[z].capacity)
    OBVIOUS
  <2>2. z # y
    BY <1>7, <2>1
  <2>3. CASE z = x
    BY <1>6, <1>7, <1>8, <2>1, <2>3
  <2>4. CASE z # x
    BY <1>6, <1>7, <1>8, <2>1, <2>2, <2>4
  <2> QED BY <2>3, <2>4
<1>10. \A z, v \in Buffer : Outline(w, z) /\ Outline(w, v) /\ w.of[z].block = w.of[v].block => z = v
  BY <1>4, <1>7 DEF BlocksAre
<1>11. ASSUME NEW k \in DOMAIN w.heap PROVE \E z \in Buffer : Outline(w, z) /\ w.of[z].block = k
  <2>1. k \in DOMAIN s.heap /\ (Outline(s, x) => k # s.of[x].block)
    BY <1>3, <1>6
  <2>2. PICK z \in Buffer : Outline(s, z) /\ s.of[z].block = k
    BY <1>4, <2>1 DEF BlocksAre
  <2>3. z # x
    BY <2>1, <2>2
  <2>4. CASE z = y
    BY <1>7, <2>2, <2>4
  <2>5. CASE z # y
    BY <1>7, <2>2, <2>3, <2>5
  <2> QED BY <2>4, <2>5
<1>12. BlocksAre(w)
  BY <1>6, <1>9, <1>10, <1>11 DEF BlocksAre
<1>13. ASSUME NEW z \in Buffer, NEW v \in Buffer, z # y, v # x, w.of[z] = s.of[v]
       PROVE  Cells(w, z) = Cells(s, v) /\ Room(w, z) = Room(s, v)
  <2>1. CASE Outline(s, v)
    <3>1. s.of[v].block \in DOMAIN f.heap /\ w.heap[s.of[v].block] = s.heap[s.of[v].block]
      BY <1>3, <1>6, <1>8, <1>13, <2>1
    <3> QED BY <1>13, <2>1, <3>1 DEF Cells, Room, Buffers!Data, Buffers!Capacity, Outline
  <2>2. CASE ~Outline(s, v)
    BY <1>13, <2>2 DEF Cells, Room, Buffers!Data, Buffers!Capacity, Outline
  <2> QED BY <2>1, <2>2
<1>14. Cells(w, x) = Cells(s, y) /\ Room(w, x) = Room(s, y)
  BY <1>7, <1>13
<1>15. \A z \in Buffer : z # x /\ z # y => Cells(w, z) = Cells(s, z) /\ Room(w, z) = Room(s, z) /\ w.of[z] = s.of[z]
  BY <1>7, <1>13
<1>16. w.of[y].size = 0 /\ Cells(w, y) = Buffers!InPlace.cells /\ Room(w, y) = InlineCapacity
  BY <1>6, InPlaceIs DEF Cells, Room, Buffers!Data, Buffers!Capacity
<1>17. Fits(w)
  <2>1. InlineCapacity \in Nat
    BY BuffersAssumption
  <2>2. IsCells(Cells(w, y), Room(w, y)) /\ w.of[y].size <= Room(w, y)
    BY <1>16, <2>1, InPlaceIs
  <2>3. IsCells(Cells(w, x), Room(w, x)) /\ w.of[x].size <= Room(w, x)
    BY <1>7, <1>14 DEF BuffersOwn, Fits
  <2>4. \A z \in Buffer : z # x /\ z # y => IsCells(Cells(w, z), Room(w, z)) /\ w.of[z].size <= Room(w, z)
    BY <1>15 DEF BuffersOwn, Fits
  <2> QED BY <2>2, <2>3, <2>4 DEF Fits
<1>18. BuffersOwn(w)
  BY <1>6, <1>12, <1>17 DEF BuffersOwn
<1> QED BY <1>2, <1>6, <1>7, <1>14, <1>15, <1>16, <1>18

LEMMA MoveHolds ==
    ASSUME NEW s, BuffersOwn(s), BuffersHold(s), NEW x \in Buffer, NEW y \in Buffer, x # y
    PROVE  LET t == Buffers!Means(Buffers!Means(Handed(s, x, y), x, s.meant[y]), y, <<>>)
           IN  BuffersOwn(t) /\ BuffersHold(t)
<1> DEFINE w == Handed(s, x, y)
           v == Buffers!Means(w, x, s.meant[y])
           t == Buffers!Means(v, y, <<>>)
<1>1. /\ BuffersOwn(w) /\ w.meant = s.meant
      /\ w.of[x] = s.of[y] /\ Cells(w, x) = Cells(s, y) /\ w.of[y].size = 0
      /\ \A z \in Buffer : z # x /\ z # y => w.of[z] = s.of[z] /\ Cells(w, z) = Cells(s, z)
  BY MovedOwn
<1> HIDE DEF w
<1>2. /\ BuffersOwn(v) /\ v.of = w.of /\ v.heap = w.heap
      /\ v.meant[x] = s.meant[y] /\ \A z \in Buffer : z # x => v.meant[z] = w.meant[z]
  BY <1>1, MeansIs
<1> HIDE DEF v
<1>3. /\ BuffersOwn(t) /\ t.of = v.of /\ t.heap = v.heap
      /\ t.meant[y] = <<>> /\ \A z \in Buffer : z # y => t.meant[z] = v.meant[z]
  BY <1>2, MeansIs
<1> HIDE DEF t
<1>4. \A z : Cells(t, z) = Cells(w, z)
  BY <1>2, <1>3 DEF Cells, Buffers!Data
<1>5. HoldsAs(t, x, t.meant[x])
  <2>1. HoldsAs(s, y, s.meant[y])
    BY DEF BuffersHold
  <2>2. t.of[x] = s.of[y] /\ Cells(t, x) = Cells(s, y) /\ t.meant[x] = s.meant[y]
    BY <1>1, <1>2, <1>3, <1>4
  <2> QED BY <2>1, <2>2 DEF HoldsAs
<1>6. HoldsAs(t, y, t.meant[y])
  <2>1. IsCells(<<>>, 0)
    BY DEF IsCells
  <2>2. t.of[y].size = 0 /\ t.meant[y] = <<>>
    BY <1>1, <1>2, <1>3
  <2> QED BY <2>1, <2>2 DEF HoldsAs
<1>7. ASSUME NEW z \in Buffer, z # x, z # y PROVE HoldsAs(t, z, t.meant[z])
  <2>1. HoldsAs(s, z, s.meant[z])
    BY DEF BuffersHold
  <2>2. t.of[z] = s.of[z] /\ Cells(t, z) = Cells(s, z) /\ t.meant[z] = s.meant[z]
    BY <1>1, <1>2, <1>3, <1>4, <1>7
  <2> QED BY <2>1, <2>2 DEF HoldsAs
<1>8. BuffersHold(t)
  BY <1>5, <1>6, <1>7 DEF BuffersHold
<1> QED BY <1>3, <1>8 DEF w, v, t

LEMMA BytesAre ==
    ASSUME BuffersOwn(obj), NEW y \in Buffer
    PROVE  /\ IsCells(Buffers!Bytes(y), obj.of[y].size)
           /\ \A i \in 1 .. obj.of[y].size : Buffers!Bytes(y)[i] = Cells(obj, y)[i]
<1>1. obj.of[y].size \in Nat
  BY SizeIs
<1> QED BY <1>1, PrefixIs DEF Buffers!Bytes, Cells

LEMMA PieceIs == ASSUME NEW bytes \in Buffers!Pieces PROVE IsCells(bytes, Len(bytes))
<1>1. bytes \in UNION {[1 .. m -> Octet] : m \in 0 .. MaxPiece}
  BY DEF Buffers!Pieces, Buffers!BoundedSeq, Buffers!SeqOf
<1>2. PICK m \in 0 .. MaxPiece : bytes \in [1 .. m -> Octet]
  BY <1>1
<1>3. IsCells(bytes, m)
  BY <1>2, BuffersAssumption DEF IsCells
<1> QED BY <1>3, CellsLen

LEMMA BuffersBegin == ASSUME Buffers!Init PROVE BuffersOwn(obj) /\ BuffersHold(obj)
<1>1. /\ obj.of = [x \in Buffer |-> Buffers!InPlace] /\ obj.heap = <<>> /\ obj.freed = TRUE
      /\ obj.meant = [x \in Buffer |-> <<>>]
      /\ obj = [of |-> obj.of, heap |-> obj.heap, meant |-> obj.meant, freed |-> obj.freed]
  BY DEF Buffers!Init
<1>2. obj.heap = [k \in DOMAIN obj.heap |-> obj.heap[k]] /\ DOMAIN obj.heap = {}
  BY <1>1
<1>3. IsState(obj)
  BY <1>1, <1>2, InPlaceIs DEF IsState
<1>4. BlocksAre(obj)
  BY <1>1, <1>2, InPlaceIs DEF BlocksAre, Outline
<1>5. \A x \in Buffer : Cells(obj, x) = Buffers!InPlace.cells /\ Room(obj, x) = InlineCapacity /\ obj.of[x].size = 0
  BY <1>1, InPlaceIs DEF Cells, Room, Buffers!Data, Buffers!Capacity
<1>6. Fits(obj)
  BY <1>5, InPlaceIs, BuffersAssumption DEF Fits
<1>7. IsCells(<<>>, 0)
  BY DEF IsCells
<1>8. BuffersHold(obj)
  BY <1>1, <1>5, <1>7 DEF BuffersHold, HoldsAs
<1> QED BY <1>3, <1>4, <1>6, <1>8 DEF BuffersOwn

Keeping(s) == BuffersOwn(s) /\ BuffersHold(s)

\* What a buffer is meant to hold after an operation is what its cells are after it.
LEMMA ResizeKeeps == ASSUME Keeping(obj), NEW x \in Buffer, NEW n \in 0 .. MaxSize, Buffers!Resize(x, n) PROVE Keeping(obj')
<1> DEFINE t == Buffers!Resized(obj, x, n)
           size == obj.of[x].size
           longer == obj.meant[x] \o Buffers!Unwritten(MaxSize)
           m == Buffers!Prefix(longer, n)
<1>1. obj' = Buffers!Means(t, x, m) /\ BuffersOwn(obj) /\ BuffersHold(obj)
  BY DEF Buffers!Resize, Keeping
<1>2. n \in Nat /\ n <= MaxSize /\ MaxSize \in Nat /\ size \in Nat
  BY <1>1, BuffersAssumption, SizeIs
<1>3. Becomes(obj, t, x, n) /\ Keeps(obj, t, x) /\ t.of[x].size = n
  BY <1>1, <1>2, ResizedOwn DEF Becomes
<1>4. IsCells(obj.meant[x], size) /\ \A i \in 1 .. size : obj.meant[x][i] \in {Unfilled, Cells(obj, x)[i]}
  BY <1>1 DEF BuffersHold, HoldsAs
<1>5. IsCells(Buffers!Unwritten(MaxSize), MaxSize) /\ \A i \in 1 .. MaxSize : Buffers!Unwritten(MaxSize)[i] = Unfilled
  BY <1>2, UnwrittenIs
<1>6. \A i \in 1 .. size + MaxSize : longer[i] = IF i <= size THEN obj.meant[x][i] ELSE Buffers!Unwritten(MaxSize)[i - size]
  <2> DEFINE a == obj.meant[x]
             b == Buffers!Unwritten(MaxSize)
  <2>1. IsCells(a, size) /\ IsCells(b, MaxSize)
    BY <1>4, <1>5
  <2> HIDE DEF size, a, b
  <2>2. IsJoined(a \o b, a, size, b, MaxSize)
    BY <2>1, ConcatIs
  <2> QED BY <2>2 DEF a, b, IsJoined
<1> HIDE DEF longer, t
<1>7. IsCells(m, n) /\ \A i \in 1 .. n : m[i] = longer[i]
  BY <1>2, PrefixIs
<1> HIDE DEF m, size
<1>8. ASSUME NEW i \in 1 .. n PROVE m[i] \in {Unfilled, Cells(t, x)[i]}
  <2>1. CASE i <= size
    <3>1. m[i] = obj.meant[x][i] /\ i \in 1 .. size
      BY <1>2, <1>6, <1>7, <1>8, <2>1
    <3>2. Cells(t, x)[i] = Cells(obj, x)[i]
      BY <1>2, <1>3, <1>8, <3>1 DEF Keeps, size
    <3> QED BY <1>4, <3>1, <3>2
  <2>2. CASE ~(i <= size)
    <3>1. i \in 1 .. size + MaxSize /\ i - size \in 1 .. MaxSize
      BY <1>2, <1>8, <2>2
    <3>2. m[i] = Unfilled
      BY <1>5, <1>6, <1>7, <1>8, <2>2, <3>1
    <3> QED BY <3>2
  <2> QED BY <2>1, <2>2
<1> QED BY <1>1, <1>3, <1>7, <1>8, MeansHolds DEF Keeping

LEMMA AddsHolds ==
    ASSUME NEW s, Keeping(s), NEW x \in Buffer, NEW t, NEW bytes, NEW k, Adds(s, t, x, bytes, k),
           NEW more, IsCells(more, k), \A i \in 1 .. k : more[i] \in {Unfilled, bytes[i]}
    PROVE  Keeping(Buffers!Means(t, x, s.meant[x] \o more))
<1> DEFINE n == s.of[x].size
           m == s.meant[x] \o more
<1>1. BuffersOwn(s) /\ BuffersHold(s) /\ n \in Nat /\ k \in Nat
  BY SizeIs DEF Keeping, IsCells
<1>2. IsCells(s.meant[x], n) /\ \A i \in 1 .. n : s.meant[x][i] \in {Unfilled, Cells(s, x)[i]}
  BY <1>1 DEF BuffersHold, HoldsAs
<1>3. IsCells(m, n + k) /\ \A i \in 1 .. n + k : m[i] = IF i <= n THEN s.meant[x][i] ELSE more[i - n]
  <2> DEFINE a == s.meant[x]
  <2>1. IsCells(a, n) /\ IsCells(more, k)
    BY <1>2
  <2> HIDE DEF n, a
  <2>2. IsJoined(a \o more, a, n, more, k)
    BY <2>1, ConcatIs
  <2> QED BY <2>2 DEF a, IsJoined
<1> HIDE DEF m
<1>4. ASSUME NEW i \in 1 .. n + k PROVE m[i] \in {Unfilled, Cells(t, x)[i]}
  <2>1. Cells(t, x)[i] = IF i <= n THEN Cells(s, x)[i] ELSE bytes[i - n]
    BY <1>4 DEF Adds
  <2> HIDE DEF n
  <2>2. CASE i <= n
    <3>1. i \in 1 .. n
      BY <1>1, <1>4, <2>2
    <3> QED BY <1>2, <1>3, <1>4, <2>1, <2>2, <3>1
  <2>3. CASE ~(i <= n)
    <3>1. i - n \in 1 .. k
      BY <1>1, <1>4, <2>3
    <3> QED BY <1>3, <1>4, <2>1, <2>3, <3>1
  <2> QED BY <2>2, <2>3
<1>5. Becomes(s, t, x, n + k)
  BY DEF Adds
<1> HIDE DEF n
<1> QED BY <1>1, <1>3, <1>4, <1>5, MeansHolds DEF Keeping, m

LEMMA AppendKeeps ==
    ASSUME Keeping(obj), NEW x \in Buffer, NEW bytes \in Buffers!Pieces, Buffers!AppendPiece(x, bytes) \/ Buffers!Build(x, bytes)
    PROVE  Keeping(obj')
<1> DEFINE k == Len(bytes)
           t == Buffers!Appended(obj, x, bytes)
           u == Buffers!Appended(Buffers!WillAppend(obj, x, k), x, bytes)
<1>1. IsCells(bytes, k) /\ \A i \in 1 .. k : bytes[i] \in {Unfilled, bytes[i]}
  BY PieceIs
<1>2. obj' = Buffers!Means(t, x, obj.meant[x] \o bytes) \/ obj' = Buffers!Means(u, x, obj.meant[x] \o bytes)
  BY DEF Buffers!AppendPiece, Buffers!Build
<1> HIDE DEF k
<1>3. Adds(obj, t, x, bytes, k) /\ Adds(obj, u, x, bytes, k)
  BY <1>1, AppendedOwn, BuiltOwn DEF Keeping
<1> HIDE DEF t, u
<1>4. Keeping(Buffers!Means(t, x, obj.meant[x] \o bytes)) /\ Keeping(Buffers!Means(u, x, obj.meant[x] \o bytes))
  BY <1>1, <1>3, AddsHolds
<1> QED BY <1>2, <1>4

LEMMA AppendBufferKeeps ==
    ASSUME Keeping(obj), NEW x \in Buffer, NEW y \in Buffer, Buffers!AppendBuffer(x, y) PROVE Keeping(obj')
<1> DEFINE lost == Buffers!SourceLost(x, y)
           k == obj.of[y].size
           unwritten == Buffers!Unwritten(Buffers!Size(y))
           bytes == IF lost THEN unwritten ELSE Buffers!Bytes(y)
           more == IF lost THEN unwritten ELSE obj.meant[y]
           t == Buffers!Appended(obj, x, bytes)
<1>1. IsCells(Buffers!Bytes(y), k) /\ \A i \in 1 .. k : Buffers!Bytes(y)[i] = Cells(obj, y)[i]
  BY BytesAre DEF Keeping
<1>2. IsCells(obj.meant[y], k) /\ \A i \in 1 .. k : obj.meant[y][i] \in {Unfilled, Cells(obj, y)[i]}
  BY DEF Keeping, BuffersHold, HoldsAs
<1>3. obj' = Buffers!Means(t, x, obj.meant[x] \o more)
  BY DEF Buffers!AppendBuffer
<1>4. IsCells(unwritten, k) /\ \A i \in 1 .. k : unwritten[i] = Unfilled
  <2>1. k \in Nat /\ Buffers!Size(y) = k
    BY SizeIs DEF Keeping, Buffers!Size
  <2> QED BY <2>1, UnwrittenIs
<1> HIDE DEF k, unwritten, lost
<1>5. IsCells(bytes, k) /\ IsCells(more, k) /\ \A i \in 1 .. k : more[i] \in {Unfilled, bytes[i]}
  BY <1>1, <1>2, <1>4
<1> HIDE DEF bytes, more
<1>6. Adds(obj, t, x, bytes, k)
  BY <1>5, AppendedOwn DEF Keeping
<1> HIDE DEF t
<1>7. Keeping(Buffers!Means(t, x, obj.meant[x] \o more))
  BY <1>5, <1>6, AddsHolds
<1> QED BY <1>3, <1>7

LEMMA OverwriteKeeps ==
    ASSUME Keeping(obj), NEW x \in Buffer, NEW at, NEW bytes, NEW m, IsCells(m, obj.of[x].size),
           \A i \in 1 .. obj.of[x].size : m[i] = IF i - at \in DOMAIN bytes THEN bytes[i - at] ELSE obj.meant[x][i]
    PROVE  Keeping(Buffers!Means(Buffers!Written(obj, x, at, bytes), x, m))
<1> DEFINE n == obj.of[x].size
           t == Buffers!Written(obj, x, at, bytes)
<1>1. BuffersOwn(obj) /\ BuffersHold(obj)
  BY DEF Keeping
<1>2. /\ Becomes(obj, t, x, n)
      /\ \A i \in 1 .. n : Cells(t, x)[i] = IF i - at \in DOMAIN bytes THEN bytes[i - at] ELSE Cells(obj, x)[i]
  BY <1>1, WrittenOwn
<1>3. \A i \in 1 .. n : obj.meant[x][i] \in {Unfilled, Cells(obj, x)[i]}
  BY <1>1 DEF BuffersHold, HoldsAs
<1> HIDE DEF t
<1>4. \A i \in 1 .. n : m[i] \in {Unfilled, Cells(t, x)[i]}
  BY <1>2, <1>3
<1> QED BY <1>1, <1>2, <1>4, MeansHolds DEF Keeping, t

LEMMA AssignKeeps ==
    ASSUME Keeping(obj), NEW x \in Buffer, NEW y \in Buffer, Buffers!Assign(x, y) PROVE Keeping(obj')
<1> DEFINE n == obj.of[y].size
           bytes == Buffers!Bytes(y)
           s == IF Buffers!Size(x) > n THEN Buffers!Trim(obj, x, n, TRUE) ELSE Buffers!Resized(obj, x, n)
           t == Buffers!Written(s, x, 0, bytes)
<1>1. obj' = Buffers!Means(t, x, obj.meant[y]) /\ BuffersOwn(obj) /\ BuffersHold(obj)
  BY DEF Buffers!Assign, Buffers!Size, Keeping
<1>2. n \in Nat /\ obj.of[x].size \in Nat
  BY <1>1, SizeIs
<1>3. IsCells(bytes, n) /\ \A i \in 1 .. n : bytes[i] = Cells(obj, y)[i]
  BY <1>1, BytesAre
<1>4. IsCells(obj.meant[y], n) /\ \A i \in 1 .. n : obj.meant[y][i] \in {Unfilled, Cells(obj, y)[i]}
  BY <1>1 DEF BuffersHold, HoldsAs
<1> HIDE DEF n, bytes
<1>5. DOMAIN bytes = 1 .. n
  BY <1>3 DEF IsCells
<1>6. Becomes(obj, s, x, n)
  <2>1. CASE obj.of[x].size > n
    <3>1. n <= obj.of[x].size
      BY <1>2, <2>1
    <3> QED BY <1>1, <1>2, <2>1, <3>1, TrimOwn DEF Buffers!Size
  <2>2. CASE ~(obj.of[x].size > n)
    BY <1>1, <1>2, <2>2, ResizedOwn DEF Buffers!Size
  <2> QED BY <2>1, <2>2
<1> HIDE DEF s
<1>7. BuffersOwn(s) /\ s.of[x].size = n
  BY <1>6 DEF Becomes
<1>8. /\ Becomes(s, t, x, n)
      /\ \A i \in 1 .. n : Cells(t, x)[i] = IF i - 0 \in DOMAIN bytes THEN bytes[i - 0] ELSE Cells(s, x)[i]
  BY <1>7, WrittenOwn
<1> HIDE DEF t
<1>9. Becomes(obj, t, x, n)
  BY <1>6, <1>8, BecomesAgain
<1>10. \A i \in 1 .. n : i - 0 = i
  BY <1>2
<1>11. \A i \in 1 .. n : obj.meant[y][i] \in {Unfilled, Cells(t, x)[i]}
  BY <1>3, <1>4, <1>5, <1>8, <1>10
<1> QED BY <1>1, <1>4, <1>9, <1>11, MeansHolds DEF Keeping

LEMMA SliceKeeps ==
    ASSUME Keeping(obj), NEW x \in Buffer, NEW y \in Buffer, NEW at \in 0 .. MaxSize, NEW n \in 0 .. MaxSize,
           Buffers!Slice(x, y, at, n)
    PROVE  Keeping(obj')
<1> DEFINE bytes == SubSeq(Buffers!Bytes(y), at + 1, at + n)
           m == SubSeq(obj.meant[y], at + 1, at + n)
           t == Buffers!Replaced(obj, x, bytes)
           size == obj.of[y].size
<1>1. obj' = Buffers!Means(t, x, m) /\ at + n <= size /\ BuffersOwn(obj) /\ BuffersHold(obj)
  BY DEF Buffers!Slice, Buffers!Size, Keeping
<1>2. at \in Nat /\ n \in Nat /\ size \in Nat
  BY <1>1, BuffersAssumption, SizeIs
<1>3. IsCells(bytes, n) /\ \A i \in 1 .. n : bytes[i] = Buffers!Bytes(y)[at + i]
  BY <1>2, SubSeqIs
<1>4. IsCells(m, n) /\ \A i \in 1 .. n : m[i] = obj.meant[y][at + i]
  BY <1>2, SubSeqIs
<1>5. \A i \in 1 .. size : Buffers!Bytes(y)[i] = Cells(obj, y)[i]
  BY <1>1, BytesAre
<1>6. \A i \in 1 .. size : obj.meant[y][i] \in {Unfilled, Cells(obj, y)[i]}
  BY <1>1 DEF BuffersHold, HoldsAs
<1> HIDE DEF bytes, m, size
<1>7. Becomes(obj, t, x, n) /\ \A i \in 1 .. n : Cells(t, x)[i] = bytes[i]
  BY <1>1, <1>3, ReplacedOwn
<1> HIDE DEF t
<1>8. ASSUME NEW i \in 1 .. n PROVE m[i] \in {Unfilled, Cells(t, x)[i]}
  <2>1. at + i \in 1 .. size
    BY <1>1, <1>2, <1>8
  <2> QED BY <1>3, <1>4, <1>5, <1>6, <1>7, <1>8, <2>1
<1> QED BY <1>1, <1>4, <1>7, <1>8, MeansHolds DEF Keeping

LEMMA BuffersStep == ASSUME Keeping(obj), [Buffers!Next]_obj PROVE Keeping(obj')
<1>1. CASE UNCHANGED obj
  BY <1>1
<1>2. CASE Buffers!Next
  <2>1. PICK x \in Buffer :
           \/ \E n \in 0 .. MaxSize : Buffers!Resize(x, n)
           \/ \E bytes \in Buffers!Pieces : Buffers!AppendPiece(x, bytes) \/ Buffers!Build(x, bytes)
           \/ \E at \in 0 .. MaxSize, bytes \in Buffers!Pieces : Buffers!Overwrite(x, at, bytes)
           \/ Buffers!ZeroFill(x) \/ Buffers!Clear(x)
           \/ \E y \in Buffer : Buffers!Assign(x, y) \/ Buffers!AppendBuffer(x, y) \/ Buffers!Move(x, y)
           \/ \E y \in Buffer, at, n \in 0 .. MaxSize : Buffers!Slice(x, y, at, n)
    BY <1>2 DEF Buffers!Next
  <2>2. BuffersOwn(obj) /\ BuffersHold(obj) /\ obj.of[x].size \in Nat /\ IsCells(obj.meant[x], obj.of[x].size)
    BY SizeIs DEF Keeping, BuffersHold, HoldsAs
  <2>3. ASSUME NEW at \in 0 .. MaxSize, NEW bytes \in Buffers!Pieces, Buffers!Overwrite(x, at, bytes)
        PROVE  Keeping(obj')
    <3> DEFINE m == Buffers!Overlaid(obj.meant[x], at, bytes)
    <3>1. obj' = Buffers!Means(Buffers!Written(obj, x, at, bytes), x, m)
      BY <2>3 DEF Buffers!Overwrite
    <3>2. /\ IsCells(m, obj.of[x].size)
          /\ \A i \in 1 .. obj.of[x].size : m[i] = IF i - at \in DOMAIN bytes THEN bytes[i - at] ELSE obj.meant[x][i]
      BY <2>2, OverlaidIs
    <3> HIDE DEF m
    <3> QED BY <3>1, <3>2, OverwriteKeeps
  <2>4. ASSUME Buffers!ZeroFill(x) PROVE Keeping(obj')
    <3> DEFINE m == [i \in 1 .. obj.of[x].size |-> 0]
    <3>1. obj' = Buffers!Means(Buffers!Written(obj, x, 0, m), x, m)
      BY <2>4 DEF Buffers!ZeroFill, Buffers!Size
    <3>2. IsCells(m, obj.of[x].size)
      BY <2>2 DEF IsCells
    <3>3. \A i \in 1 .. obj.of[x].size : m[i] = IF i - 0 \in DOMAIN m THEN m[i - 0] ELSE obj.meant[x][i]
      BY <2>2
    <3> HIDE DEF m
    <3> QED BY <3>1, <3>2, <3>3, OverwriteKeeps
  <2>5. ASSUME Buffers!Clear(x) PROVE Keeping(obj')
    <3>1. obj' = Buffers!Means(Buffers!Cleared(obj, x), x, <<>>)
      BY <2>5 DEF Buffers!Clear
    <3>2. IsCells(<<>>, 0) /\ \A i \in 1 .. 0 : FALSE
      BY DEF IsCells
    <3>3. Becomes(obj, Buffers!Cleared(obj, x), x, 0)
      BY <2>2, ClearedOwn
    <3> QED BY <2>2, <3>1, <3>2, <3>3, MeansHolds DEF Keeping
  <2>6. ASSUME NEW y \in Buffer, Buffers!Move(x, y) PROVE Keeping(obj')
    <3>1. x # y /\ obj' = Buffers!Means(Buffers!Means(Handed(obj, x, y), x, obj.meant[y]), y, <<>>)
      BY <2>6 DEF Buffers!Move, Handed
    <3> QED BY <2>2, <3>1, MoveHolds DEF Keeping
  <2> QED BY <2>1, <2>3, <2>4, <2>5, <2>6, ResizeKeeps, AppendKeeps, AppendBufferKeeps, AssignKeeps, SliceKeeps
<1> QED BY <1>1, <1>2

LEMMA BlocksAreOwned == ASSUME BuffersOwn(obj) PROVE Buffers!BlocksOwned
<1> DEFINE outline == {x \in Buffer : ~obj.of[x].inline}
<1>1. BlocksAre(obj) /\ obj.freed
  BY DEF BuffersOwn, BlocksAre
<1>2. ASSUME NEW k \in DOMAIN obj.heap PROVE Buffers!Cardinality({x \in outline : obj.of[x].block = k}) = 1
  <2>1. PICK x \in Buffer : Outline(obj, x) /\ obj.of[x].block = k
    BY <1>1 DEF BlocksAre
  <2>2. {y \in outline : obj.of[y].block = k} = {x}
    BY <1>1, <2>1 DEF BlocksAre, Outline
  <2> HIDE DEF outline
  <2> QED BY <2>2, BuffersCardinality, FS_Singleton
<1>3. ASSUME NEW x \in outline
      PROVE  obj.of[x].block \in DOMAIN obj.heap /\ obj.of[x].capacity = Len(obj.heap[obj.of[x].block])
  BY <1>1, CellsLen DEF BlocksAre, Outline
<1> QED BY <1>1, <1>2, <1>3 DEF Buffers!BlocksOwned

LEMMA BytesAreHeld == ASSUME Keeping(obj) PROVE Buffers!HoldsBytes
<1>1. SUFFICES ASSUME NEW x \in Buffer
               PROVE  /\ Buffers!Size(x) = Len(obj.meant[x])
                      /\ \A i \in 1 .. Buffers!Size(x) : obj.meant[x][i] \in {Unfilled, Buffers!Bytes(x)[i]}
  BY DEF Buffers!HoldsBytes
<1>2. /\ IsCells(obj.meant[x], obj.of[x].size)
      /\ \A i \in 1 .. obj.of[x].size : obj.meant[x][i] \in {Unfilled, Cells(obj, x)[i]}
  BY DEF Keeping, BuffersHold, HoldsAs
<1>3. \A i \in 1 .. obj.of[x].size : Buffers!Bytes(x)[i] = Cells(obj, x)[i]
  BY BytesAre DEF Keeping
<1>4. Len(obj.meant[x]) = obj.of[x].size
  BY <1>2, CellsLen
<1> QED BY <1>2, <1>3, <1>4 DEF Buffers!Size

BuffersInv == Keeping(obj)

\* ByteBuffer and StringBuilder: growing, trimming, moving and writing keep the blocks and the bytes.
THEOREM BuffersInvariance == Buffers!Spec => []BuffersInv
<1>1. Buffers!Init => BuffersInv
  BY BuffersBegin DEF BuffersInv, Keeping
<1>2. BuffersInv /\ [Buffers!Next]_obj => BuffersInv'
  BY BuffersStep DEF BuffersInv
<1> QED BY <1>1, <1>2, PTL DEF Buffers!Spec

\* ByteBuffer: every block allocated is one buffer's, which frees it with the size it was allocated with.
THEOREM BlocksHaveOwners == Buffers!Spec => []Buffers!BlocksOwned
<1>1. BuffersInv => Buffers!BlocksOwned
  BY BlocksAreOwned DEF BuffersInv, Keeping
<1> QED BY <1>1, BuffersInvariance, PTL

\* ByteBuffer, StringBuilder: a buffer holds the bytes that were put in it, through every change from
\* the place inside it to the heap and back, every growth, trim, copy and move.  The bytes that b += b
\* adds when it grows are Unset, and nothing is claimed of them (ByteBuffer.h:228-231).
THEOREM BytesStay == Buffers!Spec => []Buffers!HoldsBytes
<1>1. BuffersInv => Buffers!HoldsBytes
  BY BytesAreHeld DEF BuffersInv
<1> QED BY <1>1, BuffersInvariance, PTL

-----------------------------------------------------------------------------
(* The owners together                                                     *)

OwnersInv ==
    /\ subject \in {"owning", "holder", "buffers"}
    /\ subject = "owning" => OwningInv
    /\ subject = "holder" => HolderInv
    /\ subject = "buffers" => BuffersInv

LEMMA OwnersBegin == ASSUME OwnersInit PROVE OwnersInv
BY OwningBegins, HolderBegins, BuffersBegin DEF OwnersInit, OwnersInv, BuffersInv, Keeping

LEMMA OwnersKeep == ASSUME OwnersInv, [OwnersNext]_<<subject, obj>> PROVE OwnersInv'
<1>1. subject' = subject
  BY DEF OwnersNext
<1>2. ASSUME subject = "owning" PROVE OwningInv'
  <2>1. OwningInv /\ [Owning!Next]_obj
    BY <1>2 DEF OwnersInv, OwnersNext
  <2> QED BY <2>1, OwningStep
<1>3. ASSUME subject = "holder" PROVE HolderInv'
  <2>1. HolderInv /\ [Holder!Next]_obj
    BY <1>3 DEF OwnersInv, OwnersNext
  <2> QED BY <2>1, HolderStep
<1>4. ASSUME subject = "buffers" PROVE BuffersInv'
  <2>1. Keeping(obj) /\ [Buffers!Next]_obj
    BY <1>4 DEF OwnersInv, OwnersNext, BuffersInv
  <2> QED BY <2>1, BuffersStep DEF BuffersInv
<1> QED BY <1>1, <1>2, <1>3, <1>4 DEF OwnersInv

\* Whichever owner it is: RefCounted's count is the number of the references, ~RefPtr and ~OwnPtr leave
\* nothing dangling and nothing leaked; a Function's callable outlives its calls; an Optional or a
\* Variant destroys what it constructed; a ByteBuffer's block is freed once, by the buffer that has it.
THEOREM EveryOwnerReleases == OwnersSpec => []OwnedAndReleased
<1>1. OwnersInv => OwnedAndReleased
  BY OwningCounts, OwningNothingDangles, OwningNothingLeaks, HolderOwns, BlocksAreOwned
  DEF OwnersInv, OwnedAndReleased, BuffersInv, Keeping
<1> QED BY <1>1, OwnersBegin, OwnersKeep, PTL DEF OwnersSpec
=============================================================================
