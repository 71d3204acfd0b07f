----------------------------- MODULE HashTable -----------------------------
(***************************************************************************)
(* AK/HasTable.h: open addressing with tombstones.  A lookup probes        *)
(* hash, double_hash(hash), ... modulo the capacity until it finds the key *)
(* or a bucket that was never used since the last rehash; so removal marks *)
(* a bucket Deleted, and a table with many of these is rehashed in place.  *)
(*                                                                         *)
(* A rehash, into a new array or in place, is a step per element; every    *)
(* other operation is one step, after the rehash it may need.  A failing   *)
(* allocation is an error returned before anything has changed, no step.   *)
(* Copies and moves of a whole table are not modelled.                     *)
(***************************************************************************)
EXTENDS Integers, Sequences, SequencesExt, FiniteSets

CONSTANTS Key, Value,
          HashOf,      \* TraitsForT::hash of the elements with a key
          DoubleHash,  \* double_hash
          GoodSize,    \* kmalloc_good_size, in buckets
          MaxCapacity, \* bound: no operation that needs a larger table
          IsOrdered,   \* an OrderedHashTable, which keeps insertion order
          NoElement, NoOp

\* 0 .. HashCount-1 stand for the 32-bit hashes.
HashCount == Cardinality(DOMAIN DoubleHash)
Hash == 0 .. HashCount - 1

Element == [key : Key, value : Value]
PendingSet == [element : Element, keep : BOOLEAN]

ASSUME HashTableAssumption ==
    /\ HashCount \in Nat \ {0}
    /\ DoubleHash \in [Hash -> Hash]
    /\ HashOf \in [Key -> Hash]
    /\ MaxCapacity \in Nat /\ MaxCapacity >= 4
    /\ GoodSize \in [0 .. 2 * MaxCapacity -> Nat]
    /\ \A n \in DOMAIN GoodSize : GoodSize[n] >= n
    /\ IsOrdered \in BOOLEAN
    /\ NoElement \notin Element /\ NoOp \notin PendingSet

NoBucket == -1
BucketState == {"Free", "Used", "Deleted", "Rehashed"}
UsedStates == {"Used", "Rehashed"} \* is_used_bucket
FreeStates == {"Free", "Deleted"}  \* is_free_bucket

VARIABLES
    cap,     \* m_capacity; the buckets are numbered from 0
    state,   \* Bucket::state
    slot,    \* Bucket::slot()
    list,    \* OrderedBucket::previous and next, m_collection_data.head and tail
    size,    \* m_size
    deleted, \* m_deleted_count
    pc,      \* between operations, or inside one
    op,      \* what try_set is about to store, and whether with Keep
    todo,    \* the elements that try_rehash has yet to move
    i,       \* the bucket that rehash_in_place is at
    target   \* the hash it tries for that bucket's element, target_hash

counts == <<size, deleted>>
inPlace == <<i, target>>
vars == <<cap, state, slot, list, counts, pc, op, todo, inPlace>>

Bucket == 0 .. cap - 1
NoTarget == -1

IsUsed(b) == state[b] \in UsedStates
UsedBuckets == {b \in Bucket : IsUsed(b)}

Null(n) == [b \in 0 .. n - 1 |-> NoBucket]
EmptyList(n) == [prev |-> Null(n), next |-> Null(n), head |-> NoBucket, tail |-> NoBucket]
Emptied(n) == /\ cap' = n
              /\ state' = [b \in 0 .. n - 1 |-> "Free"]
              /\ slot' = [b \in 0 .. n - 1 |-> NoElement]
              /\ list' = EmptyList(n)

Init ==
    /\ cap = 0 /\ state = <<>> /\ slot = <<>> /\ list = EmptyList(0)
    /\ size = 0 /\ deleted = 0
    /\ pc = "ready" /\ op = NoOp /\ todo = <<>>
    /\ i = 0 /\ target = NoTarget

-----------------------------------------------------------------------------
(* Probing                                                                 *)

\* The hashes that a key's loops try, in their order.
Way == [k \in Key |->
           LET way[n \in 0 .. HashCount] == IF n = 0 THEN HashOf[k] ELSE DoubleHash[way[n - 1]]
           IN  way]

\* The loops end at the first bucket on the way of k that is in B.  When all the hashes
\* have been tried they never will: NoBucket, and no step.
FirstOn(k, B) ==
    LET way == Way[k]
        Hit(n) == way[n] % cap \in B
    IN  IF \E n \in 0 .. HashCount : Hit(n)
        THEN way[CHOOSE n \in 0 .. HashCount : Hit(n) /\ \A m \in 0 .. n - 1 : ~Hit(m)] % cap
        ELSE NoBucket

Holds(b, k) == IsUsed(b) /\ slot[b].key = k

\* lookup_with_hash
EndOfLookup(k) ==
    FirstOn(k, {b \in Bucket : Holds(b, k) \/ state[b] \notin {"Used", "Deleted"}})
Finds(k, b) == size > 0 /\ b = EndOfLookup(k) /\ Holds(b, k)

\* Mutant: a write takes the first bucket that is not used, whether k is further on or not.
StopsAtDeleted(k) == FirstOn(k, {b \in Bucket : Holds(b, k) \/ ~IsUsed(b)})

\* try_lookup_for_writing, once it has grown the table: it looks for k or a Free bucket,
\* and returns the first bucket on the way that is not used if k is not there.
BucketForWriting(k) ==
    LET end == FirstOn(k, {b \in Bucket : Holds(b, k) \/ state[b] = "Free"})
    IN  IF end = NoBucket \/ Holds(end, k) THEN end ELSE FirstOn(k, Bucket \ UsedBuckets)

\* Mutant: a load factor that does not count tombstones.
GrowsForUsed(s, d, c) == (s + 1) * 100 >= c * 60
ShouldGrow(s, d, c) == (s + d + 1) * 100 >= c * 60

-----------------------------------------------------------------------------
(* The list of an OrderedHashTable; the other kind leaves it empty         *)

\* An inserted bucket, whose links are null, becomes the tail.
Appended(l, b) ==
    IF l.head = NoBucket THEN [l EXCEPT !.head = b, !.tail = b]
    ELSE [l EXCEPT !.prev[b] = l.tail, !.next[l.tail] = b, !.tail = b]

Unlinked(l, b) ==
    LET forward == IF l.prev[b] # NoBucket THEN [l EXCEPT !.next[l.prev[b]] = l.next[b]]
                   ELSE [l EXCEPT !.head = l.next[b]]
        back == IF forward.next[b] # NoBucket
                THEN [forward EXCEPT !.prev[forward.next[b]] = forward.prev[b]]
                ELSE [forward EXCEPT !.tail = forward.prev[b]]
    IN  [back EXCEPT !.prev[b] = NoBucket, !.next[b] = NoBucket]

\* b's neighbours, or the ends of the list, are made to point at it.
PointedAt(l, b) ==
    LET forward == IF l.prev[b] # NoBucket THEN [l EXCEPT !.next[l.prev[b]] = b]
                   ELSE [l EXCEPT !.head = b]
    IN  IF forward.next[b] # NoBucket THEN [forward EXCEPT !.prev[forward.next[b]] = b]
        ELSE [forward EXCEPT !.tail = b]

\* rehash_in_place exchanges the links of two buckets and tells t's neighbours only.
Exchanged(l, b, t) ==
    PointedAt([l EXCEPT !.prev[b] = l.prev[t], !.prev[t] = l.prev[b],
                        !.next[b] = l.next[t], !.next[t] = l.next[b]], t)

IfOrdered(l) == IF IsOrdered THEN l ELSE list

\* The elements in the order of an iterator.
Along[n \in 0 .. cap, b \in Bucket \union {NoBucket}] ==
    IF n = 0 \/ b = NoBucket THEN <<>> ELSE <<slot[b]>> \o Along[n - 1, list.next[b]]
ByIndex ==
    LET upTo[n \in 0 .. cap] ==
            IF n = 0 THEN <<>>
            ELSE upTo[n - 1] \o (IF IsUsed(n - 1) THEN <<slot[n - 1]>> ELSE <<>>)
    IN  upTo[cap]
Iterated == IF IsOrdered THEN Along[cap, list.head] ELSE ByIndex

-----------------------------------------------------------------------------
(* Rehashing into a new array                                              *)

NewCapacity(n) == GoodSize[IF n < 4 THEN 4 ELSE n]

\* try_rehash: the same capacity again is rehashed in place.
Rehash(n) ==
    IF n = cap /\ n >= 4
    THEN /\ pc' = "sweep" /\ i' = 0
         /\ UNCHANGED <<cap, state, slot, list, counts, todo, target>>
    ELSE /\ NewCapacity(n) <= MaxCapacity
         /\ Emptied(NewCapacity(n))
         /\ deleted' = 0
         /\ todo' = Iterated \o todo
         /\ pc' = "rehash"
         /\ UNCHANGED <<size, inPlace>>

\* An element is put into bucket b, and counts as one more or as moved.
Fill(b, e) ==
    /\ slot' = [slot EXCEPT ![b] = e]
    /\ state' = [state EXCEPT ![b] = "Used"]
    /\ list' = IfOrdered(Appended(list, b))

\* insert_during_rehash, which may itself grow the table, in the middle of the loop
\* (once: after that the table is large enough, and asking again changes nothing).
MoveOne ==
    /\ pc = "rehash" /\ todo # <<>>
    /\ \/ /\ ShouldGrow(size, deleted, cap)
          /\ Rehash(2 * cap)
       \/ /\ ~ShouldGrow(size, deleted, cap)
          /\ BucketForWriting(Head(todo).key) # NoBucket
          /\ Fill(BucketForWriting(Head(todo).key), Head(todo))
          /\ todo' = Tail(todo)
          /\ UNCHANGED <<cap, counts, pc, inPlace>>
    /\ UNCHANGED op

AfterRehash == IF op = NoOp THEN "ready" ELSE "insert"

RehashDone ==
    /\ pc = "rehash" /\ todo = <<>>
    /\ pc' = AfterRehash
    /\ UNCHANGED <<cap, state, slot, list, counts, op, todo, inPlace>>

-----------------------------------------------------------------------------
(* Rehashing in place: every element that is not at home is taken to the   *)
(* first bucket on its way that holds no rehashed element, and the element *)
(* that it finds there comes back in exchange                              *)

Home(b) == HashOf[slot[b].key] % cap

NextBucket == i' = i + 1 /\ pc' = "sweep" /\ target' = NoTarget

Sweep ==
    /\ pc = "sweep" /\ i < cap
    /\ \/ state[i] \in {"Rehashed", "Free"} /\ UNCHANGED state /\ NextBucket
       \/ state[i] = "Deleted" /\ state' = [state EXCEPT ![i] = "Free"] /\ NextBucket
       \/ /\ state[i] = "Used" /\ Home(i) = i
          /\ state' = [state EXCEPT ![i] = "Rehashed"]
          /\ NextBucket
       \/ /\ state[i] = "Used" /\ Home(i) # i
          /\ target' = HashOf[slot[i].key]
          /\ pc' = "move"
          /\ UNCHANGED <<state, i>>
    /\ UNCHANGED <<cap, slot, list, counts, op, todo>>

Target == target % cap

\* The way leads back to where the element is.
StayHere ==
    /\ pc = "move" /\ Target = i
    /\ state' = [state EXCEPT ![i] = "Rehashed"]
    /\ NextBucket
    /\ UNCHANGED <<cap, slot, list, counts, op, todo>>

MoveToFree ==
    /\ pc = "move" /\ Target # i /\ state[Target] \in FreeStates
    /\ slot' = [slot EXCEPT ![Target] = slot[i], ![i] = NoElement]
    /\ state' = [state EXCEPT ![Target] = "Rehashed", ![i] = "Free"]
    /\ list' = IfOrdered(Exchanged(list, i, Target))
    /\ NextBucket
    /\ UNCHANGED <<cap, counts, op, todo>>

\* Mutant: the next bucket instead of the next probe.
NextTarget(h) == (h + 1) % HashCount
\* Mutant: double_hash of the element's own hash, again and again.
SameTarget(h) == DoubleHash[HashOf[slot[i].key]]
NewTarget(h) == DoubleHash[h]

ProbeOn ==
    /\ pc = "move" /\ Target # i /\ state[Target] = "Rehashed"
    /\ target' = NewTarget(target)
    /\ UNCHANGED <<cap, state, slot, list, counts, pc, op, todo, i>>

\* The element of bucket i stays in t; the one that was there is next, unless i is its home.
SwapWith ==
    /\ pc = "move" /\ Target # i /\ state[Target] = "Used"
    /\ LET t == Target
           swapped == Exchanged(list, i, t)
       IN  /\ slot' = [slot EXCEPT ![i] = slot[t], ![t] = slot[i]]
           /\ \/ /\ Home(t) # i
                 /\ state' = [state EXCEPT ![t] = "Rehashed"]
                 /\ list' = IfOrdered(swapped)
                 /\ target' = HashOf[slot[t].key]
                 /\ UNCHANGED <<pc, i>>
              \/ /\ Home(t) = i
                 /\ state' = [state EXCEPT ![t] = "Rehashed", ![i] = "Rehashed"]
                 /\ list' = IfOrdered(PointedAt(swapped, i))
                 /\ NextBucket
    /\ UNCHANGED <<cap, counts, op, todo>>

SweepDone ==
    /\ pc = "sweep" /\ i = cap
    /\ state' = [b \in Bucket |-> IF state[b] = "Rehashed" THEN "Used" ELSE state[b]]
    /\ deleted' = 0
    /\ pc' = AfterRehash /\ i' = 0
    /\ UNCHANGED <<cap, slot, list, size, op, todo, target>>

-----------------------------------------------------------------------------
(* Operations                                                              *)

TrySet(e, keep) ==
    /\ pc = "ready"
    /\ op' = [element |-> e, keep |-> keep]
    /\ \/ ShouldGrow(size, deleted, cap) /\ Rehash(2 * cap)
       \/ /\ ~ShouldGrow(size, deleted, cap)
          /\ pc' = "insert"
          /\ UNCHANGED <<cap, state, slot, list, counts, todo, inPlace>>

\* Mutant: a tombstone that is used again is still counted.
StillCounted(b) == deleted
\* Mutant: every insertion counts as one into a tombstone.
AlwaysCounted(b) == deleted - 1
Remaining(b) == IF state[b] = "Deleted" THEN deleted - 1 ELSE deleted

\* try_set, with a table that is large enough.
Insert ==
    /\ pc = "insert" /\ BucketForWriting(op.element.key) # NoBucket
    /\ LET b == BucketForWriting(op.element.key)
       IN  \/ IsUsed(b) /\ op.keep /\ UNCHANGED <<state, slot, list, counts>>
           \/ /\ IsUsed(b) /\ ~op.keep
              /\ slot' = [slot EXCEPT ![b] = op.element]
              /\ UNCHANGED <<state, list, counts>>
           \/ /\ ~IsUsed(b)
              /\ Fill(b, op.element)
              /\ deleted' = Remaining(b) /\ size' = size + 1
    /\ pc' = "ready" /\ op' = NoOp
    /\ UNCHANGED <<cap, todo, inPlace>>

EnsureCapacity(c) ==
    /\ pc = "ready" /\ c >= size
    /\ Rehash(2 * c)
    /\ UNCHANGED op

\* delete_bucket of each, and rehash_in_place_if_needed
Delete(B) ==
    /\ state' = [b \in Bucket |-> IF b \in B THEN "Deleted" ELSE state[b]]
    /\ slot' = [b \in Bucket |-> IF b \in B THEN NoElement ELSE slot[b]]
    /\ list' = IfOrdered(FoldSet(LAMBDA b, l : Unlinked(l, b), list, B))
    /\ size' = size - Cardinality(B)
    /\ deleted' = deleted + Cardinality(B)
    /\ IF deleted' >= size' /\ ShouldGrow(size', deleted', cap)
       THEN pc' = "sweep"
       ELSE UNCHANGED pc
    /\ UNCHANGED <<cap, op, todo, inPlace>>

RemoveOne(k) == pc = "ready" /\ \E b \in Bucket : Finds(k, b) /\ Delete({b})

RemoveAllMatching(K) ==
    /\ pc = "ready"
    /\ Delete({b \in UsedBuckets : slot[b].key \in K})

Forget == size' = 0 /\ deleted' = 0 /\ UNCHANGED <<pc, op, todo, inPlace>>

Clear == pc = "ready" /\ Emptied(0) /\ Forget

\* On a table that has no array this writes through a null pointer.
ClearWithCapacity == pc = "ready" /\ cap > 0 /\ Emptied(cap) /\ Forget

-----------------------------------------------------------------------------
Steps == MoveOne \/ RehashDone \/ Sweep \/ StayHere \/ MoveToFree \/ ProbeOn
         \/ SwapWith \/ SweepDone \/ Insert

Next ==
    \/ Steps
    \/ \E e \in Element, keep \in BOOLEAN : TrySet(e, keep)
    \/ \E c \in 0 .. MaxCapacity \div 2 : EnsureCapacity(c)
    \/ \E k \in Key : RemoveOne(k)
    \/ \E K \in SUBSET Key : RemoveAllMatching(K)
    \/ Clear \/ ClearWithCapacity

Spec == Init /\ [][Next]_vars

\* A call that has begun goes on.
FairSpec == Spec /\ WF_vars(Steps)

-----------------------------------------------------------------------------
(* Properties                                                              *)

\* The type of the state; the counters are sizes, so they never pass below zero, and
\* the links of an ordered table stay within it.
TypeOK ==
    /\ cap \in 0 .. MaxCapacity
    /\ state \in [Bucket -> BucketState]
    /\ slot \in [Bucket -> Element \union {NoElement}]
    /\ list.prev \in [Bucket -> Bucket \union {NoBucket}]
    /\ list.next \in [Bucket -> Bucket \union {NoBucket}]
    /\ {list.head, list.tail} \subseteq Bucket \union {NoBucket}
    /\ size \in Nat /\ deleted \in Nat
    /\ pc \in {"ready", "rehash", "insert", "sweep", "move"}
    /\ op \in PendingSet \union {NoOp}
    /\ todo \in Seq(Element)
    /\ i \in 0 .. cap /\ target \in Hash \union {NoTarget}

contents == {slot[b] : b \in UsedBuckets} \union ToSet(todo)
Abstract == INSTANCE KeyedSet

\* A table of elements told apart by their keys: set adds or replaces or keeps, removals
\* remove, and no rehash, growth or shrinking changes what is in it.
ImplementsSet == Abstract!Spec

\* Between operations every element is found by its key, in its own bucket: however it
\* was put there, moved or swapped, the buckets that its probes pass are all taken or deleted.
FindsAll == pc = "ready" => \A b \in UsedBuckets : Finds(slot[b].key, b)

\* Between operations m_size and m_deleted_count, which the load factor and the lookups
\* depend on, are the numbers of used and of deleted buckets, and no bucket is half rehashed.
CountsRight ==
    pc = "ready" => /\ size = Cardinality(UsedBuckets)
                    /\ deleted = Cardinality({b \in Bucket : state[b] = "Deleted"})
                    /\ \A b \in Bucket : state[b] # "Rehashed"

\* The loops of lookup_with_hash and try_lookup_for_writing have no other end than a
\* bucket that is free: for a key that is not there they come to one.
ProbesEnd ==
    pc = "insert" \/ (pc = "ready" /\ size > 0) =>
        \A k \in Key : EndOfLookup(k) # NoBucket

\* rehash_in_place, which has elements change places while it probes, comes to an end.
RehashEnds == pc \in {"sweep", "move", "rehash", "insert"} ~> pc = "ready"

\* An ordered table's list leads through its elements, each once, and back.  The comments
\* in rehash_in_place say that each half of an exchange is told its neighbours: "Update
\* state for the target bucket, we'll do the bucket to move later."
ListIsElements ==
    pc = "ready" /\ IsOrdered =>
        /\ ToSet(Iterated) = {slot[b] : b \in UsedBuckets}
        /\ Len(Iterated) = size
        /\ \A b \in UsedBuckets :
              /\ list.next[b] # NoBucket => list.prev[list.next[b]] = b
              /\ list.next[b] = NoBucket => list.tail = b
=============================================================================
