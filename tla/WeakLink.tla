------------------------------- MODULE WeakLink -------------------------------
(***************************************************************************)
(* AK/Weakable.h: an object, the WeakLink its Weakable base owns, and       *)
(* threads that turn a weak reference into a strong one while others drop  *)
(* the last strong reference and destroy the object.  The link stays: each *)
(* thread has its own reference to it.  The object counts references       *)
(* atomically, which is the thread-safe RefCounted of the kernel.          *)
(***************************************************************************)
EXTENDS Integers, FiniteSetTheorems, TLAPS

CONSTANTS Thread,
          Owners,   \* the threads that start with a strong reference
          MaxCalls  \* bound: how often each thread calls strong_ref

ASSUME WeakLinkAssumption ==
    /\ IsFiniteSet(Thread)
    /\ Owners \subseteq Thread /\ Owners # {}
    /\ MaxCalls \in Nat

VARIABLES
    refs,      \* m_ref_count of the object
    object,    \* "live", in its destructor ("dying"), or "freed"
    revoked,   \* bit 0 of WeakLink::m_consumers
    consumers, \* the rest of m_consumers
    link,      \* m_ptr is not null
    pc,        \* where each thread is in strong_ref, or in the destructor
    strong,    \* the strong references there are, <<thread, call it came from>>
    calls      \* how often each thread has called strong_ref

vars == <<refs, object, revoked, consumers, link, pc, strong, calls>>
theObject == <<refs, object>>
theLink == <<revoked, consumers, link>>

\* load to leave: inside strong_ref; bit to free: inside the destructor.
Labels == {"out", "load", "try", "leave", "bit", "spin", "null", "free"}

Init ==
    /\ refs = Cardinality(Owners)
    /\ object = "live"
    /\ revoked = FALSE
    /\ consumers = 0
    /\ link = TRUE
    /\ pc = [p \in Thread |-> "out"]
    /\ strong = Owners \X {0}
    /\ calls = [p \in Thread |-> 0]

Goto(p, l) == pc' = [pc EXCEPT ![p] = l]

-----------------------------------------------------------------------------
(* strong_ref                                                               *)

\* fetch_add(1 << 1), and bit 0 of what it replaced.
Pin(p) ==
    /\ pc[p] = "out" /\ calls[p] < MaxCalls
    /\ calls' = [calls EXCEPT ![p] = @ + 1]
    /\ consumers' = consumers + 1
    /\ Goto(p, IF revoked THEN "leave" ELSE "load")
    /\ UNCHANGED <<theObject, revoked, link, strong>>

Load(p) ==
    /\ pc[p] = "load"
    /\ Goto(p, IF link THEN "try" ELSE "leave")
    /\ UNCHANGED <<theObject, theLink, strong, calls>>

\* A try_ref that does not look for zero.
RefAlways(p) ==
    /\ pc[p] = "try"
    /\ refs' = refs + 1
    /\ strong' = strong \union {<<p, calls[p]>>}
    /\ Goto(p, "leave")
    /\ UNCHANGED <<object, theLink, calls>>

\* try_ref on the object, and adopt_ref.
TryRef(p) ==
    /\ pc[p] = "try"
    /\ IF refs = 0
       THEN UNCHANGED <<refs, strong>>
       ELSE refs' = refs + 1 /\ strong' = strong \union {<<p, calls[p]>>}
    /\ Goto(p, "leave")
    /\ UNCHANGED <<object, theLink, calls>>

\* fetch_sub(1 << 1), and the return of the reference.
Leave(p) ==
    /\ pc[p] = "leave"
    /\ consumers' = consumers - 1
    /\ Goto(p, "out")
    /\ UNCHANGED <<theObject, revoked, link, strong, calls>>

-----------------------------------------------------------------------------
(* unref, and the destructor it runs: revoke, then delete                   *)

Unref(p) ==
    /\ pc[p] = "out"
    /\ \E r \in strong : r[1] = p /\ strong' = strong \ {r}
    /\ refs' = refs - 1
    /\ IF refs = 1
       THEN object' = "dying" /\ Goto(p, "bit")
       ELSE UNCHANGED <<object, pc>>
    /\ UNCHANGED <<theLink, calls>>

\* A revoke that counts on the bit alone to keep consumers out.
SetBitNoWait(p) ==
    /\ pc[p] = "bit"
    /\ revoked' = TRUE
    /\ Goto(p, "null")
    /\ UNCHANGED <<theObject, consumers, link, strong, calls>>

\* fetch_or(1); with consumers, wait for them.
SetBit(p) ==
    /\ pc[p] = "bit"
    /\ revoked' = TRUE
    /\ Goto(p, IF consumers = 0 THEN "null" ELSE "spin")
    /\ UNCHANGED <<theObject, consumers, link, strong, calls>>

\* A wait for all of m_consumers, bit 0 included, to be 0.
SpinOnBit(p) ==
    /\ pc[p] = "spin"
    /\ IF consumers = 0 /\ ~revoked THEN Goto(p, "null") ELSE UNCHANGED pc
    /\ UNCHANGED <<theObject, theLink, strong, calls>>

\* sched_yield, and m_consumers & ~1 again.
Spin(p) ==
    /\ pc[p] = "spin"
    /\ IF consumers = 0 THEN Goto(p, "null") ELSE UNCHANGED pc
    /\ UNCHANGED <<theObject, theLink, strong, calls>>

StoreNull(p) ==
    /\ pc[p] = "null"
    /\ link' = FALSE
    /\ Goto(p, "free")
    /\ UNCHANGED <<theObject, revoked, consumers, strong, calls>>

Free(p) ==
    /\ pc[p] = "free"
    /\ object' = "freed"
    /\ Goto(p, "out")
    /\ UNCHANGED <<refs, theLink, strong, calls>>

-----------------------------------------------------------------------------

StrongRef(p) == Load(p) \/ TryRef(p) \/ Leave(p)
Destroy(p) == SetBit(p) \/ Spin(p) \/ StoreNull(p) \/ Free(p)

Next == \E p \in Thread : Pin(p) \/ StrongRef(p) \/ Unref(p) \/ Destroy(p)

Spec == Init /\ [][Next]_vars

\* A thread inside strong_ref or the destructor executes its instructions.
FairSpec == Spec /\ \A p \in Thread : WF_vars(StrongRef(p)) /\ WF_vars(Destroy(p))

-----------------------------------------------------------------------------

TypeOK ==
    /\ refs \in Nat
    /\ object \in {"live", "dying", "freed"}
    /\ revoked \in BOOLEAN
    /\ consumers \in Nat
    /\ link \in BOOLEAN
    /\ pc \in [Thread -> Labels]
    /\ strong \subseteq Thread \X (0..MaxCalls)
    /\ calls \in [Thread -> 0..MaxCalls]

\* Nobody looks at the reference count of an object that is gone: revoke has
\* waited for every consumer that had read the pointer.
NoUseAfterFree == \A p \in Thread : pc[p] = "try" => object # "freed"

\* A strong reference, adopted from a weak one or not, is to a live object: one
\* that is being destroyed is not brought back.
StrongMeansLive == strong # {} => object = "live"

Destroying(p) == pc[p] \in {"bit", "spin", "null", "free"}

\* One thread destroys the object and revokes the link once, as revoke VERIFYs.
RevokedOnce ==
    /\ \A p, q \in Thread : Destroying(p) /\ Destroying(q) => p = q
    /\ \A p \in Thread : pc[p] = "bit" => ~revoked

\* The destructor ends: revoke's wait sees the last consumer leave.
DestructionEnds == object = "dying" ~> object = "freed"

-----------------------------------------------------------------------------
(***************************************************************************)
(* The safety of WeakLink for any number of threads.  m_consumers counts   *)
(* the threads inside strong_ref and m_ref_count the strong references     *)
(* (Counted); a reference count that has reached zero stays there, so one  *)
(* thread runs the destructor (Life); and once it has seen no consumers,   *)
(* bit 0 keeps newcomers from the pointer (Closed).                        *)
(***************************************************************************)

Inside == {p \in Thread : pc[p] \in {"load", "try", "leave"}}

Counted ==
    /\ consumers = Cardinality(Inside)
    /\ IsFiniteSet(strong) /\ refs = Cardinality(strong)

\* The object lives while there is a strong reference, then one thread destroys it.
Life ==
    /\ object = "live" <=> strong # {}
    /\ object = "live" => ~revoked
    /\ object = "freed" => revoked
    /\ \A p \in Thread :
          /\ Destroying(p) => object = "dying"
          /\ pc[p] = "bit" => ~revoked
          /\ pc[p] \in {"spin", "null", "free"} => revoked
    /\ \A p, q \in Thread : Destroying(p) /\ Destroying(q) => p = q

\* Nobody reads or uses the pointer any more.
Closed ==
    object = "freed" \/ (\E q \in Thread : pc[q] \in {"null", "free"}) =>
        \A p \in Thread : pc[p] \notin {"load", "try"}

\* The reference that a call of strong_ref may adopt does not exist yet.
Fresh ==
    /\ \A p \in Thread, k \in 0..MaxCalls : <<p, k>> \in strong => k <= calls[p]
    /\ \A p \in Thread : pc[p] \in {"load", "try"} => <<p, calls[p]>> \notin strong

IInv == TypeOK /\ Counted /\ Life /\ Closed /\ Fresh

LEMMA Finite == IsFiniteSet(Inside) /\ Cardinality(Inside) \in Nat
<1>1. Inside \subseteq Thread
    BY DEF Inside
<1> QED BY <1>1, WeakLinkAssumption, FS_Subset, FS_CardinalityType

\* A step that moves no thread in or out of strong_ref keeps the count.
LEMMA CountKept ==
    ASSUME Counted, Inside' = Inside, UNCHANGED <<consumers, refs, strong>>
    PROVE  Counted'
BY DEF Counted

LEMMA EmptyInside ==
    ASSUME Counted, consumers = 0
    PROVE  \A p \in Thread : pc[p] \notin {"load", "try", "leave"}
<1>1. Inside = {}
    BY Finite, FS_EmptySet DEF Counted
<1> QED BY <1>1 DEF Inside

LEMMA InitIInv == Init => IInv
<1> SUFFICES ASSUME Init PROVE IInv
    OBVIOUS
<1>1. IsFiniteSet(Owners) /\ Cardinality(Owners) \in Nat
    BY WeakLinkAssumption, FS_Subset, FS_CardinalityType
<1>2. IsFiniteSet(Owners \X {0}) /\ Cardinality(Owners \X {0}) = Cardinality(Owners)
    <2>1. IsFiniteSet({0}) /\ Cardinality({0}) = 1
        BY FS_Singleton
    <2>2. Cardinality(Owners \X {0}) = Cardinality(Owners) * Cardinality({0})
        BY <1>1, <2>1, FS_Product
    <2>3. Cardinality(Owners) * 1 = Cardinality(Owners)
        BY <1>1
    <2> QED BY <1>1, <2>1, <2>2, <2>3, FS_Product
<1>3. TypeOK
    <2>1. strong \subseteq Thread \X (0..MaxCalls)
        BY WeakLinkAssumption DEF Init
    <2>2. refs \in Nat /\ calls \in [Thread -> 0..MaxCalls]
        BY <1>1, WeakLinkAssumption DEF Init
    <2> QED BY <2>1, <2>2 DEF Init, TypeOK, Labels
<1>4. Inside = {}
    BY DEF Init, Inside
<1>5. Counted
    BY <1>1, <1>2, <1>4, FS_EmptySet DEF Init, Counted
<1>6. Owners \X {0} # {}
    <2>1. PICK p \in Owners : TRUE
        BY WeakLinkAssumption
    <2>2. <<p, 0>> \in Owners \X {0}
        BY <2>1
    <2> QED BY <2>2
<1>7. Life /\ Closed /\ Fresh
    BY <1>6, WeakLinkAssumption DEF Init, Life, Closed, Destroying, Fresh
<1> QED BY <1>3, <1>5, <1>7 DEF IInv

LEMMA PinStep ==
    ASSUME IInv, NEW p \in Thread, Pin(p)
    PROVE  IInv'
<1> USE DEF IInv, Pin, Goto, theObject, theLink
<1>1. TypeOK'
    <2>1. calls' \in [Thread -> 0..MaxCalls]
        BY WeakLinkAssumption DEF TypeOK
    <2> QED BY <2>1 DEF TypeOK, Labels
<1>2. p \notin Inside /\ Inside' = Inside \union {p}
    BY DEF TypeOK, Inside
<1>3. Cardinality(Inside') = Cardinality(Inside) + 1
    BY <1>2, Finite, FS_AddElement
<1>4. Counted'
    BY <1>3 DEF Counted
<1>5. Life'
    BY DEF TypeOK, Life, Destroying
<1>6. Closed'
    BY DEF TypeOK, Life, Closed, Destroying
<1>7. Fresh'
    BY DEF TypeOK, Fresh
<1> QED BY <1>1, <1>4, <1>5, <1>6, <1>7

LEMMA LoadStep ==
    ASSUME IInv, NEW p \in Thread, Load(p)
    PROVE  IInv'
<1> USE DEF IInv, Load, Goto, theObject, theLink
<1>1. TypeOK'
    BY DEF TypeOK, Labels
<1>2. Inside' = Inside
    BY DEF TypeOK, Inside
<1>3. Counted'
    BY <1>2, CountKept
<1>4. Life' /\ Closed' /\ Fresh'
    BY DEF TypeOK, Life, Closed, Destroying, Fresh
<1> QED BY <1>1, <1>3, <1>4

\* try_ref fails on a count of zero, so the new reference is to a live object.
LEMMA TryRefStep ==
    ASSUME IInv, NEW p \in Thread, TryRef(p)
    PROVE  IInv'
<1> USE DEF IInv, TryRef, Goto, theObject, theLink
<1>1. Inside' = Inside
    BY DEF TypeOK, Inside
<1>2. CASE refs = 0
    <2>1. TypeOK' /\ Life' /\ Closed' /\ Fresh'
        BY <1>2 DEF TypeOK, Labels, Life, Closed, Destroying, Fresh
    <2> QED BY <1>1, <1>2, <2>1, CountKept
<1>3. CASE refs # 0
    <2> DEFINE r == <<p, calls[p]>>
    <2>1. object = "live"
        BY <1>3, FS_EmptySet DEF Counted, Life
    <2>2. r \notin strong
        BY DEF Fresh
    <2>3. Cardinality(strong') = Cardinality(strong) + 1 /\ IsFiniteSet(strong')
        BY <1>3, <2>2, FS_AddElement DEF Counted
    <2>4. TypeOK'
        BY <1>3 DEF TypeOK, Labels
    <2>5. Counted'
        BY <1>1, <1>3, <2>3 DEF Counted
    <2>6. Life' /\ Closed'
        BY <1>3, <2>1 DEF TypeOK, Life, Closed, Destroying
    <2>7. Fresh'
        BY <1>3 DEF TypeOK, Fresh
    <2> QED BY <2>4, <2>5, <2>6, <2>7
<1> QED BY <1>2, <1>3

LEMMA LeaveStep ==
    ASSUME IInv, NEW p \in Thread, Leave(p)
    PROVE  IInv'
<1> USE DEF IInv, Leave, Goto, theObject, theLink
<1>1. p \in Inside /\ Inside' = Inside \ {p}
    BY DEF TypeOK, Inside
<1>2. Cardinality(Inside') = Cardinality(Inside) - 1 /\ Cardinality(Inside') \in Nat
    BY <1>1, Finite, FS_RemoveElement, FS_CardinalityType
<1>3. Counted'
    BY <1>2 DEF Counted
<1>4. TypeOK'
    BY <1>2, <1>3 DEF TypeOK, Labels, Counted
<1>5. Life' /\ Closed' /\ Fresh'
    BY DEF TypeOK, Life, Closed, Destroying, Fresh
<1> QED BY <1>3, <1>4, <1>5

\* Whoever drops the last reference finds nobody in the destructor.
LEMMA UnrefStep ==
    ASSUME IInv, NEW p \in Thread, Unref(p)
    PROVE  IInv'
<1> USE DEF IInv, Unref, Goto, theObject, theLink
<1>1. PICK r \in strong : strong' = strong \ {r}
    OBVIOUS
<1>2. Inside' = Inside
    BY DEF TypeOK, Inside
<1>3. /\ IsFiniteSet(strong') /\ Cardinality(strong') = Cardinality(strong) - 1
      /\ Cardinality(strong') \in Nat
    BY <1>1, FS_RemoveElement, FS_CardinalityType DEF Counted
<1>4. Counted'
    BY <1>2, <1>3 DEF Counted
<1>5. TypeOK'
    BY <1>1, <1>3 DEF TypeOK, Labels, Counted
<1>6. object = "live" /\ ~revoked /\ \A q \in Thread : ~Destroying(q)
    BY <1>1 DEF Life
<1>7. strong' = {} <=> refs = 1
    BY <1>3, FS_EmptySet DEF Counted, TypeOK
<1>8. Life'
    BY <1>5, <1>6, <1>7 DEF TypeOK, Life, Destroying
<1>9. Closed' /\ Fresh'
    BY <1>1, <1>6 DEF TypeOK, Closed, Fresh, Destroying
<1> QED BY <1>4, <1>5, <1>8, <1>9

\* With no consumers when bit 0 is set, nobody is at the pointer.
LEMMA SetBitStep ==
    ASSUME IInv, NEW p \in Thread, SetBit(p)
    PROVE  IInv'
<1> USE DEF IInv, SetBit, Goto, theObject, theLink
<1>1. TypeOK'
    BY DEF TypeOK, Labels
<1>2. Inside' = Inside
    BY DEF TypeOK, Inside
<1>3. Counted'
    BY <1>2, CountKept
<1>4. Life' /\ Fresh'
    BY DEF TypeOK, Life, Destroying, Fresh
<1>5. object # "freed" /\ \A q \in Thread : pc[q] \notin {"null", "free"}
    BY DEF Life, Destroying
<1>6. Closed'
    BY <1>5, EmptyInside DEF TypeOK, Closed
<1> QED BY <1>1, <1>3, <1>4, <1>6

LEMMA SpinStep ==
    ASSUME IInv, NEW p \in Thread, Spin(p)
    PROVE  IInv'
<1> USE DEF IInv, Spin, Goto, theObject, theLink
<1>1. TypeOK'
    BY DEF TypeOK, Labels
<1>2. Inside' = Inside
    BY DEF TypeOK, Inside
<1>3. Counted'
    BY <1>2, CountKept
<1>4. Life' /\ Fresh'
    BY DEF TypeOK, Life, Destroying, Fresh
<1>5. object # "freed" /\ \A q \in Thread : pc[q] \notin {"null", "free"}
    BY DEF Life, Destroying
<1>6. Closed'
    BY <1>5, EmptyInside DEF TypeOK, Closed
<1> QED BY <1>1, <1>3, <1>4, <1>6

LEMMA StoreNullStep ==
    ASSUME IInv, NEW p \in Thread, StoreNull(p)
    PROVE  IInv'
<1> USE DEF IInv, StoreNull, Goto, theObject, theLink
<1>1. TypeOK'
    BY DEF TypeOK, Labels
<1>2. Inside' = Inside
    BY DEF TypeOK, Inside
<1>3. Counted'
    BY <1>2, CountKept
<1>4. Life' /\ Closed' /\ Fresh'
    BY DEF TypeOK, Life, Closed, Destroying, Fresh
<1> QED BY <1>1, <1>3, <1>4

LEMMA FreeStep ==
    ASSUME IInv, NEW p \in Thread, Free(p)
    PROVE  IInv'
<1> USE DEF IInv, Free, Goto, theObject, theLink
<1>1. TypeOK'
    BY DEF TypeOK, Labels
<1>2. Inside' = Inside
    BY DEF TypeOK, Inside
<1>3. Counted'
    BY <1>2, CountKept
<1>4. Life' /\ Closed' /\ Fresh'
    BY DEF TypeOK, Life, Closed, Destroying, Fresh
<1> QED BY <1>1, <1>3, <1>4

\* The invariant holds whatever the threads do with their references.
THEOREM Inductive == Spec => []IInv
<1>1. Init => IInv
    BY InitIInv
<1>2. IInv /\ [Next]_vars => IInv'
    <2> SUFFICES ASSUME IInv, [Next]_vars PROVE IInv'
        OBVIOUS
    <2>1. ASSUME NEW p \in Thread, Pin(p) \/ StrongRef(p) PROVE IInv'
        BY <2>1, PinStep, LoadStep, TryRefStep, LeaveStep DEF StrongRef
    <2>2. ASSUME NEW p \in Thread, Unref(p) \/ Destroy(p) PROVE IInv'
        BY <2>2, UnrefStep, SetBitStep, SpinStep, StoreNullStep, FreeStep DEF Destroy
    <2>3. CASE UNCHANGED vars
        <3>1. Inside' = Inside
            BY <2>3 DEF vars, Inside
        <3> QED BY <2>3, <3>1, CountKept
                DEF vars, IInv, TypeOK, Life, Closed, Fresh, Destroying
    <2> QED BY <2>1, <2>2, <2>3 DEF Next
<1> QED BY <1>1, <1>2, PTL DEF Spec

\* The counts of WeakLink and RefCounted never go below zero.
THEOREM TypeCorrect == Spec => []TypeOK
<1>1. IInv => TypeOK
    BY DEF IInv
<1> QED BY <1>1, Inductive, PTL

\* strong_ref never looks at a freed object, for any number of threads and calls.
THEOREM NeverAfterFree == Spec => []NoUseAfterFree
<1>1. IInv => NoUseAfterFree
    BY DEF IInv, Closed, NoUseAfterFree
<1> QED BY <1>1, Inductive, PTL

\* No object that is being destroyed has, or gets, a strong reference.
THEOREM NeverRevived == Spec => []StrongMeansLive
<1>1. IInv => StrongMeansLive
    BY DEF IInv, Life, StrongMeansLive
<1> QED BY <1>1, Inductive, PTL

\* The destructor runs in one thread and revokes the link once.
THEOREM RevokesOnce == Spec => []RevokedOnce
<1>1. IInv => RevokedOnce
    BY DEF IInv, Life, RevokedOnce
<1> QED BY <1>1, Inductive, PTL
=============================================================================
