--------------------------- MODULE OwningPointers ---------------------------
(***************************************************************************)
(* AK/RefCounted.h, NonnullRefPtr.h and ReftPtr.h (RefPtr), OwnPtr.h and   *)
(* NonnullOwnPtr.h: slots that hold counted or sole references, objects    *)
(* that hold one as a member, and the destructors that run when the last   *)
(* is gone: the body of a destructor may do anything with other slots      *)
(* before the members of its object go.  One thread (RefCounted's count    *)
(* is not atomic).                                                         *)
(***************************************************************************)
EXTENDS Integers, Sequences, FiniteSets, SequencesExt

CONSTANTS Counted, Sole,       \* the objects of either kind
          RefSlot, OwnSlot,    \* variables of type RefPtr, of type OwnPtr
          Null

VARIABLE owned

Init ==
    owned = [ref |-> [s \in RefSlot |-> Null], own |-> [s \in OwnSlot |-> Null],
             member |-> [x \in Counted \union Sole |-> Null],
             count |-> [x \in Counted |-> 0], live |-> {},
             stack |-> <<>>]   \* the destructors that run, the innermost last

\* ~NonnullRefPtr of a temporary or a member: unref_if_not_null
Unref(x) == [what |-> "unref", obj |-> x, slot |-> Null]
\* The destructor of an object, deleted through an OwnPtr's slot or not
Dying(x, s) == [what |-> "dying", obj |-> x, slot |-> s]
Pushed(o, frame) == IF frame.obj = Null THEN o ELSE [o EXCEPT !.stack = Append(@, frame)]

\* The program, or the body of a destructor, runs.
Running == owned.stack # <<>> => Last(owned.stack).what = "dying"

-----------------------------------------------------------------------------
(* Reference counted objects                                               *)

\* RefCountedBase::ref VERIFYs that the object is not being destroyed.
Ref(o, x) == IF x = Null THEN o ELSE [o EXCEPT !.count[x] = @ + 1]

\* make_ref_counted: the count starts at one, which the pointer adopts.
MakeRefCounted(s, x) ==
    /\ Running /\ x \in Counted \ owned.live
    /\ owned' = Pushed([owned EXCEPT !.live = @ \union {x}, !.count[x] = 1, !.ref[s] = x],
                       Unref(owned.ref[s]))

\* Copy assignment makes a temporary, swaps, and destroys what was there.
CopyAssign(s, t) ==
    /\ Running
    /\ owned' = Pushed([Ref(owned, owned.ref[t]) EXCEPT !.ref[s] = owned.ref[t]],
                       Unref(owned.ref[s]))

\* leak_ref takes the pointer out of the source.
\* Mutant: it stays there.
Kept(o, t) == o.ref
Leaked(o, t) == [o.ref EXCEPT ![t] = Null]
MoveAssign(s, t) ==
    LET left == Leaked(owned, t)
    IN  /\ Running
        /\ owned' = Pushed([owned EXCEPT !.ref = [left EXCEPT ![s] = owned.ref[t]]], Unref(left[s]))

Destroy(s) ==
    /\ Running
    /\ owned' = Pushed([owned EXCEPT !.ref[s] = Null], Unref(owned.ref[s]))

\* A member is assigned; cycles, which would leak, are the program's fault.
Above(x) == IF x = Null THEN Null ELSE owned.member[x]
Reaches(x, y) ==
    LET ups == 0 .. Cardinality(Counted \union Sole)
        up[n \in ups] == IF n = 0 THEN x ELSE Above(up[n - 1])
    IN  \E n \in ups : up[n] = y
AssignMember(x, s) ==
    /\ Running /\ x \in owned.live /\ ~Reaches(owned.ref[s], x)
    /\ \A i \in DOMAIN owned.stack : owned.stack[i].obj # x
    /\ owned' = Pushed([Ref(owned, owned.ref[s]) EXCEPT !.member[x] = owned.ref[s]],
                       Unref(owned.member[x]))

-----------------------------------------------------------------------------
(* Solely owned objects                                                    *)

\* A slot whose clear() is deleting is its owner's business, and is left alone.
Untouched(s) == \A i \in DOMAIN owned.stack : owned.stack[i].slot # s

MakeOwn(s, x) ==
    /\ Running /\ x \in Sole \ owned.live /\ Untouched(s)
    /\ owned' = Pushed([owned EXCEPT !.live = @ \union {x}, !.own[s] = x], Dying(owned.own[s], Null))

\* Move assignment goes by a temporary, which deletes what was there.
MoveOwn(s, t) ==
    LET left == [owned.own EXCEPT ![t] = Null]
    IN  /\ Running /\ Untouched(s) /\ Untouched(t)
        /\ owned' = Pushed([owned EXCEPT !.own = [left EXCEPT ![s] = owned.own[t]]],
                           Dying(left[s], Null))

\* clear() deletes first and forgets the pointer then.
ClearOwn(s) ==
    /\ Running /\ Untouched(s)
    /\ owned' = Pushed(owned, Dying(owned.own[s], s))

-----------------------------------------------------------------------------
(* Releasing                                                               *)

\* RefCounted::unref: the last reference deletes.
\* Mutant: the object is deleted when one reference is left.
DeletesEarly(n) == n <= 1
\* Mutant: the one that takes the last reference away does not see it.
NeverDeletes(n) == n < 0
Deletes(n) == n = 0
UnrefStep ==
    LET x == Last(owned.stack).obj
        n == owned.count[x] - 1
        o == [owned EXCEPT !.count[x] = n, !.stack = Front(@)]
    IN  /\ ~Running
        /\ owned' = IF Deletes(n) THEN Pushed(o, Dying(x, Null)) ELSE o

\* The body of a destructor has run: its member goes, then the object.
DestructorEnds ==
    LET top == Last(owned.stack)
        x == top.obj
        o == [owned EXCEPT !.live = @ \ {x}, !.member[x] = Null, !.stack = Front(@),
                           !.own = [s \in OwnSlot |-> IF s = top.slot THEN Null ELSE @[s]]]
    IN  /\ owned.stack # <<>> /\ Running
        /\ owned' = Pushed(o, Unref(owned.member[x]))

Next ==
    \/ \E s \in RefSlot, x \in Counted : MakeRefCounted(s, x)
    \/ \E s, t \in RefSlot : CopyAssign(s, t) \/ MoveAssign(s, t)
    \/ \E s \in RefSlot : Destroy(s) \/ \E x \in Counted \union Sole : AssignMember(x, s)
    \/ \E s \in OwnSlot : ClearOwn(s) \/ \E x \in Sole : MakeOwn(s, x)
    \/ \E s, t \in OwnSlot : MoveOwn(s, t)
    \/ UnrefStep \/ DestructorEnds
Spec == Init /\ [][Next]_owned

-----------------------------------------------------------------------------
(* Properties                                                              *)

Holders(x) ==
    {<<"slot", s>> : s \in {s \in RefSlot : owned.ref[s] = x}}
        \union {<<"member", y>> : y \in {y \in Counted \union Sole : owned.member[y] = x}}
        \union {<<"unref", i>> : i \in {i \in DOMAIN owned.stack : owned.stack[i] = Unref(x)}}

\* The count of an object is the number of the references to it, those included that a
\* temporary or a destroyed member has yet to give back.
CountIsHolders == \A x \in Counted : owned.count[x] = Cardinality(Holders(x))

\* What is referred to lives, is not being destroyed, and a sole owner is the only one:
\* in the middle of destructors as well.
NothingDangles ==
    LET dying == {owned.stack[i].obj : i \in {i \in DOMAIN owned.stack : owned.stack[i].what = "dying"}}
        Counts == {owned.ref[s] : s \in RefSlot} \union {owned.member[x] : x \in owned.live}
    IN  /\ Counts \ {Null} \subseteq owned.live \ dying
        /\ \A s \in OwnSlot : owned.own[s] # Null /\ Untouched(s) => owned.own[s] \in owned.live \ dying
        /\ \A s, t \in OwnSlot : s # t /\ owned.own[s] = owned.own[t] => owned.own[s] = Null
        /\ \A i, j \in DOMAIN owned.stack :
              i # j /\ owned.stack[i].what = "dying" => owned.stack[i] # owned.stack[j]

\* When no destructor runs, an object that nothing refers to has been destroyed.
NothingLeaks ==
    owned.stack = <<>> =>
        /\ \A x \in Counted \intersect owned.live : Holders(x) # {}
        /\ \A x \in Sole \intersect owned.live : \E s \in OwnSlot : owned.own[s] = x
=============================================================================
