---------------------------- MODULE IntrusiveList ----------------------------
(***************************************************************************)
(* AK/IntrusiveList.h: lists whose links are members of the values, here   *)
(* with a Container that owns them.  A value is in one list at a time:     *)
(* putting it into another takes it out of the first.                      *)
(***************************************************************************)
EXTENDS Integers, Sequences, SequencesExt

CONSTANTS List, Node, NoList, Null

VARIABLE links \* the IntrusiveListStorage of each list, the IntrusiveListNode of each value

Nobody == [n \in Node |-> Null]

Init ==
    links = [first |-> [l \in List |-> Null], last |-> [l \in List |-> Null],
             storage |-> [n \in Node |-> NoList], next |-> Nobody, prev |-> Nobody,
             self |-> {},  \* the nodes whose m_self refers to their own value
             at |-> Null,  \* where a loop over a list is
             did |-> [op |-> "new", list |-> NoList, node |-> Null, before |-> Null]]

RECURSIVE Follow(_, _, _)
Follow(f, n, steps) == IF n = Null \/ steps = 0 THEN <<>> ELSE <<n>> \o Follow(f, f[n], steps - 1)
Steps == Cardinality(Node) + 1

\* begin() and operator++, rbegin() and operator++
Forward(k, l) == Follow(k.next, k.first[l], Steps)
Backward(k, l) == Follow(k.prev, k.last[l], Steps)

\* IntrusiveListNode::remove
\* Mutant: the last value is taken out, m_last stays.
LastKept(k, n) == k.last
LastWithout(k, n) ==
    [l \in List |-> IF l = k.storage[n] /\ k.last[l] = n THEN k.prev[n] ELSE k.last[l]]

Without(k, n) ==
    [k EXCEPT !.first = [l \in List |-> IF l = k.storage[n] /\ @[l] = n THEN k.next[n] ELSE @[l]],
              !.last = LastWithout(k, n),
              !.next = [m \in Node |-> IF m = n THEN Null ELSE IF m = k.prev[n] THEN k.next[n] ELSE @[m]],
              !.prev = [m \in Node |-> IF m = n THEN Null ELSE IF m = k.next[n] THEN k.prev[n] ELSE @[m]],
              !.storage[n] = NoList,
              !.self = @ \ {n}]

\* IntrusiveList::remove, first in every insertion: from whichever list it is in
Removed(k, n) == IF k.storage[n] = NoList THEN k ELSE Without(k, n)

\* n is linked between two nodes of l, or its ends, and told where it is.
Linked(k, l, n, before, after) ==
    [k EXCEPT !.storage[n] = l, !.self = @ \union {n},
              !.prev = [m \in Node |-> IF m = n THEN before ELSE IF m = after THEN n ELSE @[m]],
              !.next = [m \in Node |-> IF m = n THEN after ELSE IF m = before THEN n ELSE @[m]]]

Appended(k, l, n) ==
    LET r == Removed(k, n)
    IN  [Linked(r, l, n, r.last[l], Null)
            EXCEPT !.last[l] = n, !.first[l] = IF @ = Null THEN n ELSE @]
Prepended(k, l, n) ==
    LET r == Removed(k, n)
    IN  [Linked(r, l, n, Null, r.first[l])
            EXCEPT !.first[l] = n, !.last[l] = IF @ = Null THEN n ELSE @]

\* Mutant: the node before keeps its m_next.
BackLinkOnly(k, l, b, n) ==
    LET r == Removed(k, n)
    IN  [Linked(r, l, n, r.prev[b], b) EXCEPT !.first[l] = IF @ = b THEN n ELSE @,
                                               !.next = [r.next EXCEPT ![n] = b]]
InsertedBefore(k, l, b, n) ==
    LET r == Removed(k, n)
    IN  [Linked(r, l, n, r.prev[b], b) EXCEPT !.first[l] = IF @ = b THEN n ELSE @]

RECURSIVE Cleared(_, _)
Cleared(k, l) == IF k.first[l] = Null THEN k ELSE Cleared(Without(k, k.first[l]), l)

-----------------------------------------------------------------------------
(* Operations; an iterator stays valid while only its erase() removes      *)

Quiet == links.at = Null
Do(k, op, l, n, b) == links' = [k EXCEPT !.did = [op |-> op, list |-> l, node |-> n, before |-> b]]

AppendTo(l, n) == Quiet /\ Do(Appended(links, l, n), "append", l, n, Null)
Prepend(l, n) == Quiet /\ Do(Prepended(links, l, n), "prepend", l, n, Null)
\* before another value, which must be in this list
InsertBefore(l, b, n) ==
    /\ Quiet /\ links.storage[b] = l /\ n # b
    /\ Do(InsertedBefore(links, l, b, n), "insert_before", l, n, b)
RemoveNode(n) == Quiet /\ Do(Removed(links, n), "remove", NoList, n, Null)
TakeFirst(l) ==
    /\ Quiet /\ links.first[l] # Null
    /\ Do(Removed(links, links.first[l]), "take_first", l, Null, Null)
TakeLast(l) ==
    /\ Quiet /\ links.last[l] # Null
    /\ Do(Removed(links, links.last[l]), "take_last", l, Null, Null)
Clear(l) == Quiet /\ Do(Cleared(links, l), "clear", l, Null, Null)

\* A loop over a list; erase() takes the next value before it removes this one.
Begin(l) == Quiet /\ Do([links EXCEPT !.at = links.first[l]], "iterate", l, Null, Null)
Advance == ~Quiet /\ Do([links EXCEPT !.at = links.next[links.at]], "iterate", NoList, Null, Null)
Erase ==
    /\ ~Quiet
    /\ Do([Without(links, links.at) EXCEPT !.at = links.next[links.at]],
          "remove", NoList, links.at, Null)

Next ==
    \/ \E l \in List, n \in Node : AppendTo(l, n) \/ Prepend(l, n)
    \/ \E l \in List, b, n \in Node : InsertBefore(l, b, n)
    \/ \E n \in Node : RemoveNode(n)
    \/ \E l \in List : TakeFirst(l) \/ TakeLast(l) \/ Clear(l) \/ Begin(l)
    \/ Advance \/ Erase

Spec == Init /\ [][Next]_links

-----------------------------------------------------------------------------
(* Properties                                                              *)

\* Forwards and backwards a list visits the same values, once, those that say they are in
\* it (contains, is_in_list); and exactly the values in a list keep themselves alive.
ListsAgree ==
    /\ \A l \in List :
          /\ Backward(links, l) = Reverse(Forward(links, l))
          /\ ToSet(Forward(links, l)) = {n \in Node : links.storage[n] = l}
          /\ IsInjective(Forward(links, l))
    /\ links.self = {n \in Node : links.storage[n] # NoList}
    /\ \A n \in Node : links.storage[n] = NoList => links.next[n] = Null /\ links.prev[n] = Null

\* What an operation does to the contents c of the lists.
Meant(c, d) ==
    LET others == [l \in List |-> SelectSeq(c[l], LAMBDA m : m # d.node)]
        on == others[d.list]
        With(s) == [others EXCEPT ![d.list] = s]
    IN  CASE d.op = "append" -> With(Append(on, d.node))
          [] d.op = "prepend" -> With(<<d.node>> \o on)
          [] d.op = "insert_before" -> With(InsertAt(on, SelectInSeq(on, LAMBDA m : m = d.before), d.node))
          [] d.op = "remove" -> others
          [] d.op = "take_first" -> With(Tail(on))
          [] d.op = "take_last" -> With(Front(on))
          [] d.op = "clear" -> With(<<>>)
          [] OTHER -> c

Contents(k) == [l \in List |-> Forward(k, l)]

\* Every operation changes the order of the values as it says, in both lists when it moves
\* a value from one to the other, and in no other way.
DoesAsMeantStep == Contents(links') = Meant(Contents(links), links'.did)
DoesAsMeant == [][DoesAsMeantStep]_links
=============================================================================
