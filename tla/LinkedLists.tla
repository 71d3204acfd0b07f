----------------------------- MODULE LinkedLists -----------------------------
(***************************************************************************)
(* AK/SinglyLinkedList.h with the count of SinglyLinkedListWithCount.h,    *)
(* and AK/DoublyLinkedList.h.  A node is allocated per value; an iterator  *)
(* of a singly linked list remembers the node before it and the one after. *)
(*                                                                         *)
(* Two operations of the singly linked list leave it unusable: remove of   *)
(* the first node compares m_head where it should assign it, and           *)
(* insert_before at the end does not move m_tail.  What the next operation *)
(* then does depends on who has the memory: the model stops there.         *)
(***************************************************************************)
EXTENDS Integers, Sequences, FiniteSets, SequencesExt

CONSTANTS Node, \* bound: the nodes that can be allocated, each for a value of its own
          Null,
          Kind  \* "singly" or "doubly"

VARIABLE chain \* m_head, m_tail, m_count and the nodes

Free == [n \in Node |-> Null]
Init ==
    chain = [head |-> Null, tail |-> Null, count |-> 0,
             next |-> Free, prev |-> Free,
             live |-> {},
             did |-> [op |-> "new", node |-> Null, at |-> Null]]

RECURSIVE Walk(_, _, _)
Walk(c, n, seen) ==
    IF n = Null \/ n \in seen \/ n \notin c.live THEN <<>>
    ELSE <<n>> \o Walk(c, c.next[n], seen \union {n})
Contents(c) == Walk(c, c.head, {})

\* The walk ends at null, at m_tail, and has passed every node.
WellFormed(c) ==
    LET s == Contents(c)
    IN  /\ ToSet(s) = c.live
        /\ c.head = IF s = <<>> THEN Null ELSE s[1]
        /\ c.tail = IF s = <<>> THEN Null ELSE Last(s)
        /\ s # <<>> => c.next[c.tail] = Null
        /\ Kind = "doubly" =>
              \A i \in DOMAIN s : c.prev[s[i]] = IF i = 1 THEN Null ELSE s[i - 1]

Allocated(c, n) == [c EXCEPT !.live = @ \union {n}, !.count = @ + 1]
Deleted(c, N) == [c EXCEPT !.live = @ \ N, !.count = @ - Cardinality(N),
                           !.next = [n \in Node |-> IF n \in N THEN Null ELSE @[n]],
                           !.prev = [n \in Node |-> IF n \in N THEN Null ELSE @[n]]]

\* append, prepend
OnlyNode(c, n) == [c EXCEPT !.head = n, !.tail = n]
Appended(c, n) ==
    IF c.head = Null THEN OnlyNode(c, n)
    ELSE [c EXCEPT !.next[c.tail] = n, !.tail = n,
                   !.prev[n] = IF Kind = "doubly" THEN c.tail ELSE Null]
Prepended(c, n) ==
    IF c.head = Null THEN OnlyNode(c, n)
    ELSE IF Kind = "singly" THEN [c EXCEPT !.next[n] = c.head, !.head = n]
    ELSE [c EXCEPT !.prev[c.head] = n, !.next[n] = c.head, !.head = n]

\* The node an iterator that has come to n, or to the end, remembers.
Before(c, n) ==
    LET s == Contents(c)
        i == IF n = Null THEN Len(s) + 1 ELSE SelectInSeq(s, LAMBDA m : m = n)
    IN  IF i <= 1 THEN Null ELSE s[i - 1]

\* SinglyLinkedList::insert_before, insert_after
InsertedBefore(c, n, it) ==
    LET before == Before(c, it)
        linked == [c EXCEPT !.next[n] = it, !.head = IF @ = it THEN n ELSE @]
    IN  IF before = Null THEN linked ELSE [linked EXCEPT !.next[before] = n]
\* Mutant: a node after the last one is not the tail.
TailForgotten(c, n, it) == [c EXCEPT !.next[n] = c.next[it], !.next[it] = n]
InsertedAfter(c, n, it) ==
    IF it = Null THEN Appended(c, n)
    ELSE [c EXCEPT !.next[n] = c.next[it], !.next[it] = n, !.tail = IF @ = it THEN n ELSE @]

\* SinglyLinkedList::remove, whose "m_head == ..." changes nothing
SinglyRemoved(c, n) ==
    LET before == Before(c, n)
        cut == [c EXCEPT !.tail = IF @ = n THEN before ELSE @]
    IN  Deleted(IF before = Null THEN cut ELSE [cut EXCEPT !.next[before] = c.next[n]], {n})

DoublyRemoved(c, n) ==
    Deleted([c EXCEPT !.next = [m \in Node |-> IF m = c.prev[n] THEN c.next[n] ELSE @[m]],
                      !.prev = [m \in Node |-> IF m = c.next[n] THEN c.prev[n] ELSE @[m]],
                      !.head = IF @ = n THEN c.next[n] ELSE @,
                      !.tail = IF @ = n THEN c.prev[n] ELSE @], {n})

\* SinglyLinkedList::take_first
FirstTaken(c) ==
    Deleted([c EXCEPT !.tail = IF @ = c.head THEN Null ELSE @, !.head = c.next[c.head]], {c.head})

\* clear deletes from m_head along next.
AllDeleted(c) ==
    [Deleted(c, ToSet(Contents(c))) EXCEPT !.head = Null, !.tail = Null, !.count = 0]

-----------------------------------------------------------------------------
Do(c, op, n, at) ==
    WellFormed(chain) /\ chain' = [c EXCEPT !.did = [op |-> op, node |-> n, at |-> at]]
New(n) == n \in Node \ chain.live
Iterators == ToSet(Contents(chain)) \union {Null}

AppendNode(n) == New(n) /\ Do(Appended(Allocated(chain, n), n), "append", n, Null)
Prepend(n) == New(n) /\ Do(Prepended(Allocated(chain, n), n), "prepend", n, Null)
InsertBefore(n, it) ==
    /\ Kind = "singly" /\ New(n)
    /\ Do(InsertedBefore(Allocated(chain, n), n, it), "insert_before", n, it)
InsertAfter(n, it) ==
    /\ Kind = "singly" /\ New(n)
    /\ Do(InsertedAfter(Allocated(chain, n), n, it), "insert_after", n, it)
RemoveAtIterator(it) ==
    /\ it # Null
    /\ Do(IF Kind = "singly" THEN SinglyRemoved(chain, it) ELSE DoublyRemoved(chain, it),
          "remove", it, Null)
TakeFirst == Kind = "singly" /\ chain.head # Null /\ Do(FirstTaken(chain), "take_first", Null, Null)
Clear == Do(AllDeleted(chain), "clear", Null, Null)

Next ==
    \/ \E n \in Node : AppendNode(n) \/ Prepend(n)
    \/ \E n \in Node, it \in Iterators : InsertBefore(n, it) \/ InsertAfter(n, it)
    \/ \E it \in Iterators : RemoveAtIterator(it)
    \/ TakeFirst \/ Clear

Spec == Init /\ [][Next]_chain

-----------------------------------------------------------------------------
(* Properties                                                              *)

\* What an operation means for the sequence of the nodes.
Meant(s, d) ==
    LET at == IF d.at = Null THEN Len(s) + 1 ELSE SelectInSeq(s, LAMBDA m : m = d.at)
    IN  CASE d.op = "append" -> Append(s, d.node)
          [] d.op = "prepend" -> <<d.node>> \o s
          [] d.op = "insert_before" -> InsertAt(s, at, d.node)
          [] d.op = "insert_after" -> IF d.at = Null THEN Append(s, d.node) ELSE InsertAt(s, at + 1, d.node)
          [] d.op = "remove" -> SelectSeq(s, LAMBDA m : m # d.node)
          [] d.op = "take_first" -> Tail(s)
          [] d.op = "clear" -> <<>>
          [] OTHER -> s

\* The two operations of a singly linked list that leave it unusable.
Spoils(c, d) ==
    /\ Kind = "singly"
    /\ \/ d.op = "remove" /\ d.node = c.head
       \/ d.op = "insert_before" /\ d.at = Null

\* On a list that is whole every other operation does what it says and leaves it whole:
\* m_tail, which the next append writes through, is the last node, and the count is right.
ChainStaysWholeStep ==
    WellFormed(chain) /\ ~Spoils(chain, chain'.did) =>
        /\ WellFormed(chain')
        /\ Contents(chain') = Meant(Contents(chain), chain'.did)
        /\ chain'.count = Len(Contents(chain'))
ChainStaysWhole == [][ChainStaysWholeStep]_chain
=============================================================================
