------------------------------- MODULE Queues -------------------------------
(***************************************************************************)
(* The queues of AK: CircularQueue.h (a ring that overwrites its oldest    *)
(* value when it is full), Queue.h (a list of segments, of which the first *)
(* is used up from its front), Stack.h and BinaryHeap.h (a binary heap in  *)
(* an array), and IDAllocator.h.  Each is kept beside the sequence, set or *)
(* bag it stands for.                                                      *)
(***************************************************************************)
EXTENDS Integers, Sequences, FiniteSets, SequencesExt, BagsExt

CONSTANTS Value,
          Capacity,    \* of the ring, the stack and the heap; segment_size
          MaxQueued    \* bound: values in a Queue, which has no limit

VARIABLE queue \* the members of one object, with the contents it stands for

Ring == [kind |-> "ring", elements |-> [i \in 0 .. Capacity - 1 |-> 0], head |-> 0, size |-> 0,
         contents |-> <<>>, got |-> 0]
Segments == [kind |-> "segments", segments |-> <<>>, index |-> 0, size |-> 0,
             contents |-> <<>>, got |-> 0]
Heap == [kind |-> "heap", elements |-> <<>>, contents |-> EmptyBag, got |-> 0]

-----------------------------------------------------------------------------
(* CircularQueue                                                           *)

At(q, i) == q.elements[(q.head + i) % Capacity]

\* Mutant: the head stays on the value that was overwritten.
HeadKept(q) == IF q.size = Capacity THEN q.head ELSE q.head
HeadAfterEnqueue(q) == IF q.size = Capacity THEN (q.head + 1) % Capacity ELSE q.head

Enqueue(x) ==
    /\ queue.kind = "ring"
    /\ queue' = [queue EXCEPT !.elements[(queue.head + queue.size) % Capacity] = x,
                              !.head = HeadAfterEnqueue(queue),
                              !.size = IF @ = Capacity THEN @ ELSE @ + 1,
                              !.contents = Append(IF Len(@) = Capacity THEN Tail(@) ELSE @, x)]
Dequeue ==
    /\ queue.kind = "ring" /\ queue.size > 0
    /\ queue' = [queue EXCEPT !.head = (@ + 1) % Capacity, !.size = @ - 1,
                              !.got = queue.elements[queue.head] - Head(queue.contents),
                              !.contents = Tail(@)]
ClearRing ==
    /\ queue.kind = "ring"
    /\ queue' = [queue EXCEPT !.head = 0, !.size = 0, !.contents = <<>>]

-----------------------------------------------------------------------------
(* Queue: at most the last segment has room, index_into_first is in the first *)

EnqueueSegmented(x) ==
    LET room == queue.segments # <<>> /\ Len(Last(queue.segments)) < Capacity
    IN  /\ queue.kind = "segments" /\ Len(queue.contents) < MaxQueued
        /\ queue' = [queue EXCEPT !.segments = IF room THEN Front(@) \o <<Append(Last(@), x)>>
                                               ELSE Append(@, <<x>>),
                                  !.size = @ + 1, !.contents = Append(@, x)]

\* Mutant: the first segment is kept until the next one is needed.
SegmentKept(q) == q.segments
SegmentsAfter(q) == IF q.index + 1 = Capacity THEN Tail(q.segments) ELSE q.segments

\* An empty queue starts its remaining segment again.
DequeueSegmented ==
    LET left == SegmentsAfter(queue)
    IN  /\ queue.kind = "segments" /\ queue.size > 0
        /\ queue' = [queue EXCEPT !.segments = IF queue.size = 1 /\ left # <<>>
                                               THEN <<(<<>>)>> \o Tail(left) ELSE left,
                                  !.index = IF queue.size = 1 \/ @ + 1 = Capacity THEN 0 ELSE @ + 1,
                                  !.size = @ - 1,
                                  !.got = Head(queue.segments)[queue.index + 1] - Head(queue.contents),
                                  !.contents = Tail(@)]
ClearSegments ==
    queue.kind = "segments" /\ queue' = [Segments EXCEPT !.got = queue.got]

-----------------------------------------------------------------------------
(* Stack: push and pop answer false when it is full or empty               *)

Stack == [kind |-> "stack", elements |-> <<>>, contents |-> <<>>, got |-> 0]
Push(x) ==
    /\ queue.kind = "stack"
    /\ queue' = IF Len(queue.elements) >= Capacity THEN queue
                ELSE [queue EXCEPT !.elements = Append(@, x), !.contents = <<x>> \o @]
Pop ==
    /\ queue.kind = "stack"
    /\ queue' = IF queue.elements = <<>> THEN queue
                ELSE [queue EXCEPT !.elements = Front(@), !.contents = Tail(@),
                                   !.got = Last(queue.elements) - Head(queue.contents)]

-----------------------------------------------------------------------------
(* BinaryHeap: elements[i + 1] is m_elements[i]                            *)

BagOf(s) == FoldLeft(LAMBDA b, x : BagAdd(b, x), EmptyBag, s)
Swapped(s, i, j) == [s EXCEPT ![i] = s[j], ![j] = s[i]]

RECURSIVE HeapifyUp(_, _), HeapifyDown(_, _, _)
HeapifyUp(s, i) ==
    IF i = 0 \/ s[i + 1] >= s[(i - 1) \div 2 + 1] THEN s
    ELSE HeapifyUp(Swapped(s, i + 1, (i - 1) \div 2 + 1), (i - 1) \div 2)

\* Mutant: the left child, whichever is smaller.
LeftChild(s, size, i) == 2 * i + 1
MinChild(s, size, i) ==
    IF 2 * i + 2 < size /\ s[2 * i + 3] < s[2 * i + 2] THEN 2 * i + 2 ELSE 2 * i + 1
HeapifyDown(s, size, i) ==
    IF 2 * i + 1 >= size THEN s
    ELSE LET c == MinChild(s, size, i)
         IN  IF s[i + 1] <= s[c + 1] THEN s ELSE HeapifyDown(Swapped(s, i + 1, c + 1), size, c)

\* The constructor heapifies from the middle down to the root.
RECURSIVE Heapified(_, _)
Heapified(s, i) == IF i < 0 THEN s ELSE Heapified(HeapifyDown(s, Len(s), i), i - 1)
BinaryHeapOf(s) ==
    /\ queue.kind = "heap" /\ queue.elements = <<>>
    /\ queue' = [queue EXCEPT !.elements = Heapified(s, Len(s) \div 2), !.contents = BagOf(s)]

InsertIntoHeap(k) ==
    /\ queue.kind = "heap" /\ Len(queue.elements) < Capacity
    /\ queue' = [queue EXCEPT !.elements = HeapifyUp(Append(@, k), Len(@)),
                              !.contents = BagAdd(@, k)]
Least == CHOOSE k \in DOMAIN queue.contents : \A j \in DOMAIN queue.contents : k <= j
PopMin ==
    LET n == Len(queue.elements)
        s == Swapped(queue.elements, 1, n)
    IN  /\ queue.kind = "heap" /\ n > 0
        /\ queue' = [queue EXCEPT !.elements = Front(HeapifyDown(s, n - 1, 0)),
                                  !.contents = BagRemove(@, Least), !.got = s[n] - Least]
ClearHeap == queue.kind = "heap" /\ queue' = [Heap EXCEPT !.got = queue.got]

-----------------------------------------------------------------------------
(* IDAllocator: any id that is not taken; 0 and taken ones are drawn again *)

Ids == [kind |-> "ids", allocated |-> {}, contents |-> EmptyBag, got |-> 0]
Allocate ==
    /\ queue.kind = "ids"
    /\ \E id \in Value \ ({0} \union queue.allocated) :
           queue' = [queue EXCEPT !.allocated = @ \union {id}, !.contents = BagAdd(@, id)]
Deallocate(id) ==
    /\ queue.kind = "ids" /\ id \in queue.allocated
    /\ queue' = [queue EXCEPT !.allocated = @ \ {id}, !.contents = BagRemove(@, id)]

-----------------------------------------------------------------------------

Init == queue \in {Ring, Segments, Stack, Heap, Ids}
Next ==
    \/ \E x \in Value : Enqueue(x) \/ EnqueueSegmented(x) \/ Push(x) \/ InsertIntoHeap(x)
    \/ Dequeue \/ DequeueSegmented \/ Pop \/ PopMin
    \/ ClearRing \/ ClearSegments \/ ClearHeap
    \/ \E s \in BoundedSeq(Value, Capacity) : BinaryHeapOf(s)
    \/ Allocate \/ \E id \in Value : Deallocate(id)
Spec == Init /\ [][Next]_queue

-----------------------------------------------------------------------------
(* Properties                                                              *)

\* What is read by index, by segment or from the array is what the object stands for, and
\* everything taken out was the oldest, the youngest or the least, as it should be.
HoldsContents ==
    /\ queue.got = 0
    /\ CASE queue.kind = "ring" ->
              queue.contents = [i \in 1 .. queue.size |-> At(queue, i - 1)]
         [] queue.kind = "segments" ->
              /\ queue.size = Len(queue.contents)
              /\ SubSeq(FlattenSeq(queue.segments), queue.index + 1,
                        Len(FlattenSeq(queue.segments))) = queue.contents
         [] queue.kind = "stack" -> Reverse(queue.elements) = queue.contents
         [] queue.kind = "heap" -> BagOf(queue.elements) = queue.contents
         [] OTHER -> queue.allocated = BagToSet(queue.contents) /\ queue.contents = SetToBag(queue.allocated)

\* Every key of the heap is at least its parent's.
HeapOrdered ==
    queue.kind = "heap" =>
        \A i \in 2 .. Len(queue.elements) : queue.elements[i \div 2] <= queue.elements[i]
=============================================================================
