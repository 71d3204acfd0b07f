--------------------------- MODULE MessageDelivery ---------------------------
(***************************************************************************)
(* What inter-processor messaging promises, with no pool, no reference     *)
(* count, no linked list and no interrupt: every processor has an inbox of *)
(* requests that it serves in the order they arrived, a request reaches    *)
(* each of its targets exactly once, and a synchronous call does not       *)
(* return before every target has served it.  SmpMessaging implements it.  *)
(***************************************************************************)
EXTENDS Naturals, Sequences

CONSTANTS CPU,       \* the processors
          MaxCalls   \* calls each processor makes

VARIABLES inbox,     \* inbox[c]: the requests c has yet to serve, oldest first
          ran,       \* ran[c]: the requests c has served
          target,    \* target[c]: who the call c is making is for, {} between calls
          left,      \* left[c]: the targets it has not been posted to yet
          sync,      \* sync[c]: the call c is making waits for its targets
          calls      \* calls[c]: how many calls c has started

vars == <<inbox, ran, target, left, sync, calls>>

\* A request is named by the processor that makes it and the number of its call.
Request(c) == <<c, calls[c]>>

Init ==
    /\ inbox = [c \in CPU |-> <<>>]
    /\ ran = [c \in CPU |-> {}]
    /\ target = [c \in CPU |-> {}]
    /\ left = [c \in CPU |-> {}]
    /\ sync = [c \in CPU |-> FALSE]
    /\ calls = [c \in CPU |-> 0]

Begin(c) ==
    /\ target[c] = {}
    /\ calls[c] < MaxCalls
    /\ \E to \in (SUBSET (CPU \ {c})) \ {{}}, s \in BOOLEAN :
          /\ target' = [target EXCEPT ![c] = to]
          /\ left' = [left EXCEPT ![c] = to]
          /\ sync' = [sync EXCEPT ![c] = s]
    /\ calls' = [calls EXCEPT ![c] = @ + 1]
    /\ UNCHANGED <<inbox, ran>>

Post(c, d) ==
    /\ d \in left[c]
    /\ left' = [left EXCEPT ![c] = @ \ {d}]
    /\ inbox' = [inbox EXCEPT ![d] = Append(@, Request(c))]
    /\ UNCHANGED <<ran, target, sync, calls>>

Serve(d) ==
    /\ inbox[d] # <<>>
    /\ Head(inbox[d]) \notin ran[d]
    /\ ran' = [ran EXCEPT ![d] = @ \union {Head(inbox[d])}]
    /\ inbox' = [inbox EXCEPT ![d] = Tail(@)]
    /\ UNCHANGED <<target, left, sync, calls>>

Return(c) ==
    /\ target[c] # {}
    /\ left[c] = {}
    /\ sync[c] => \A d \in target[c] : Request(c) \in ran[d]
    /\ target' = [target EXCEPT ![c] = {}]
    /\ sync' = [sync EXCEPT ![c] = FALSE]
    /\ UNCHANGED <<inbox, ran, left, calls>>

Next == \E c \in CPU : Begin(c) \/ Serve(c) \/ Return(c) \/ \E d \in CPU : Post(c, d)

Spec == Init /\ [][Next]_vars
=============================================================================
