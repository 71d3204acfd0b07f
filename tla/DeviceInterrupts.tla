-------------------------- MODULE DeviceInterrupts --------------------------
(***************************************************************************)
(* Kernel/Arch/aarch64/Interrupts.cpp: the table of interrupt handlers, and*)
(* handle_interrupt over what the controller reports pending.  Handler     *)
(* classes are not under src/: an unhandled one does nothing, a shared one *)
(* keeps a set of handlers and calls each, a device's handler makes it     *)
(* stop raising its line.  Interrupts are enabled while handlers come and  *)
(* go, so one may arrive between any two stores to a slot, while it is     *)
(* null, points to a handler already deleted, or to a shared handler that  *)
(* has not been given its handlers.                                        *)
(***************************************************************************)
EXTENDS Naturals, FiniteSets, Sequences

CONSTANTS Irq,   \* interrupt numbers
          Device \* the handlers of type IRQHandler

VARIABLE irqs \* [slot, line, raising, change, pending, due, halted]

Empty == [type |-> "none", calls |-> {}]
Unhandled == [type |-> "unhandled", calls |-> {}]
Deleted == [type |-> "deleted", calls |-> {}] \* the slot points to an unhandled handler that is freed
Own(d) == [type |-> "irq", calls |-> {d}]
Shared(ds) == [type |-> "shared", calls |-> ds]

NoIrq == {} \* no interrupt number, or no change of a slot under way
Registered(i) == {d \in Device : irqs.line[d] = {i}}
Serving == irqs.pending # {}
Changing == {change.irq : change \in irqs.change}

\* initalize_interrupts
Init == irqs = [slot |-> [i \in Irq |-> Unhandled], line |-> [d \in Device |-> NoIrq], raising |-> {},
                change |-> NoIrq, pending |-> {}, due |-> {}, halted |-> FALSE]

-----------------------------------------------------------------------------
(* Registration.  change holds [irq, to]: what the slot will be, store by  *)
(* store.  Storing in a slot that is null, and adding to a shared handler, *)
(* take one step.                                                          *)

Quiet == ~irqs.halted /\ ~Serving /\ irqs.change = NoIrq
Through(i, to) == {[irq |-> i, to |-> to]}

\* Mutant: the previous handler is not given to the shared one.
PreviousForgotten(slot, d) == <<Shared({}), Shared({}), Shared({d})>>
\* SharedIRQHandler::initialize stores a shared handler, which is then given the previous one and d.
ThroughShared(slot, d) == <<Shared({}), Shared(slot.calls), Shared(slot.calls \cup {d})>>
Register(d, i) ==
    LET slot == irqs.slot[i]
        begun(now, to) == [irqs EXCEPT !.slot[i] = now, !.line[d] = {i}, !.change = Through(i, to)]
    IN  /\ Quiet /\ irqs.line[d] = NoIrq
        /\ \/ slot.type = "unhandled" /\ irqs' = begun(Deleted, <<Own(d)>>)
           \/ slot.type = "irq" /\ irqs' = begun(Empty, ThroughShared(slot, d))
           \/ slot.type = "shared" /\ irqs' = [irqs EXCEPT !.slot[i] = Shared(slot.calls \cup {d}), !.line[d] = {i}]

\* A handler that is alone in its slot stays there.  The device no longer raises the line.
\* Mutant: a shared handler goes when one of its handlers does.
AnyLeaves(left) == TRUE
LastLeaves(left) == left = {}
\* revert_to_unused_handler follows when a shared handler has lost its last one.
Unregister(d) ==
    \E i \in irqs.line[d] :
        LET slot == irqs.slot[i]
            left == slot.calls \ {d}
            gone == [irqs EXCEPT !.line[d] = NoIrq, !.raising = @ \ {d}]
        IN  /\ Quiet
            /\ irqs' = IF slot.type # "shared" THEN gone
                       ELSE [gone EXCEPT !.slot[i] = Shared(left),
                                         !.change = IF LastLeaves(left) THEN Through(i, <<Empty, Unhandled>>) ELSE NoIrq]

\* The next store of the change under way.  An interrupt that came before it is over (due).
Store ==
    /\ ~irqs.halted /\ ~Serving
    /\ \E change \in irqs.change :
           irqs' = [irqs EXCEPT !.slot[change.irq] = Head(change.to), !.due = {},
                                !.change = IF Len(change.to) = 1 THEN NoIrq ELSE Through(change.irq, Tail(change.to))]

-----------------------------------------------------------------------------
(* Interrupts                                                              *)

Raise(d) ==
    /\ ~irqs.halted /\ irqs.line[d] # NoIrq /\ d \notin irqs.raising
    /\ irqs' = [irqs EXCEPT !.raising = @ \cup {d}]

\* handle_interrupt is entered: pending_interrupts is read once.  due: who raised and is not called yet.
PendingInterrupts == UNION {irqs.line[d] : d \in irqs.raising}
Enter ==
    /\ ~irqs.halted /\ ~Serving /\ PendingInterrupts # {}
    /\ irqs' = [irqs EXCEPT !.pending = PendingInterrupts, !.due = irqs.raising]

\* Mutant: a shared handler calls one of its handlers.
SomeHandler(slot) == IF slot.calls = {} THEN {} ELSE {CHOOSE d \in slot.calls : TRUE}
Called(slot) == slot.calls
\* The next bit that is set: VERIFY(handler), or its handler is called.  A deleted one may still do nothing
\* as before, or take the kernel anywhere.
Handle ==
    \E i \in irqs.pending :
        LET slot == irqs.slot[i]
        IN  /\ ~irqs.halted /\ \A j \in irqs.pending : i <= j
            /\ \/ /\ slot \in {Empty, Deleted}
                  /\ irqs' = [irqs EXCEPT !.halted = TRUE]
               \/ /\ slot # Empty
                  /\ irqs' = [irqs EXCEPT !.pending = @ \ {i}, !.raising = @ \ Called(slot), !.due = @ \ Called(slot)]

Next == \/ \E d \in Device : (\E i \in Irq : Register(d, i)) \/ Unregister(d) \/ Raise(d)
        \/ Store \/ Enter \/ Handle
Spec == Init /\ [][Next]_irqs

-----------------------------------------------------------------------------
(* Properties                                                              *)

\* A slot that no change is under way for calls every handler registered for it, and is neither null nor
\* points to a deleted handler.
HandlersReached ==
    \A i \in Irq \ Changing : Registered(i) \subseteq irqs.slot[i].calls /\ irqs.slot[i] \notin {Empty, Deleted}
\* A device that raised its line before handle_interrupt was entered has been called when it returns, and
\* no null or deleted handler is called, but for the line whose slot is being changed: its devices may be
\* left raising, and VERIFY(handler) may fail.
RaisedIsServed ==
    /\ \A d \in irqs.due : irqs.line[d] \subseteq irqs.pending \cup Changing
    /\ irqs.halted => \E i \in irqs.pending \cap Changing : \A j \in irqs.pending : i <= j
\* Not so of Interrupts.cpp:28-29 (VERIFY(handler)), as the table changes with interrupts enabled: everyone who
\* raised a line is called and every slot has a handler, at any time.
ServedAtAnyTime == ~irqs.halted /\ \A d \in irqs.due : irqs.line[d] \subseteq irqs.pending
=============================================================================
