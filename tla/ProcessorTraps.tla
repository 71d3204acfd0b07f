--------------------------- MODULE ProcessorTraps ---------------------------
(***************************************************************************)
(* Kernel/Arch/x86/common/Processor.cpp: what one processor does between   *)
(* entering and leaving traps and critical sections.  Interrupt handlers   *)
(* and threads queue deferred calls, and ask for the scheduler by setting  *)
(* m_invoke_scheduler_async; exit_trap and leave_critical run the calls    *)
(* and then the scheduler once nothing below them forbids it.              *)
(*                                                                         *)
(* All of this is data of one processor, so only its own interrupts and    *)
(* exceptions interleave: with interrupts disabled a function is one step, *)
(* cut where it calls code that may itself do any of these things.  The    *)
(* functions of this module do not fault themselves.                       *)
(***************************************************************************)
EXTENDS Integers, Sequences, FiniteSets, SequencesExt

CONSTANTS PoolSize,  \* entries of m_deferred_call_pool
          HeapSize,  \* bound: entries that `new` hands out at a time
          MaxCalls,  \* bound: calls ever queued
          MaxFaults, \* bound: exceptions ever taken
          MaxDepth,  \* bound: contexts stacked on the thread's, itself included
          MaxHeld,   \* bound: critical sections one context is in
          QueuesMasked, \* deferred_call_queue is called with interrupts disabled
          CallsQueue    \* a deferred call may queue another

ASSUME ProcessorTrapsAssumption ==
    /\ PoolSize \in Nat \ {0} /\ HeapSize \in Nat
    /\ MaxCalls \in Nat /\ MaxFaults \in Nat /\ MaxDepth \in Nat \ {0} /\ MaxHeld \in Nat
    /\ QueuesMasked \in BOOLEAN /\ CallsQueue \in BOOLEAN

Null == 0
PoolEntry == 1..PoolSize
HeapEntry == PoolSize + 1 .. PoolSize + HeapSize
Entry == PoolEntry \union HeapEntry
Call == 1..MaxCalls
Empty == 0  \* a Function that holds no callable

VARIABLES
    intr,     \* IF
    inIrq,    \* m_in_irq
    crit,     \* m_in_critical
    invoke,   \* m_invoke_scheduler_async
    free,     \* m_free_deferred_call_pool_entry
    pending,  \* m_pending_deferred_calls
    next,     \* DeferredCallEntry::next
    handler,  \* DeferredCallEntry::handler_value(), a call or Empty
    heap,     \* the entries with was_allocated that are not deleted
    stack,    \* the contexts, the running one last
    faults,   \* how many exceptions were taken
    queued,   \* how many calls were queued; a call is its number
    nested,   \* the calls that a deferred call queued
    ran       \* the calls invoked, in order

levels == <<intr, inIrq, crit, invoke>>
entries == <<free, pending, next, handler, heap>>
calls == <<queued, nested, ran>>
vars == <<levels, entries, stack, faults, calls>>

Kinds == {"thread", "irq", "fault", "drain"}

\* code: the context's own instructions; got to queued: inside
\* deferred_call_queue; exit, leave: about to finish exit_trap or leave_critical;
\* run: execute_pending about to invoke an entry.
Labels == {"code", "got", "step", "own", "linked", "queued", "exit", "leave", "run"}

Context(kind, at, todo) ==
    [kind |-> kind, at |-> at,
     flags |-> intr,  \* IF of the code it interrupted, for iret
     was |-> intr,    \* IF that leave_critical's InterruptDisabler found
     prev |-> inIrq,  \* TrapFrame::prev_irq_level
     held |-> 0,      \* the critical sections it has entered and not left
     entry |-> Null,  \* the entry it is queueing
     read |-> Null,   \* the next pointer it has read from that entry
     todo |-> todo]   \* pending_list of execute_pending

Init ==
    /\ intr = TRUE
    /\ inIrq = 0
    /\ crit = 0
    /\ invoke = FALSE
    /\ free = 1
    /\ pending = Null
    /\ next = [e \in Entry |-> IF e < PoolSize THEN e + 1 ELSE Null]
    /\ handler = [e \in Entry |-> Empty]
    /\ heap = {}
    /\ stack = <<Context("thread", "code", Null)>>
    /\ faults = 0
    /\ queued = 0
    /\ nested = {}
    /\ ran = <<>>

-----------------------------------------------------------------------------

Top == Last(stack)
At(l) == Top.at = l
Kind(k) == Top.kind \in k
WithTop(c) == Front(stack) \o <<c>>
Goto(l) == stack' = WithTop([Top EXCEPT !.at = l])

\* The entries of a list, the head first.
Chain(head) ==
    LET walk[n \in 0..PoolSize + HeapSize] ==
            [e \in Entry \union {Null} |->
                IF n = 0 \/ e = Null THEN <<>> ELSE <<e>> \o walk[n - 1][next[e]]]
    IN  walk[PoolSize + HeapSize][head]

\* A drain that forgets to reverse the list.
AsQueued(list) == list

\* deferred_call_execute_pending takes the list and reverses it.
ReverseList(list) == Reverse(list)

Relinked(list) ==
    [e \in Entry |->
        IF \E i \in DOMAIN list : list[i] = e
        THEN LET i == CHOOSE i \in DOMAIN list : list[i] = e
             IN  IF i = Len(list) THEN Null ELSE list[i + 1]
        ELSE next[e]]

\* The running context becomes c and, when calls are pending, a drain runs above it.
ExecutePending(c) ==
    IF pending = Null
    THEN stack' = WithTop(c) /\ UNCHANGED <<pending, next>>
    ELSE LET list == ReverseList(Chain(pending))
         IN  /\ stack' = WithTop(c) \o <<Context("drain", "run", list[1])>>
             /\ pending' = Null
             /\ next' = Relinked(list)

\* check_invoke_scheduler: Scheduler::invoke_async, then this thread again.
CheckInvokeScheduler == invoke' = FALSE

-----------------------------------------------------------------------------
(* Traps                                                                    *)

\* An interrupt vector: the processor clears IF, then enter_trap.
EnterTrapIrq ==
    /\ intr
    /\ Len(stack) < MaxDepth
    /\ stack' = Append(stack, Context("irq", "code", Null))
    /\ inIrq' = inIrq + 1
    /\ intr' = FALSE
    /\ UNCHANGED <<crit, invoke, entries, faults, calls>>

\* An exception in a context's own code: enter_trap_no_irq.
EnterTrapNoIrq ==
    /\ At("code")
    /\ Len(stack) < MaxDepth /\ faults < MaxFaults
    /\ faults' = faults + 1
    /\ stack' = Append(stack, Context("fault", "code", Null))
    /\ intr' = FALSE
    /\ UNCHANGED <<inIrq, crit, invoke, entries, calls>>

\* An exit_trap whose calls may leave the last critical section themselves.
ExitTrapUnguarded ==
    /\ At("code") /\ Kind({"irq", "fault"}) /\ Top.held = 0
    /\ intr' = FALSE
    /\ inIrq' = Top.prev
    /\ ExecutePending([Top EXCEPT !.at = "exit"])
    /\ UNCHANGED <<crit, invoke, free, handler, heap, faults, calls>>

\* An exit_trap that stays at the interrupt level of the handler.
ExitTrapStaysIrq ==
    /\ At("code") /\ Kind({"irq", "fault"}) /\ Top.held = 0
    /\ intr' = FALSE
    /\ crit' = crit + 1
    /\ ExecutePending([Top EXCEPT !.at = "exit"])
    /\ UNCHANGED <<inIrq, invoke, free, handler, heap, faults, calls>>

\* An exit_trap that leaves the calls to a later trap.
ExitTrapUndrained ==
    /\ At("code") /\ Kind({"irq", "fault"}) /\ Top.held = 0
    /\ intr' = FALSE
    /\ crit' = crit + 1
    /\ inIrq' = Top.prev
    /\ Goto("exit")
    /\ UNCHANGED <<invoke, entries, faults, calls>>

\* exit_trap up to and with deferred_call_execute_pending.
ExitTrap ==
    /\ At("code") /\ Kind({"irq", "fault"}) /\ Top.held = 0
    /\ intr' = FALSE
    /\ crit' = crit + 1
    /\ inIrq' = Top.prev
    /\ ExecutePending([Top EXCEPT !.at = "exit"])
    /\ UNCHANGED <<invoke, free, handler, heap, faults, calls>>

\* An exit that ignores the critical sections of the interrupted code.
FinishExitInCritical ==
    /\ At("exit")
    /\ crit' = crit - 1
    /\ IF inIrq = 0 THEN CheckInvokeScheduler ELSE UNCHANGED invoke
    /\ intr' = Top.flags
    /\ stack' = Front(stack)
    /\ UNCHANGED <<inIrq, entries, faults, calls>>

\* The rest of exit_trap, and iret.
FinishExit ==
    /\ At("exit")
    /\ crit' = crit - 1
    /\ IF inIrq = 0 /\ crit' = 0 THEN CheckInvokeScheduler ELSE UNCHANGED invoke
    /\ intr' = Top.flags
    /\ stack' = Front(stack)
    /\ UNCHANGED <<inIrq, entries, faults, calls>>

-----------------------------------------------------------------------------
(* Critical sections                                                        *)

EnterCritical ==
    /\ At("code")
    /\ Top.held < MaxHeld
    /\ crit' = crit + 1
    /\ stack' = WithTop([Top EXCEPT !.held = @ + 1])
    /\ UNCHANGED <<intr, inIrq, invoke, entries, faults, calls>>

\* leave_critical: InterruptDisabler, then do_leave_critical up to its last test.
LeaveFrom(l) ==
    LET left == [Top EXCEPT !.at = "leave", !.held = @ - 1, !.was = intr, !.entry = Null]
    IN  /\ At(l)
        /\ Top.held > 0
        /\ IF crit > 1
           THEN /\ crit' = crit - 1
                /\ stack' = WithTop([left EXCEPT !.at = "code"])
                /\ UNCHANGED <<intr, pending, next>>
           ELSE /\ intr' = FALSE
                /\ IF inIrq = 0
                   THEN ExecutePending(left)
                   ELSE stack' = WithTop(left) /\ UNCHANGED <<pending, next>>
                /\ UNCHANGED crit
        /\ UNCHANGED <<inIrq, invoke, free, handler, heap, faults, calls>>

LeaveCritical == LeaveFrom("code")

\* A leave that leaves a reschedule asked for meanwhile to the next trap.
FinishLeaveUnchecked ==
    /\ At("leave")
    /\ crit' = 0
    /\ intr' = Top.was
    /\ Goto("code")
    /\ UNCHANGED <<inIrq, invoke, entries, faults, calls>>

FinishLeave ==
    /\ At("leave")
    /\ crit' = 0
    /\ IF inIrq = 0 THEN CheckInvokeScheduler ELSE UNCHANGED invoke
    /\ intr' = Top.was
    /\ Goto("code")
    /\ UNCHANGED <<inIrq, entries, faults, calls>>

-----------------------------------------------------------------------------
(* Deferred calls                                                           *)

\* deferred_call_queue: ScopedCritical, and the head of the pool in
\* deferred_call_get_free, or a new entry.
Queue ==
    /\ At("code")
    /\ QueuesMasked => ~intr
    /\ Kind({"drain"}) => CallsQueue
    /\ queued + Cardinality({i \in DOMAIN stack : stack[i].entry # Null}) < MaxCalls
    /\ crit' = crit + 1
    /\ \/ /\ free # Null
          /\ stack' = WithTop([Top EXCEPT !.held = @ + 1, !.at = "got", !.entry = free])
          /\ UNCHANGED heap
       \/ \E e \in HeapEntry \ heap :
             /\ free = Null
             /\ heap' = heap \union {e}
             /\ stack' = WithTop([Top EXCEPT !.held = @ + 1, !.at = "own", !.entry = e])
    /\ UNCHANGED <<intr, inIrq, invoke, free, pending, next, handler, faults, calls>>

\* The pool's new head: entry->next is read, then stored.
GetFreeNext ==
    /\ At("got")
    /\ stack' = WithTop([Top EXCEPT !.at = "step", !.read = next[Top.entry]])
    /\ UNCHANGED <<levels, entries, faults, calls>>

GetFreeStore ==
    /\ At("step")
    /\ free' = Top.read
    /\ stack' = WithTop([Top EXCEPT !.at = "own", !.read = Null])
    /\ UNCHANGED <<levels, pending, next, handler, heap, faults, calls>>

\* handler_value() = move(callback), and deferred_call_queue_entry up to its store.
QueueEntryLink ==
    /\ At("own")
    /\ next' = [next EXCEPT ![Top.entry] = pending]
    /\ handler' = [handler EXCEPT ![Top.entry] = queued + 1]
    /\ queued' = queued + 1
    /\ nested' = IF Kind({"drain"}) THEN nested \union {queued + 1} ELSE nested
    /\ Goto("linked")
    /\ UNCHANGED <<levels, free, pending, heap, faults, ran>>

\* The store of m_pending_deferred_calls, and the end of the ScopedCritical.
QueueEntryStore ==
    /\ At("linked")
    /\ pending' = Top.entry
    /\ stack' = WithTop([Top EXCEPT !.at = "queued", !.entry = Null])
    /\ UNCHANGED <<levels, free, next, handler, heap, faults, calls>>

QueueLeave == LeaveFrom("queued")

\* execute_pending calls invoke_handler; the drain's context is then the call's.
InvokeHandler ==
    /\ At("run")
    /\ ran' = Append(ran, handler[Top.todo])
    /\ Goto("code")
    /\ UNCHANGED <<levels, entries, faults, queued, nested>>

\* The entry goes back to the pool or the heap; next is what it is after that.
AdvanceTo(e) ==
    stack' = IF e = Null THEN Front(stack)
             ELSE WithTop([Top EXCEPT !.at = "run", !.todo = e])

\* A drain that follows next when deferred_call_return_to_pool has overwritten it.
HandlerReturnsStale ==
    /\ At("code") /\ Kind({"drain"}) /\ Top.held = 0
    /\ LET e == Top.todo
       IN  /\ handler' = [handler EXCEPT ![e] = Empty]
           /\ IF e \in HeapEntry
              THEN heap' = heap \ {e} /\ UNCHANGED <<next, free>>
              ELSE /\ next' = [next EXCEPT ![e] = free]
                   /\ free' = e
                   /\ UNCHANGED heap
           /\ AdvanceTo(next'[e])
    /\ UNCHANGED <<levels, pending, faults, calls>>

HandlerReturns ==
    /\ At("code") /\ Kind({"drain"}) /\ Top.held = 0
    /\ LET e == Top.todo
       IN  /\ handler' = [handler EXCEPT ![e] = Empty]
           /\ IF e \in HeapEntry
              THEN heap' = heap \ {e} /\ UNCHANGED <<next, free>>
              ELSE /\ next' = [next EXCEPT ![e] = free]
                   /\ free' = e
                   /\ UNCHANGED heap
           /\ AdvanceTo(next[e])
    /\ UNCHANGED <<levels, pending, faults, calls>>

-----------------------------------------------------------------------------
(* What the code of a context does besides.                                 *)

\* An InterruptDisabler of a thread, or of an exception that interrupted one.
DisableInterrupts ==
    /\ At("code") /\ intr
    /\ intr' = FALSE
    /\ UNCHANGED <<inIrq, crit, invoke, entries, stack, faults, calls>>

EnableInterrupts ==
    /\ At("code") /\ ~intr
    /\ Kind({"thread", "fault"}) /\ Top.flags
    /\ intr' = TRUE
    /\ UNCHANGED <<inIrq, crit, invoke, entries, stack, faults, calls>>

\* Scheduler code of a handler or a thread sets m_invoke_scheduler_async.
InvokeSchedulerAsync ==
    /\ At("code") /\ ~invoke
    /\ invoke' = TRUE
    /\ UNCHANGED <<intr, inIrq, crit, entries, stack, faults, calls>>

-----------------------------------------------------------------------------

\* The instructions inside the functions above.
Step ==
    \/ FinishExit \/ FinishLeave
    \/ GetFreeNext \/ GetFreeStore \/ QueueEntryLink \/ QueueEntryStore \/ QueueLeave
    \/ InvokeHandler

Next ==
    \/ EnterTrapIrq \/ EnterTrapNoIrq \/ ExitTrap
    \/ EnterCritical \/ LeaveCritical
    \/ Queue \/ HandlerReturns
    \/ DisableInterrupts \/ EnableInterrupts \/ InvokeSchedulerAsync
    \/ Step

Spec == Init /\ [][Next]_vars

\* What a thread or an exception does, which interrupts may come between.
Interruptible(A) == Kind({"thread", "fault"}) /\ A

\* The processor executes instructions; a timer keeps interrupting the code that
\* lets it; handlers, calls and exceptions return, critical sections are left and
\* interrupts enabled again by the code that entered or disabled them, however
\* often it is interrupted.
FairSpec ==
    /\ Spec
    /\ WF_vars(Step) /\ SF_vars(Interruptible(Step))
    /\ WF_vars(LeaveCritical) /\ SF_vars(Interruptible(LeaveCritical))
    /\ SF_vars(Kind({"irq"}) /\ ExitTrap) /\ SF_vars(Kind({"fault"}) /\ ExitTrap)
    /\ SF_vars(HandlerReturns)
    /\ SF_vars(EnableInterrupts) /\ SF_vars(EnterTrapIrq)

-----------------------------------------------------------------------------

TypeOK ==
    /\ intr \in BOOLEAN
    /\ inIrq \in 0..MaxDepth
    /\ crit \in Nat
    /\ invoke \in BOOLEAN
    /\ free \in PoolEntry \union {Null}
    /\ pending \in Entry \union {Null}
    /\ next \in [Entry -> Entry \union {Null}]
    /\ handler \in [Entry -> Call \union {Empty}]
    /\ heap \subseteq HeapEntry
    /\ stack # <<>>
    /\ \A i \in DOMAIN stack :
        stack[i] \in [kind : Kinds, at : Labels, flags : BOOLEAN, was : BOOLEAN,
                      prev : 0..MaxDepth, held : 0..MaxHeld + 1,
                      entry : Entry \union {Null}, read : PoolEntry \union {Null},
                      todo : Entry \union {Null}]
    /\ faults \in 0..MaxFaults
    /\ queued \in 0..MaxCalls
    /\ nested \subseteq Call
    /\ ran \in Seq(Call)

Contexts(S) == {i \in DOMAIN stack : stack[i].kind \in S}

\* The critical sections a context is in: those it has entered, one for exit_trap
\* itself, and one for the leave under way until its drain is done.
Sections(x) == x.held + (IF x.at \in {"exit", "leave"} THEN 1 ELSE 0)

\* The level a trap found comes back with exit_trap, whatever ran in between:
\* m_in_irq counts the interrupt handlers on the stack that have not begun to
\* leave, m_in_critical the sections of every context, as do_leave_critical
\* VERIFYs after its drain.
LevelsBalanced ==
    /\ inIrq = Cardinality({i \in Contexts({"irq"}) : stack[i].at # "exit"})
    /\ crit = Cardinality(UNION {{i} \X (1..Sections(stack[i])) : i \in DOMAIN stack})

\* Where the entries are: the pool, the pending list, the lists that drains work
\* on, and the contexts that fill one.
Filling(x) == IF x.at \in {"own", "linked"} THEN <<x.entry>> ELSE <<>>
Lists == <<Chain(free), Chain(pending)>> \o
         [i \in DOMAIN stack |-> Chain(stack[i].todo) \o Filling(stack[i])]
Places(lists, e) == {p \in (DOMAIN lists) \X (1..PoolSize + HeapSize + 1) :
                        p[2] \in DOMAIN lists[p[1]] /\ lists[p[1]][p[2]] = e}

\* Every entry of the pool, and every one on the heap that is not deleted, is in
\* one place, once: none is lost, used twice, or used after delete.
EntriesConserved ==
    LET lists == Lists
    IN  \A e \in Entry :
            Cardinality(Places(lists, e)) = IF e \in PoolEntry \union heap THEN 1 ELSE 0

Calls(list) == [i \in DOMAIN list |-> handler[list[i]]]
Ascending(s) == \A i, j \in DOMAIN s : i < j => s[i] < s[j]

\* No call is run twice, and each drain runs its calls in the order of
\* deferred_call_queue, though the pending list is a stack.
RunOnceInOrder ==
    /\ IsInjective(ran)
    /\ \A i \in DOMAIN stack :
          LET waiting == Calls(Chain(stack[i].todo))
          IN  /\ Ascending(waiting)
              /\ stack[i].at = "run" =>
                    \A k \in DOMAIN waiting, r \in DOMAIN ran : waiting[k] # ran[r]

\* Function::operator() VERIFYs that it has something to call, of every entry that
\* execute_pending invokes.
HandlerCallable == At("run") => handler[Top.todo] # Empty

\* No context below the running one is in a critical section, handles an
\* interrupt, or is in the middle of a list of calls.
Quiet ==
    /\ inIrq = 0 /\ Contexts({"drain"}) = {}
    /\ \A i \in DOMAIN stack : stack[i].held = 0

\* The scheduler, which may switch threads, is entered only when that interrupts
\* nothing that must not be: the comment in exit_trap about critical sections
\* entered and left within it.
SchedulerOnlyWhenQuiet == [][invoke /\ ~invoke' => Quiet]_vars

\* Code outside critical sections and interrupt handlers finds no deferred call
\* pending, but for one that a deferred call has queued: the NOTE at
\* deferred_call_queue.
NothingLeftOutside ==
    At("code") /\ crit = 0 /\ inIrq = 0 => Calls(Chain(pending)) \in Seq(nested)

\* exit_trap: the drain "ensures that any pending thread unblocks happen before we
\* enter the scheduler".
PendingRunBeforeScheduler == [][invoke /\ ~invoke' => pending = Null]_vars

\* Every deferred call that is queued is run: a call left to a context that never
\* drains would keep the two counts apart.
QueuedCallsRun == queued > Len(ran) ~> queued = Len(ran)

\* A reschedule that is asked for happens, though it is asked for in the middle of
\* an interrupt or a critical section.
RequestIsServed == invoke ~> ~invoke
=============================================================================
