---------------------------- MODULE SmpMessaging ----------------------------
(***************************************************************************)
(* Inter-processor messages of Kernel/Arch/x86/common/Processor.cpp: the   *)
(* lock-free pool of messages, the lock-free queue of each processor, the  *)
(* reference count that tells when a message has been handled everywhere,  *)
(* and the inter-processor interrupts.  Each atomic operation of the code  *)
(* is a step of its own; what a processor does between two of them touches *)
(* only what it owns and is part of a step.                                *)
(*                                                                         *)
(* A call runs with interrupts disabled (capture_stack_trace calls         *)
(* smp_unicast holding a Spinlock, which clears IF), so a processor takes  *)
(* an interrupt only between calls.                                        *)
(***************************************************************************)
EXTENDS Integers, Sequences, SequencesExt, FiniteSets

CONSTANTS NumCPU,     \* Processor::count()
          PoolSize,   \* messages in the pool (the code allocates 100 per processor)
          MaxCalls,   \* bound: calls each processor makes
          Kinds,      \* the calls made: "flush", "sync", "async"
          MayHalt     \* whether a processor may call halt()

ASSUME SmpAssumption ==
    /\ NumCPU \in Nat /\ NumCPU >= 2
    /\ PoolSize \in Nat \ {0}
    /\ MaxCalls \in Nat
    /\ Kinds \subseteq {"flush", "sync", "async"}
    /\ MayHalt \in BOOLEAN

CPU == 0 .. (NumCPU - 1)
Msg == 1 .. PoolSize
Null == 0

VARIABLES
    pool,      \* s_message_pool: the first free message
    next,      \* ProcessorMessage::next of each message
    refs,      \* ProcessorMessage::refs
    async,     \* ProcessorMessage::async
    body,      \* the callback or the range to flush: whose call, and which
    queue,     \* m_message_queue of each processor, last message posted first
    ipi,       \* an interrupt is pending at the local APIC
    haltReq,   \* m_halt_requested
    pc,        \* where each processor is
    back,      \* where it goes when smp_process_pending_messages returns
    kind,      \* the call it is making
    to,        \* the targets of that call
    left,      \* the targets a for_each has yet to reach
    need,      \* need_broadcast, or that the unicast target needs an interrupt
    msg,       \* the message the call owns
    snap,      \* smp_get_from_pool's msg; smp_return_to_pool's next
    nxt,       \* smp_get_from_pool's msg->next
    batch,     \* messages taken from the queue and still to process
    cur,       \* cur_msg
    isAsync,   \* is_async, cached before the count is dropped
    ran,       \* history: the requests each processor has carried out
    calls      \* history: the calls each processor has started

shared == <<pool, next, refs, async, body, queue, ipi, haltReq>>
callRegs == <<kind, to, left, need, msg>>
poolRegs == <<snap, nxt>>
procRegs == <<batch, cur, isAsync>>
history == <<ran, calls>>
vars == <<shared, pc, back, callRegs, poolRegs, procRegs, history>>

Request(c) == <<c, calls[c]>>
NoRequest == <<0, 0>>

Labels == {"idle", "load", "next", "pop", "fill", "enqueue", "ipi", "wait",
           "link", "push", "exchange", "run", "drop", "check",
           "haltStore", "haltIpi", "halted"}

\* The state smp_enable leaves: all messages chained in the pool, no call yet.
Init ==
    /\ pool = 1
    /\ next = [m \in Msg |-> IF m < PoolSize THEN m + 1 ELSE Null]
    /\ refs = [m \in Msg |-> 0]
    /\ async = [m \in Msg |-> FALSE]
    /\ body = [m \in Msg |-> NoRequest]
    /\ queue = [c \in CPU |-> <<>>]
    /\ ipi = [c \in CPU |-> FALSE]
    /\ haltReq = [c \in CPU |-> FALSE]
    /\ pc = [c \in CPU |-> "idle"]
    /\ back = [c \in CPU |-> "idle"]
    /\ kind = [c \in CPU |-> "none"]
    /\ to = [c \in CPU |-> {}]
    /\ left = [c \in CPU |-> {}]
    /\ need = [c \in CPU |-> FALSE]
    /\ msg = [c \in CPU |-> Null]
    /\ snap = [c \in CPU |-> Null]
    /\ nxt = [c \in CPU |-> Null]
    /\ batch = [c \in CPU |-> <<>>]
    /\ cur = [c \in CPU |-> Null]
    /\ isAsync = [c \in CPU |-> FALSE]
    /\ ran = [c \in CPU |-> {}]
    /\ calls = [c \in CPU |-> 0]

Goto(c, l) == pc' = [pc EXCEPT ![c] = l]

\* Enter smp_process_pending_messages, to come back to l.
Process(c, l) == Goto(c, "exchange") /\ back' = [back EXCEPT ![c] = l]

-----------------------------------------------------------------------------
(* The calls: flush_tlb's broadcast, smp_unicast, halt.                     *)

Begin(c, k, targets) ==
    /\ pc[c] = "idle"
    /\ k \in Kinds
    /\ calls[c] < MaxCalls
    /\ calls' = [calls EXCEPT ![c] = @ + 1]
    /\ kind' = [kind EXCEPT ![c] = k]
    /\ to' = [to EXCEPT ![c] = targets]
    /\ left' = [left EXCEPT ![c] = targets]
    /\ Goto(c, "load")
    /\ UNCHANGED <<shared, back, need, msg, poolRegs, procRegs, ran>>

FlushTlb(c) == Begin(c, "flush", CPU \ {c})
Unicast(c) == \E d \in CPU \ {c}, k \in {"sync", "async"} : Begin(c, k, {d})

\* A get that does not look for an empty pool.
LoadUnchecked(c) ==
    /\ pc[c] = "load"
    /\ snap' = [snap EXCEPT ![c] = pool]
    /\ Goto(c, "next")
    /\ UNCHANGED <<shared, back, callRegs, nxt, procRegs, history>>

\* smp_get_from_pool: with no free message, serve one's own queue and retry.
LoadPool(c) ==
    /\ pc[c] = "load"
    /\ IF pool = Null
       THEN Process(c, "load") /\ UNCHANGED snap
       ELSE /\ snap' = [snap EXCEPT ![c] = pool]
            /\ Goto(c, "next")
            /\ UNCHANGED back
    /\ UNCHANGED <<shared, callRegs, nxt, procRegs, history>>

ReadNext(c) ==
    /\ pc[c] = "next"
    /\ nxt' = [nxt EXCEPT ![c] = next[snap[c]]]
    /\ Goto(c, "pop")
    /\ UNCHANGED <<shared, back, callRegs, snap, procRegs, history>>

\* A pop that does not compare: what the compare_exchange is there to prevent.
PopUnchecked(c) ==
    /\ pc[c] = "pop"
    /\ pool' = nxt[c]
    /\ msg' = [msg EXCEPT ![c] = snap[c]]
    /\ Goto(c, "fill")
    /\ snap' = [snap EXCEPT ![c] = Null]
    /\ nxt' = [nxt EXCEPT ![c] = Null]
    /\ UNCHANGED <<next, refs, async, body, queue, ipi, haltReq, back, kind, to, left,
                   need, procRegs, history>>

Pop(c) ==
    /\ pc[c] = "pop"
    /\ IF pool = snap[c]
       THEN /\ pool' = nxt[c]
            /\ msg' = [msg EXCEPT ![c] = snap[c]]
            /\ Goto(c, "fill")
       ELSE Goto(c, "load") /\ UNCHANGED <<pool, msg>>
    /\ snap' = [snap EXCEPT ![c] = Null]
    /\ nxt' = [nxt EXCEPT ![c] = Null]
    /\ UNCHANGED <<next, refs, async, body, queue, ipi, haltReq, back, kind, to, left,
                   need, procRegs, history>>

\* The references a message starts with; all processors, the sender included, is one too many.
AllProcessors(c) == NumCPU
InitialRefs(c) == Cardinality(to[c])

Fill(c) ==
    /\ pc[c] = "fill"
    /\ async' = [async EXCEPT ![msg[c]] = (kind[c] = "async")]
    /\ body' = [body EXCEPT ![msg[c]] = Request(c)]
    /\ refs' = [refs EXCEPT ![msg[c]] = InitialRefs(c)]
    /\ Goto(c, "enqueue")
    /\ UNCHANGED <<pool, next, queue, ipi, haltReq, back, callRegs, poolRegs, procRegs, history>>

\* need_broadcast, when a later target that is busy resets what an idle one asked for.
LastAnswer(c, d) == queue[d] = <<>>
WasEmpty(c, d) == need[c] \/ queue[d] = <<>>

\* One round of for_each: smp_enqueue_message's compare_exchange that succeeds.
\* After the last one an asynchronous message belongs to its targets.
Enqueue(c) ==
    /\ pc[c] = "enqueue"
    /\ \E d \in left[c] :
          /\ \A e \in left[c] : d <= e
          /\ need' = [need EXCEPT ![c] = WasEmpty(c, d)]
          /\ queue' = [queue EXCEPT ![d] = <<msg[c]>> \o @]
          /\ left' = [left EXCEPT ![c] = @ \ {d}]
          /\ IF left[c] = {d} THEN Goto(c, "ipi") ELSE UNCHANGED pc
          /\ msg' = [msg EXCEPT ![c] = IF left[c] = {d} /\ kind[c] = "async" THEN Null ELSE @]
    /\ UNCHANGED <<pool, next, refs, async, body, ipi, haltReq, back, kind, to,
                   poolRegs, procRegs, history>>

\* The APIC interrupts the targets if one of them had an empty queue; a flush
\* then invalidates its own range, and an asynchronous call returns.
SendIpi(c) ==
    /\ pc[c] = "ipi"
    /\ ipi' = [d \in CPU |-> ipi[d] \/ (need[c] /\ d \in to[c])]
    /\ need' = [need EXCEPT ![c] = FALSE]
    /\ ran' = [ran EXCEPT ![c] = IF kind[c] = "flush" THEN @ \union {Request(c)} ELSE @]
    /\ IF kind[c] = "async"
       THEN /\ Goto(c, "idle")
            /\ kind' = [kind EXCEPT ![c] = "none"]
            /\ to' = [to EXCEPT ![c] = {}]
       ELSE Goto(c, "wait") /\ UNCHANGED <<kind, to>>
    /\ UNCHANGED <<pool, next, refs, async, body, queue, haltReq, back, left, msg,
                   poolRegs, procRegs, calls>>

\* A wait that does not serve its own queue.
WaitSpins(c) ==
    /\ pc[c] = "wait"
    /\ IF refs[msg[c]] = 0
       THEN Goto(c, "link")
       ELSE UNCHANGED pc
    /\ UNCHANGED <<shared, back, callRegs, poolRegs, procRegs, history>>

\* The loop of smp_broadcast_wait_sync and smp_unicast_message.
Wait(c) ==
    /\ pc[c] = "wait"
    /\ IF refs[msg[c]] = 0
       THEN Goto(c, "link") /\ UNCHANGED back
       ELSE Process(c, "wait")
    /\ UNCHANGED <<shared, callRegs, poolRegs, procRegs, history>>

-----------------------------------------------------------------------------
(* smp_return_to_pool, by a synchronous sender for its own message or by    *)
(* the last processor to handle an asynchronous one.                        *)

Returned(c) == IF cur[c] # Null THEN cur[c] ELSE msg[c]

Link(c) ==
    /\ pc[c] = "link"
    /\ next' = [next EXCEPT ![Returned(c)] = snap[c]]
    /\ Goto(c, "push")
    /\ UNCHANGED <<pool, refs, async, body, queue, ipi, haltReq, back, callRegs, poolRegs,
                   procRegs, history>>

Push(c) ==
    /\ pc[c] = "push"
    /\ IF pool = snap[c]
       THEN /\ pool' = Returned(c)
            /\ snap' = [snap EXCEPT ![c] = Null]
            /\ IF cur[c] # Null
               THEN Goto(c, "check") /\ UNCHANGED <<kind, to, msg>>
               ELSE /\ Goto(c, "idle")
                    /\ kind' = [kind EXCEPT ![c] = "none"]
                    /\ to' = [to EXCEPT ![c] = {}]
                    /\ msg' = [msg EXCEPT ![c] = Null]
       ELSE /\ snap' = [snap EXCEPT ![c] = pool]
            /\ Goto(c, "link")
            /\ UNCHANGED <<pool, kind, to, msg>>
    /\ UNCHANGED <<next, refs, async, body, queue, ipi, haltReq, back, left, need, nxt,
                   procRegs, history>>

-----------------------------------------------------------------------------
(* smp_process_pending_messages                                             *)

\* The order the batch is processed in; the queue's own is last in, first out.
AsPulled(q) == q
InOrder(q) == Reverse(q)

\* The empty case forgets to look at m_halt_requested.
ExchangeIgnoresHalt(c) ==
    /\ pc[c] = "exchange"
    /\ IF queue[c] = <<>>
       THEN Goto(c, back[c]) /\ UNCHANGED <<queue, batch>>
       ELSE /\ queue' = [queue EXCEPT ![c] = <<>>]
            /\ batch' = [batch EXCEPT ![c] = InOrder(queue[c])]
            /\ Goto(c, "run")
    /\ UNCHANGED <<pool, next, refs, async, body, ipi, haltReq, back, callRegs, poolRegs,
                   cur, isAsync, history>>

Exchange(c) ==
    /\ pc[c] = "exchange"
    /\ IF queue[c] = <<>>
       THEN /\ Goto(c, IF haltReq[c] THEN "halted" ELSE back[c])
            /\ UNCHANGED <<queue, batch>>
       ELSE /\ queue' = [queue EXCEPT ![c] = <<>>]
            /\ batch' = [batch EXCEPT ![c] = InOrder(queue[c])]
            /\ Goto(c, "run")
    /\ UNCHANGED <<pool, next, refs, async, body, ipi, haltReq, back, callRegs, poolRegs,
                   cur, isAsync, history>>

\* next_msg is read before the request is carried out, and async after it.
Run(c) ==
    /\ pc[c] = "run"
    /\ LET m == Head(batch[c]) IN
          /\ cur' = [cur EXCEPT ![c] = m]
          /\ ran' = [ran EXCEPT ![c] = @ \union {body[m]}]
          /\ isAsync' = [isAsync EXCEPT ![c] = async[m]]
    /\ batch' = [batch EXCEPT ![c] = Tail(@)]
    /\ Goto(c, "drop")
    /\ UNCHANGED <<shared, back, callRegs, poolRegs, calls>>

\* Whether this processor must return the message; a code that forgets leaks it.
NeverReturns(c) == FALSE
LastOfAsync(c) == refs[cur[c]] = 1 /\ isAsync[c]

Drop(c) ==
    /\ pc[c] = "drop"
    /\ refs' = [refs EXCEPT ![cur[c]] = @ - 1]
    /\ Goto(c, IF LastOfAsync(c) THEN "link" ELSE "check")
    /\ UNCHANGED <<pool, next, async, body, queue, ipi, haltReq, back, callRegs, poolRegs,
                   procRegs, history>>

Check(c) ==
    /\ pc[c] = "check"
    /\ cur' = [cur EXCEPT ![c] = Null]
    /\ isAsync' = [isAsync EXCEPT ![c] = FALSE]
    /\ Goto(c, IF haltReq[c] THEN "halted"
               ELSE IF batch[c] = <<>> THEN back[c] ELSE "run")
    /\ UNCHANGED <<shared, back, callRegs, poolRegs, batch, history>>

-----------------------------------------------------------------------------
(* Interrupts, taken between calls, and halting.                            *)

\* exit_trap after the inter-processor interrupt.
TakeIpi(c) ==
    /\ pc[c] = "idle"
    /\ ipi[c]
    /\ ipi' = [ipi EXCEPT ![c] = FALSE]
    /\ Process(c, "idle")
    /\ UNCHANGED <<pool, next, refs, async, body, queue, haltReq, callRegs, poolRegs,
                   procRegs, history>>

\* exit_trap after any other trap processes the queue as well.
OtherTrap(c) ==
    /\ pc[c] = "idle"
    /\ Process(c, "idle")
    /\ UNCHANGED <<shared, callRegs, poolRegs, procRegs, history>>

\* halt(): smp_broadcast_halt marks every processor, itself included, in order.
Halt(c) ==
    /\ MayHalt
    /\ pc[c] = "idle"
    /\ left' = [left EXCEPT ![c] = CPU]
    /\ Goto(c, "haltStore")
    /\ UNCHANGED <<shared, back, kind, to, need, msg, poolRegs, procRegs, history>>

HaltStore(c) ==
    /\ pc[c] = "haltStore"
    /\ \E d \in left[c] :
          /\ \A e \in left[c] : d <= e
          /\ haltReq' = [haltReq EXCEPT ![d] = TRUE]
          /\ left' = [left EXCEPT ![c] = @ \ {d}]
          /\ IF left[c] = {d} THEN Goto(c, "haltIpi") ELSE UNCHANGED pc
    /\ UNCHANGED <<pool, next, refs, async, body, queue, ipi, back, kind, to, need, msg,
                   poolRegs, procRegs, history>>

HaltIpi(c) ==
    /\ pc[c] = "haltIpi"
    /\ ipi' = [d \in CPU |-> ipi[d] \/ d # c]
    /\ Goto(c, "halted")
    /\ UNCHANGED <<pool, next, refs, async, body, queue, haltReq, back, callRegs, poolRegs,
                   procRegs, history>>

-----------------------------------------------------------------------------

\* What a processor does next by itself, once a call or an interrupt began.
Step(c) ==
    \/ LoadPool(c) \/ ReadNext(c) \/ Pop(c) \/ Fill(c) \/ Enqueue(c) \/ SendIpi(c)
    \/ Wait(c) \/ Link(c) \/ Push(c)
    \/ Exchange(c) \/ Run(c) \/ Drop(c) \/ Check(c)
    \/ HaltStore(c) \/ HaltIpi(c)

Next == \E c \in CPU :
    \/ FlushTlb(c) \/ Unicast(c) \/ Halt(c)
    \/ TakeIpi(c) \/ OtherTrap(c)
    \/ Step(c)

Spec == Init /\ [][Next]_vars

\* A running processor executes its next instruction, and takes a pending
\* interrupt although other traps and calls come in between.
Fairness == \A c \in CPU : WF_vars(Step(c)) /\ SF_vars(TakeIpi(c))
FairSpec == Spec /\ Fairness

-----------------------------------------------------------------------------

TypeOK ==
    /\ pool \in Msg \union {Null}
    /\ next \in [Msg -> Msg \union {Null}]
    /\ refs \in [Msg -> Int]
    /\ async \in [Msg -> BOOLEAN]
    /\ body \in [Msg -> CPU \X (0..MaxCalls)]
    /\ queue \in [CPU -> Seq(Msg)]
    /\ ipi \in [CPU -> BOOLEAN] /\ haltReq \in [CPU -> BOOLEAN]
    /\ pc \in [CPU -> Labels] /\ back \in [CPU -> {"idle", "load", "wait"}]
    /\ kind \in [CPU -> Kinds \union {"none"}]
    /\ to \in [CPU -> SUBSET CPU] /\ left \in [CPU -> SUBSET CPU]
    /\ need \in [CPU -> BOOLEAN]
    /\ msg \in [CPU -> Msg \union {Null}]
    /\ snap \in [CPU -> Msg \union {Null}] /\ nxt \in [CPU -> Msg \union {Null}]
    /\ batch \in [CPU -> Seq(Msg)]
    /\ cur \in [CPU -> Msg \union {Null}] /\ isAsync \in [CPU -> BOOLEAN]
    /\ ran \in [CPU -> SUBSET (CPU \X (0..MaxCalls))]
    /\ calls \in [CPU -> 0..MaxCalls]

\* A set of messages that holds the head of the list and, with a message, the next one.
FollowsList(F) ==
    /\ pool \in F \union {Null}
    /\ \A m \in F : next[m] \in F \union {Null}

\* The messages of the free list: those its head leads to.
Free == {m \in Msg : \A F \in SUBSET Msg : FollowsList(F) => m \in F}

\* The processors that have yet to give up their reference to m.
Outstanding(m) ==
    {c \in CPU :
        \/ m \in ToSet(queue[c]) \union ToSet(batch[c])
        \/ cur[c] = m /\ pc[c] = "drop"
        \/ \E s \in CPU : pc[s] = "enqueue" /\ msg[s] = m /\ c \in left[s]}

\* The processors that may write m: its sender, or the last to handle it.
Holders(m) ==
    {c \in CPU : msg[c] = m \/ (cur[c] = m /\ pc[c] \in {"link", "push"})}

\* Every pointer that a processor follows is one: VERIFY(msg != nullptr) in
\* smp_get_from_pool, and what the rest of the code takes for granted.
NeverFollowsNull ==
    \A c \in CPU :
        /\ pc[c] \in {"next", "pop"} => snap[c] # Null
        /\ pc[c] \in {"fill", "enqueue", "wait"} => msg[c] # Null
        /\ pc[c] = "run" => batch[c] # <<>>
        /\ pc[c] = "drop" => cur[c] # Null
        /\ pc[c] \in {"link", "push"} => Returned(c) # Null

\* No two processors own a message, and none owns one the pool could hand out:
\* what smp_get_from_pool's compare_exchange has to guarantee.
ExclusiveOwnership ==
    \A m \in Msg :
        /\ Cardinality(Holders(m)) <= 1
        /\ m \in Free => Holders(m) = {} /\ Outstanding(m) = {}

\* "The assumption is that messages are never removed from the pool": a message
\* is free, owned, or on its way; forgetting one shrinks the pool for good.
NoMessageLeaked ==
    \A m \in Msg : m \in Free \/ Holders(m) # {} \/ Outstanding(m) # {}

\* The count a synchronous sender spins on is that of the processors still to
\* answer, so fetch_sub never finds zero and the wait ends when all are done.
RefsCountOutstanding ==
    \A m \in Msg : refs[m] = Cardinality(Outstanding(m))

\* An interrupt is sent only when a queue was empty; still no message sits in
\* a queue without an interrupt on its way or a processor about to look.
NoLostWakeup ==
    \A d \in CPU : queue[d] # <<>> =>
        \/ ipi[d] \/ pc[d] \in {"exchange", "halted"}
        \/ \E s \in CPU : pc[s] \in {"enqueue", "ipi"} /\ need[s] /\ d \in to[s]

\* Every call returns, although senders wait for each other, the pool runs dry
\* and processors are interrupted, unless its processor is halted.
CallsReturn == \A c \in CPU : pc[c] = "load" ~> pc[c] \in {"idle", "halted"}

\* "This also checks if another processor may have requested us to halt": one
\* halt() stops every processor, also those spinning for one that is halted.
HaltStopsAll == \A c, d \in CPU : pc[c] = "haltStore" ~> pc[d] = "halted"

-----------------------------------------------------------------------------
(* A processor's inbox is its batch, then its queue; its own flush is no    *)
(* message, and the processors halt has yet to mark are no targets.         *)

Arrived(c) == batch[c] \o Reverse(queue[c])
Inbox(c) == [i \in 1..Len(Arrived(c)) |-> body[Arrived(c)[i]]]

Inboxes == [c \in CPU |-> Inbox(c)]
Served == [c \in CPU |-> {r \in ran[c] : r[1] # c}]
ToPost == [c \in CPU |-> IF kind[c] = "none" THEN {} ELSE left[c]]
Waits == [c \in CPU |-> kind[c] \in {"flush", "sync"}]

Delivery == INSTANCE MessageDelivery WITH
    inbox <- Inboxes, ran <- Served, target <- to, left <- ToPost, sync <- Waits

\* Messages arrive once, in order, and a synchronous call waits for all of them.
DeliverySpec == Delivery!Spec
=============================================================================
