------------------------------ MODULE Spinlocks ------------------------------
(***************************************************************************)
(* Kernel/Arch/x86/common/SpinLock.cpp: a Spinlock and a RecursiveSpinlock *)
(* used by the thread and the interrupt handler of every processor.  What  *)
(* makes them work is the order of four things: the saved interrupt flag,  *)
(* the critical section, cli, and the atomic exchange.                     *)
(*                                                                         *)
(* track_lock_acquire enforces an order of ranks, so a context takes the   *)
(* Spinlock while it holds nothing, and the RecursiveSpinlock while it     *)
(* holds nothing, the Spinlock, or the RecursiveSpinlock itself; a         *)
(* SpinlockLocker releases in the opposite order.                          *)
(***************************************************************************)
EXTENDS Integers, FiniteSets

CONSTANTS CPU,        \* the processors
          NoCPU,      \* the null owner of a RecursiveSpinlock
          MaxNesting  \* bound: locks one context holds or acquires at a time

ASSUME SpinlocksAssumption == MaxNesting \in Nat /\ NoCPU \notin CPU

\* A context is the code of a thread, or the interrupt handler on top of it.
Ctx == CPU \X {"thread", "irq"}
Thread(c) == <<c, "thread">>
Handler(c) == <<c, "irq">>

VARIABLES
    lockP,      \* Spinlock::m_lock, 0 or 1
    lockR,      \* RecursiveSpinlock::m_lock, the owner's Processor* or NoCPU
    recursions, \* RecursiveSpinlock::m_recursions
    intr,       \* IF, the interrupt flag of each processor
    crit,       \* m_in_critical of each processor
    inIrq,      \* the processor runs its interrupt handler
    pc,         \* where each context is inside lock or unlock
    depth,      \* how many prev_flags each context has on its stack
    saved,      \* those prev_flags
    holdsP,     \* the context is between lock and unlock of the Spinlock
    holdsR      \* and how many times inside the RecursiveSpinlock

vars == <<lockP, lockR, recursions, intr, crit, inIrq, pc, depth, saved, holdsP, holdsR>>
locks == <<lockP, lockR, recursions, holdsP, holdsR>>

Labels == {"out", "p_enter", "p_cli", "p_exchange", "r_cli", "r_enter", "r_cas",
           "leave", "restore"}

Init ==
    /\ lockP = 0
    /\ lockR = NoCPU
    /\ recursions = 0
    /\ intr = [c \in CPU |-> TRUE]
    /\ crit = [c \in CPU |-> 0]
    /\ inIrq = [c \in CPU |-> FALSE]
    /\ pc = [x \in Ctx |-> "out"]
    /\ depth = [x \in Ctx |-> 0]
    /\ saved = [x \in Ctx |-> [d \in 1..MaxNesting |-> FALSE]]
    /\ holdsP = [x \in Ctx |-> FALSE]
    /\ holdsR = [x \in Ctx |-> 0]

Cpu(x) == x[1]

\* The context its processor executes: the handler while there is one.
Active(x) == x[2] = "irq" <=> inIrq[Cpu(x)]

At(x, l) == Active(x) /\ pc[x] = l
Goto(x, l) == pc' = [pc EXCEPT ![x] = l]

\* prev_flags = cpu_flags()
SaveFlags(x) ==
    /\ depth[x] < MaxNesting
    /\ depth' = [depth EXCEPT ![x] = @ + 1]
    /\ saved' = [saved EXCEPT ![x][depth[x] + 1] = intr[Cpu(x)]]

SetIF(x, on) == intr' = [intr EXCEPT ![Cpu(x)] = on]

-----------------------------------------------------------------------------
(* Spinlock                                                                 *)

LockP(x) ==
    /\ At(x, "out")
    /\ depth[x] = 0
    /\ SaveFlags(x)
    /\ Goto(x, "p_enter")
    /\ UNCHANGED <<locks, intr, crit, inIrq>>

\* A lock that forgets the critical section its unlock leaves.
NoEnterP(x) ==
    /\ At(x, "p_enter")
    /\ Goto(x, "p_cli")
    /\ UNCHANGED <<locks, intr, crit, inIrq, depth, saved>>

EnterP(x) ==
    /\ At(x, "p_enter")
    /\ crit' = [crit EXCEPT ![Cpu(x)] = @ + 1]
    /\ Goto(x, "p_cli")
    /\ UNCHANGED <<locks, intr, inIrq, depth, saved>>

\* A lock that leaves interrupts on; the handler then spins on its own thread.
NoCliP(x) ==
    /\ At(x, "p_cli")
    /\ Goto(x, "p_exchange")
    /\ UNCHANGED <<locks, intr, crit, inIrq, depth, saved>>

CliP(x) ==
    /\ At(x, "p_cli")
    /\ SetIF(x, FALSE)
    /\ Goto(x, "p_exchange")
    /\ UNCHANGED <<locks, crit, inIrq, depth, saved>>

\* A test followed by a store that another processor's store can fall between.
ExchangeBlind(x) ==
    /\ At(x, "p_exchange")
    /\ lockP' = 1
    /\ holdsP' = [holdsP EXCEPT ![x] = TRUE]
    /\ Goto(x, "out")
    /\ UNCHANGED <<lockR, recursions, holdsR, intr, crit, inIrq, depth, saved>>

\* A spin on the value just written instead of the one it replaced.
ExchangeRereads(x) ==
    /\ At(x, "p_exchange")
    /\ lockP' = 1
    /\ UNCHANGED <<lockR, recursions, holdsP, holdsR, intr, crit, inIrq, pc, depth, saved>>

\* exchange(1): with the lock taken, wait_check and try again.
ExchangeP(x) ==
    /\ At(x, "p_exchange")
    /\ lockP' = 1
    /\ IF lockP = 0
       THEN holdsP' = [holdsP EXCEPT ![x] = TRUE] /\ Goto(x, "out")
       ELSE UNCHANGED <<holdsP, pc>>
    /\ UNCHANGED <<lockR, recursions, holdsR, intr, crit, inIrq, depth, saved>>

\* UnlockVerifies states the VERIFYs of both unlocks.
UnlockP(x) ==
    /\ At(x, "out")
    /\ holdsP[x] /\ holdsR[x] = 0
    /\ lockP' = 0
    /\ holdsP' = [holdsP EXCEPT ![x] = FALSE]
    /\ Goto(x, "leave")
    /\ UNCHANGED <<lockR, recursions, holdsR, intr, crit, inIrq, depth, saved>>

-----------------------------------------------------------------------------
(* RecursiveSpinlock                                                        *)

LockR(x) ==
    /\ At(x, "out")
    /\ SaveFlags(x)
    /\ Goto(x, "r_cli")
    /\ UNCHANGED <<locks, intr, crit, inIrq>>

CliR(x) ==
    /\ At(x, "r_cli")
    /\ SetIF(x, FALSE)
    /\ Goto(x, "r_enter")
    /\ UNCHANGED <<locks, crit, inIrq, depth, saved>>

EnterR(x) ==
    /\ At(x, "r_enter")
    /\ crit' = [crit EXCEPT ![Cpu(x)] = @ + 1]
    /\ Goto(x, "r_cas")
    /\ UNCHANGED <<locks, intr, inIrq, depth, saved>>

CasR(x) ==
    /\ At(x, "r_cas")
    /\ IF lockR \in {NoCPU, Cpu(x)}
       THEN /\ lockR' = Cpu(x)
            /\ recursions' = recursions + 1
            /\ holdsR' = [holdsR EXCEPT ![x] = @ + 1]
            /\ Goto(x, "out")
       ELSE UNCHANGED <<lockR, recursions, holdsR, pc>>
    /\ UNCHANGED <<lockP, holdsP, intr, crit, inIrq, depth, saved>>

\* An unlock that frees the lock at the first of several unlocks.
UnlockREarly(x) ==
    /\ At(x, "out")
    /\ holdsR[x] > 0
    /\ recursions' = recursions - 1
    /\ lockR' = NoCPU
    /\ holdsR' = [holdsR EXCEPT ![x] = @ - 1]
    /\ Goto(x, "leave")
    /\ UNCHANGED <<lockP, holdsP, intr, crit, inIrq, depth, saved>>

UnlockR(x) ==
    /\ At(x, "out")
    /\ holdsR[x] > 0
    /\ recursions' = recursions - 1
    /\ lockR' = IF recursions = 1 THEN NoCPU ELSE lockR
    /\ holdsR' = [holdsR EXCEPT ![x] = @ - 1]
    /\ Goto(x, "leave")
    /\ UNCHANGED <<lockP, holdsP, intr, crit, inIrq, depth, saved>>

-----------------------------------------------------------------------------
(* The end of both unlocks.                                                 *)

\* leave_critical runs with interrupts disabled; here it only counts.
Leave(x) ==
    /\ At(x, "leave")
    /\ crit' = [crit EXCEPT ![Cpu(x)] = @ - 1]
    /\ Goto(x, "restore")
    /\ UNCHANGED <<locks, intr, inIrq, depth, saved>>

\* An unlock that always enables interrupts.
RestoreAlwaysOn(x) ==
    /\ At(x, "restore")
    /\ SetIF(x, TRUE)
    /\ depth' = [depth EXCEPT ![x] = @ - 1]
    /\ Goto(x, "out")
    /\ UNCHANGED <<locks, crit, inIrq, saved>>

Restore(x) ==
    /\ At(x, "restore")
    /\ SetIF(x, saved[x][depth[x]])
    /\ depth' = [depth EXCEPT ![x] = @ - 1]
    /\ Goto(x, "out")
    /\ UNCHANGED <<locks, crit, inIrq, saved>>

-----------------------------------------------------------------------------
(* The processor takes an interrupt when IF is set, and iret sets it again. *)

Interrupt(c) ==
    /\ intr[c] /\ ~inIrq[c]
    /\ intr' = [intr EXCEPT ![c] = FALSE]
    /\ inIrq' = [inIrq EXCEPT ![c] = TRUE]
    /\ UNCHANGED <<locks, crit, pc, depth, saved>>

InterruptReturn(c) ==
    /\ inIrq[c]
    /\ pc[Handler(c)] = "out" /\ depth[Handler(c)] = 0
    /\ intr' = [intr EXCEPT ![c] = TRUE]
    /\ inIrq' = [inIrq EXCEPT ![c] = FALSE]
    /\ UNCHANGED <<locks, crit, pc, depth, saved>>

-----------------------------------------------------------------------------

\* What lock and unlock do once called.
Inside(x) ==
    \/ EnterP(x) \/ CliP(x) \/ ExchangeP(x)
    \/ CliR(x) \/ EnterR(x) \/ CasR(x)
    \/ Leave(x) \/ Restore(x)

Next ==
    \/ \E x \in Ctx : LockP(x) \/ UnlockP(x) \/ LockR(x) \/ UnlockR(x) \/ Inside(x)
    \/ \E c \in CPU : Interrupt(c) \/ InterruptReturn(c)

Spec == Init /\ [][Next]_vars

\* Each processor executes the instructions of lock and unlock; when the
\* caller unlocks is up to the caller.
FairSpec == Spec /\ \A x \in Ctx : WF_vars(Inside(x))

-----------------------------------------------------------------------------

TypeOK ==
    /\ lockP \in {0, 1}
    /\ lockR \in CPU \union {NoCPU}
    /\ recursions \in Nat
    /\ intr \in [CPU -> BOOLEAN]
    /\ crit \in [CPU -> Nat]
    /\ inIrq \in [CPU -> BOOLEAN]
    /\ pc \in [Ctx -> Labels]
    /\ depth \in [Ctx -> 0..MaxNesting]
    /\ saved \in [Ctx -> [1..MaxNesting -> BOOLEAN]]
    /\ holdsP \in [Ctx -> BOOLEAN]
    /\ holdsR \in [Ctx -> Nat]

\* One context holds the Spinlock, and one the RecursiveSpinlock, however
\* often: not even the handler above the thread that holds it enters.
MutualExclusion ==
    \A x, y \in Ctx :
        /\ holdsP[x] /\ holdsP[y] => x = y
        /\ holdsR[x] > 0 /\ holdsR[y] > 0 => x = y

\* While it holds or spins on a lock a context is not interrupted, so a handler
\* never waits for the code it interrupted: IF is off on its processor and no
\* handler is stacked above it.
NotInterruptedWhileHolding ==
    \A x \in Ctx :
        holdsP[x] \/ holdsR[x] > 0 \/ pc[x] \in {"p_exchange", "r_cas"} =>
            Active(x) /\ ~intr[Cpu(x)]

\* How many critical sections a context is in: one per prev_flags it holds, but
\* for the lock it has not entered yet or the unlock that has left.
Sections(x) ==
    IF pc[x] \in {"p_enter", "r_cli", "r_enter", "restore"} THEN depth[x] - 1 ELSE depth[x]

\* The last unlock leaves the processor as the first lock found it: interrupts
\* back on in a thread and still off in a handler, m_in_critical balanced.
LeavesAsFound ==
    /\ \A c \in CPU : crit[c] = Sections(Thread(c)) + Sections(Handler(c))
    /\ \A x \in Ctx : At(x, "out") /\ depth[x] = 0 => (intr[Cpu(x)] <=> x[2] = "thread")

\* What unlock VERIFYs of the lock its caller holds: is_locked(), m_recursions > 0
\* and m_lock == current, whatever the other contexts did since lock.
UnlockVerifies ==
    \A x \in Ctx :
        /\ holdsP[x] => lockP = 1
        /\ holdsR[x] > 0 => recursions > 0 /\ lockR = Cpu(x)

\* A free Spinlock that somebody spins on is taken, by whoever comes first.
FreeLockIsTaken ==
    (lockP = 0 /\ \E x \in Ctx : pc[x] = "p_exchange") ~> (\E x \in Ctx : holdsP[x])
=============================================================================
