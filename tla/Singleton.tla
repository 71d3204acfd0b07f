------------------------------ MODULE Singleton ------------------------------
(***************************************************************************)
(* AK/Singleton.h as the kernel builds it: get, called by threads that     *)
(* the scheduler of their processor preempts.  The cell m_obj is null,     *)
(* 0x1 while somebody creates the object, or the object.                   *)
(***************************************************************************)
EXTENDS TLAPS

CONSTANTS CPU,      \* the processors, each the set of the threads it runs
          NoThread  \* nobody; also the null pointer, as an object is named
                    \* for the thread that created it

Thread == UNION CPU
home == [t \in Thread |-> CHOOSE c \in CPU : t \in c]

ASSUME SingletonAssumption ==
    /\ \A c, d \in CPU : c \cap d # {} => c = d
    /\ NoThread \notin Thread

Null == NoThread
Creating == "0x1"
ASSUME CreatingAssumption == Creating \notin Thread \union {Null}

VARIABLES
    cell,     \* Singleton::m_obj
    created,  \* the objects that InitFunction has finished
    obj,      \* get's local, and what it returned last
    create,   \* get<true>, which creates the object, or get<false>
    pc,       \* where each thread is in get
    running   \* the thread each processor runs

vars == <<cell, created, obj, create, pc, running>>

Value == Thread \union {Null, Creating}

\* A thread outside get is at "out", or at "done" once get has returned to it.
Labels == {"out", "load", "cas", "init", "publish", "wait", "done"}

Init ==
    /\ cell = Null
    /\ created = {}
    /\ obj = [t \in Thread |-> Null]
    /\ create = [t \in Thread |-> TRUE]
    /\ pc = [t \in Thread |-> "out"]
    /\ running \in [CPU -> Thread \union {NoThread}]
    /\ \A c \in CPU : running[c] # NoThread => home[running[c]] = c

At(t, l) == running[home[t]] = t /\ pc[t] = l
Goto(t, l) == pc' = [pc EXCEPT ![t] = l]

\* A critical section only around the wait.
InCriticalLate(t) == pc[t] = "wait"

\* ScopedCritical covers everything from the first look at a cell that is not
\* set: m_in_critical keeps the scheduler away.
InCritical(t) == pc[t] \in {"cas", "init", "publish", "wait"}

-----------------------------------------------------------------------------

Call(t, c) ==
    /\ At(t, "out") \/ At(t, "done")
    /\ create' = [create EXCEPT ![t] = c]
    /\ Goto(t, "load")
    /\ UNCHANGED <<cell, created, obj, running>>

\* A get that takes whatever is not null.
LoadTakesAnything(t) ==
    /\ At(t, "load")
    /\ obj' = [obj EXCEPT ![t] = cell]
    /\ Goto(t, IF cell # Null THEN "done" ELSE "cas")
    /\ UNCHANGED <<cell, created, create, running>>

Load(t) ==
    /\ At(t, "load")
    /\ obj' = [obj EXCEPT ![t] = cell]
    /\ Goto(t, IF cell \notin {Null, Creating} THEN "done" ELSE "cas")
    /\ UNCHANGED <<cell, created, create, running>>

\* A test of the local and a plain store of 0x1.
StoreCreating(t) ==
    /\ At(t, "cas")
    /\ IF create[t] /\ obj[t] = Null
       THEN cell' = Creating /\ Goto(t, "init") /\ UNCHANGED obj
       ELSE Goto(t, "wait") /\ UNCHANGED <<cell, obj>>
    /\ UNCHANGED <<created, create, running>>

\* compare_exchange_strong stores the cell into obj when it fails.
Cas(t) ==
    /\ At(t, "cas")
    /\ IF create[t] /\ obj[t] = Null
       THEN IF cell = Null
            THEN cell' = Creating /\ Goto(t, "init") /\ UNCHANGED obj
            ELSE obj' = [obj EXCEPT ![t] = cell] /\ Goto(t, "wait") /\ UNCHANGED cell
       ELSE Goto(t, "wait") /\ UNCHANGED <<cell, obj>>
    /\ UNCHANGED <<created, create, running>>

InitFunction(t) ==
    /\ At(t, "init")
    /\ created' = created \union {t}
    /\ obj' = [obj EXCEPT ![t] = t]
    /\ Goto(t, "publish")
    /\ UNCHANGED <<cell, create, running>>

Publish(t) ==
    /\ At(t, "publish")
    /\ cell' = obj[t]
    /\ Goto(t, "done")
    /\ UNCHANGED <<created, obj, create, running>>

\* The loop: wait_check and load again while the local is 0x1.
Wait(t) ==
    /\ At(t, "wait")
    /\ IF obj[t] = Creating
       THEN obj' = [obj EXCEPT ![t] = cell] /\ UNCHANGED pc
       ELSE Goto(t, "done") /\ UNCHANGED obj
    /\ UNCHANGED <<cell, created, create, running>>

\* The scheduler of a processor runs another of its threads, or none.
Preempt(c, t) ==
    /\ running[c] # NoThread => ~InCritical(running[c])
    /\ t = NoThread \/ (t \in Thread /\ home[t] = c)
    /\ running' = [running EXCEPT ![c] = t]
    /\ UNCHANGED <<cell, created, obj, create, pc>>

Get(t) == Load(t) \/ Cas(t) \/ InitFunction(t) \/ Publish(t) \/ Wait(t)

Next ==
    \/ \E t \in Thread, c \in BOOLEAN : Call(t, c)
    \/ \E t \in Thread : Get(t)
    \/ \E c \in CPU, t \in Thread \union {NoThread} : Preempt(c, t)

Spec == Init /\ [][Next]_vars

\* The scheduler runs every thread again and again, and one that it runs, or
\* cannot preempt, executes its instructions.
FairSpec ==
    /\ Spec
    /\ \A t \in Thread : SF_vars(Get(t)) /\ SF_vars(Preempt(home[t], t))

-----------------------------------------------------------------------------

TypeOK ==
    /\ cell \in Value
    /\ created \subseteq Thread
    /\ obj \in [Thread -> Value]
    /\ create \in [Thread -> BOOLEAN]
    /\ pc \in [Thread -> Labels]
    /\ running \in [CPU -> Thread \union {NoThread}]

\* One thread creates the object, whatever the others have read of the cell and
\* wherever they were preempted.
CreatedOnce ==
    \A t, u \in Thread :
        pc[t] \in {"init", "publish"} \/ t \in created =>
            (pc[u] \in {"init", "publish"} \/ u \in created => t = u)

\* What get returns is the finished object, never 0x1; null only to a get<false>
\* that came before it: the two VERIFYs at its end.
ReturnsObject ==
    \A t \in Thread : pc[t] = "done" =>
        obj[t] \in created \/ (obj[t] = Null /\ ~create[t])

\* Every get returns: a thread that waits in a critical section does not keep
\* the one that creates the object from its processor.
EveryGetReturns == \A t \in Thread : pc[t] = "load" ~> pc[t] = "done"

-----------------------------------------------------------------------------
(* get creates one object and returns it, for any threads and processors    *)
(* and whenever the scheduler preempts.  What makes it so is what the cell  *)
(* and the locals say of the creator: while one runs the cell is 0x1        *)
(* (Cell), what a thread has read stays true of a cell that never returns   *)
(* to null (Local).                                                         *)

Creator(t) == pc[t] \in {"init", "publish"}

\* The cell tells what has been created.
Cell ==
    /\ cell = Null => created = {}
    /\ cell \in Thread => created = {cell}
    /\ cell = Creating => \A t \in created : pc[t] = "publish"
    /\ \A t \in Thread : Creator(t) => cell = Creating

OneCreator ==
    /\ \A t, u \in Thread : Creator(t) /\ Creator(u) => t = u
    /\ \A t \in Thread :
          /\ pc[t] = "init" => created = {}
          /\ pc[t] = "publish" => created = {t} /\ obj[t] = t

\* What a thread has read.
Local ==
    \A t \in Thread :
        /\ obj[t] \in Thread => obj[t] \in created
        /\ obj[t] = Creating => cell # Null
        /\ pc[t] = "wait" /\ obj[t] = Null => ~create[t]
        /\ pc[t] = "done" => obj[t] \in created \/ (obj[t] = Null /\ ~create[t])

IInv == TypeOK /\ Cell /\ OneCreator /\ Local

\* Neither null nor 0x1 is an object, and they differ.
LEMMA Distinct == Null \notin Thread /\ Creating \notin Thread /\ Creating # Null
BY SingletonAssumption, CreatingAssumption DEF Null

LEMMA InitIInv == Init => IInv
BY Distinct DEF Init, IInv, TypeOK, Cell, OneCreator, Local, Creator, Value, Labels

LEMMA CallStep ==
    ASSUME IInv, NEW t \in Thread, NEW c \in BOOLEAN, Call(t, c)
    PROVE  IInv'
BY Distinct DEF IInv, TypeOK, Cell, OneCreator, Local, Creator, Value, Labels, Call, Goto, At

LEMMA LoadStep ==
    ASSUME IInv, NEW t \in Thread, Load(t)
    PROVE  IInv'
BY Distinct DEF IInv, TypeOK, Cell, OneCreator, Local, Creator, Value, Labels, Load, Goto, At

LEMMA CasStep ==
    ASSUME IInv, NEW t \in Thread, Cas(t)
    PROVE  IInv'
BY Distinct DEF IInv, TypeOK, Cell, OneCreator, Local, Creator, Value, Labels, Cas, Goto, At

LEMMA InitFunctionStep ==
    ASSUME IInv, NEW t \in Thread, InitFunction(t)
    PROVE  IInv'
BY Distinct DEF IInv, TypeOK, Cell, OneCreator, Local, Creator, Value, Labels, InitFunction, Goto, At

LEMMA PublishStep ==
    ASSUME IInv, NEW t \in Thread, Publish(t)
    PROVE  IInv'
BY Distinct DEF IInv, TypeOK, Cell, OneCreator, Local, Creator, Value, Labels, Publish, Goto, At

LEMMA WaitStep ==
    ASSUME IInv, NEW t \in Thread, Wait(t)
    PROVE  IInv'
BY Distinct DEF IInv, TypeOK, Cell, OneCreator, Local, Creator, Value, Labels, Wait, Goto, At

LEMMA PreemptStep ==
    ASSUME IInv, NEW c \in CPU, NEW t \in Thread \union {NoThread}, Preempt(c, t)
    PROVE  IInv'
BY Distinct DEF IInv, TypeOK, Cell, OneCreator, Local, Creator, Value, Preempt

\* The invariant holds in every state of get, whoever runs and is preempted.
THEOREM Inductive == Spec => []IInv
<1>1. Init => IInv
    BY InitIInv
<1>2. IInv /\ [Next]_vars => IInv'
    <2> SUFFICES ASSUME IInv, [Next]_vars PROVE IInv'
        OBVIOUS
    <2>1. ASSUME NEW t \in Thread, NEW c \in BOOLEAN, Call(t, c) PROVE IInv'
        BY <2>1, CallStep
    <2>2. ASSUME NEW t \in Thread, Get(t) PROVE IInv'
        BY <2>2, LoadStep, CasStep, InitFunctionStep, PublishStep, WaitStep DEF Get
    <2>3. ASSUME NEW c \in CPU, NEW t \in Thread \union {NoThread}, Preempt(c, t) PROVE IInv'
        BY <2>3, PreemptStep
    <2>4. CASE UNCHANGED vars
        BY <2>4 DEF vars, IInv, TypeOK, Cell, OneCreator, Local, Creator
    <2> QED BY <2>1, <2>2, <2>3, <2>4 DEF Next
<1> QED BY <1>1, <1>2, PTL DEF Spec

\* m_obj and the locals of get keep their types.
THEOREM TypeCorrect == Spec => []TypeOK
<1>1. IInv => TypeOK
    BY DEF IInv
<1> QED BY <1>1, Inductive, PTL

\* InitFunction runs once, for any number of threads that call get.
THEOREM CreatesOnce == Spec => []CreatedOnce
<1>1. IInv => CreatedOnce
    <2> SUFFICES ASSUME IInv, NEW t \in Thread, NEW u \in Thread,
                        Creator(t) \/ t \in created, Creator(u) \/ u \in created
                 PROVE  t = u
        BY DEF CreatedOnce, Creator
    <2>1. CASE Creator(t)
        BY <2>1 DEF IInv, OneCreator, Creator
    <2>2. CASE Creator(u)
        BY <2>2 DEF IInv, OneCreator, Creator
    <2>3. CASE t \in created /\ u \in created
        BY <2>3, Distinct DEF IInv, TypeOK, Value, Cell, OneCreator, Creator
    <2> QED BY <2>1, <2>2, <2>3
<1> QED BY <1>1, Inductive, PTL

\* get returns the finished object, or null to a get<false>: its VERIFYs hold.
THEOREM Returns == Spec => []ReturnsObject
<1>1. IInv => ReturnsObject
    BY DEF IInv, Local, ReturnsObject
<1> QED BY <1>1, Inductive, PTL
=============================================================================
