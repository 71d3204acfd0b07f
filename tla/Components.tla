----------------------------- MODULE Components -----------------------------
(* The owners of AK and the devices of the kernel, each a state machine of *)
(* one object: subject says which one obj is.  MC_components adds the      *)
(* containers and the streams.                                             *)
EXTENDS Naturals, FiniteSets

CONSTANTS NullPointer, Counted, Sole, RefSlot, OwnSlot,           \* OwningPointers
          NoAlternative, Callable, Alternative, MaxNesting,       \* Callables
          Unfilled, Buffer, Octet, InlineCapacity, MaxSize, MaxPiece, \* ByteBuffers
          Irq, Device,                                            \* DeviceInterrupts
          Half, Interval, MaxDelay, MaxCount,                     \* SystemTimer
          Processor, Waker, MaxIdles                              \* IdleProcessors

\* A null pointer is no object, no callable and no variable.
ASSUME OwningAssumption ==
    /\ NullPointer \notin Counted \union Sole \union OwnSlot /\ Counted \intersect Sole = {}
    /\ IsFiniteSet(Counted) /\ IsFiniteSet(Sole) /\ IsFiniteSet(RefSlot)
ASSUME HolderAssumption == NullPointer \notin Callable /\ NoAlternative \notin Alternative /\ Alternative # {}
ASSUME BuffersAssumption == IsFiniteSet(Buffer) /\ {InlineCapacity, MaxSize, MaxPiece} \subseteq Nat
\* A call or an interrupt is done before the next interrupt is due, and an interval (a second, in
\* init.cpp) is less than the low half counts: 2 ^ 32 microseconds.
ASSUME TimerAssumption ==
    /\ {Half, Interval, MaxDelay} \subseteq Nat
    /\ MaxDelay < Interval /\ Interval < Half
\* With one processor there is nobody to wake.
ASSUME IdlersAssumption == IsFiniteSet(Processor) /\ Cardinality(Processor) >= 2

VARIABLES subject, obj

Owning == INSTANCE OwningPointers WITH owned <- obj, Null <- NullPointer
Holder == INSTANCE Callables WITH holder <- obj, Null <- NullPointer, Empty <- NoAlternative
Buffers == INSTANCE ByteBuffers WITH buffers <- obj, Value <- Octet, Unset <- Unfilled
Interrupts == INSTANCE DeviceInterrupts WITH irqs <- obj
Timer == INSTANCE SystemTimer WITH timer <- obj
Idlers == INSTANCE IdleProcessors WITH idle <- obj

-----------------------------------------------------------------------------
OwnersInit ==
    \/ subject = "owning" /\ Owning!Init
    \/ subject = "holder" /\ Holder!Init
    \/ subject = "buffers" /\ Buffers!Init
OwnersNext ==
    /\ UNCHANGED subject
    /\ \/ subject = "owning" /\ Owning!Next
       \/ subject = "holder" /\ Holder!Next
       \/ subject = "buffers" /\ Buffers!Next
OwnersSpec == OwnersInit /\ [][OwnersNext]_<<subject, obj>>

DevicesInit ==
    \/ subject = "interrupts" /\ Interrupts!Init
    \/ subject = "timer" /\ Timer!Init
    \/ subject = "idlers" /\ Idlers!Init
DevicesNext ==
    /\ UNCHANGED subject
    /\ \/ subject = "interrupts" /\ Interrupts!Next
       \/ subject = "timer" /\ Timer!Next
       \/ subject = "idlers" /\ Idlers!Next
DevicesSpec == DevicesInit /\ [][DevicesNext]_<<subject, obj>>

-----------------------------------------------------------------------------
\* What is counted, owned or allocated lives as long as it is held and no longer: pointers,
\* functions and variants, heap blocks.
OwnedAndReleased ==
    /\ subject = "owning" => Owning!CountIsHolders /\ Owning!NothingDangles /\ Owning!NothingLeaks
    /\ subject = "holder" => Holder!RunningIsAlive /\ Holder!CallablesOwned /\ Holder!StorageMatches
    /\ subject = "buffers" => Buffers!BlocksOwned

\* No interrupt, tick or wake-up is lost or sent twice: the table of device interrupts, the system
\* timer and the idle processors.
DevicesServed ==
    /\ subject = "interrupts" => Interrupts!HandlersReached /\ Interrupts!RaisedIsServed
    /\ subject = "timer" => Timer!TimeIsNow /\ Timer!NextMatchAhead
    /\ subject = "idlers" => Idlers!OneMessageEach /\ Idlers!OverwakesOneTurn
=============================================================================
