--------------------------- MODULE DevicesProofs ---------------------------
(***************************************************************************)
(* Proofs about the devices of Components: no interrupt, tick or wake-up   *)
(* is lost or sent twice, for every value of the constants.                *)
(*                                                                         *)
(* Interrupts: a device raises one line (OneLine), the handler of a slot   *)
(* calls every device registered for it, or the slot is under the one      *)
(* change that is under way and will have such a handler when it ends      *)
(* (Reached), and whoever is due is behind a bit that handle_interrupt has *)
(* not come to yet, or raised the line whose slot is under change          *)
(* (DueArePending).                                                        *)
(*                                                                         *)
(* Timer: what a call has read of the two halves says where the counter    *)
(* was since the call began (HalvesRead), and the compare register is the  *)
(* next match, or one that is no older than the interrupt's delay          *)
(* (Matching).                                                             *)
(*                                                                         *)
(* Wake-ups: a cleared bit is with the one call whose fetch_and cleared    *)
(* it, so that what is claimed is no longer in the mask (Each), and a call *)
(* asks for the next turn when the last one's messages are sent (Turns).   *)
(***************************************************************************)
EXTENDS Components, Integers, Sequences, FiniteSetTheorems, SequenceTheorems, TLAPS

-----------------------------------------------------------------------------
(* The table of device interrupts                                          *)

Handler == {Interrupts!Empty, Interrupts!Unhandled, Interrupts!Deleted}
               \cup [type : {"irq", "shared"}, calls : SUBSET Device]
SlotChanges == [irq : Irq, to : Seq(Handler) \ {<<>>}]

IrqType ==
    obj \in [slot : [Irq -> Handler], line : [Device -> SUBSET Irq], raising : SUBSET Device,
              change : SUBSET SlotChanges, pending : SUBSET Irq, due : SUBSET Device, halted : BOOLEAN]

OneLine ==
    /\ \A d \in Device, i, j \in Irq : i \in obj.line[d] /\ j \in obj.line[d] => i = j
    /\ \A d \in obj.raising \cup obj.due : obj.line[d] # {}

\* A handler that calls every device registered for line i, and can be called.
Serves(handler, i) ==
    /\ handler \notin {Interrupts!Empty, Interrupts!Deleted}
    /\ \A d \in Device : i \in obj.line[d] => d \in handler.calls
Reached ==
    /\ \A c, e \in obj.change : c = e
    /\ \A c \in obj.change : Serves(c.to[Len(c.to)], c.irq)
    /\ \A i \in Irq : (\E c \in obj.change : c.irq = i) \/ Serves(obj.slot[i], i)

DueArePending == \A d \in obj.due : obj.line[d] \subseteq obj.pending \cup Interrupts!Changing

HaltsInChange == obj.halted => \E i \in obj.pending \cap Interrupts!Changing : \A j \in obj.pending : i <= j

InterruptsInv == IrqType /\ OneLine /\ Reached /\ DueArePending /\ HaltsInChange

LEMMA InterruptsBegin == Interrupts!Init => InterruptsInv
<1> SUFFICES ASSUME Interrupts!Init PROVE InterruptsInv
    OBVIOUS
<1>1. IrqType
    BY DEF Interrupts!Init, IrqType, Handler, Interrupts!NoIrq
<1>2. OneLine /\ DueArePending /\ HaltsInChange
    BY DEF Interrupts!Init, OneLine, DueArePending, HaltsInChange, Interrupts!NoIrq
<1>3. Reached
    BY DEF Interrupts!Init, Reached, Serves, Interrupts!NoIrq, Interrupts!Unhandled, Interrupts!Empty, Interrupts!Deleted
<1> QED BY <1>1, <1>2, <1>3 DEF InterruptsInv

\* Between two interrupts, with no change under way, nobody is due.
LEMMA NoneDue == ASSUME InterruptsInv, ~Interrupts!Serving, obj.change = {} PROVE obj.due = {}
BY DEF InterruptsInv, IrqType, OneLine, DueArePending, Interrupts!Serving, Interrupts!Changing

\* The handlers that can be told apart by their type.
LEMMA HandlerTypes ==
    ASSUME NEW h \in Handler
    PROVE  /\ h.type \in {"irq", "shared", "unhandled"} <=> h \notin {Interrupts!Empty, Interrupts!Deleted}
           /\ h.type = "unhandled" <=> h = Interrupts!Unhandled
           /\ h.calls \subseteq Device
BY DEF Handler, Interrupts!Empty, Interrupts!Deleted, Interrupts!Unhandled

\* A quiet table with one line given to a device, or taken from it, its slot stored, and perhaps a change begun.
TableChange(i, d, now, line, raising, change) ==
    /\ line \in {{}, {i}} /\ raising \subseteq obj.raising /\ (line = {} => d \notin raising)
    /\ change \subseteq SlotChanges /\ (\A c, e \in change : c = e) /\ (\A c \in change : c.irq = i)
    /\ \A handler \in IF change = {} THEN {now} ELSE {c.to[Len(c.to)] : c \in change} :
           /\ handler \notin {Interrupts!Empty, Interrupts!Deleted}
           /\ \A e \in Device \ {d} : i \in obj.line[e] => e \in handler.calls
           /\ line = {i} => d \in handler.calls
    /\ obj' = [obj EXCEPT !.slot[i] = now, !.line[d] = line, !.raising = raising, !.change = change]
    /\ \A j \in obj.line[d] : j = i
LEMMA TableChanges ==
    ASSUME InterruptsInv, Interrupts!Quiet, NEW i \in Irq, NEW d \in Device, NEW now \in Handler,
           NEW line, NEW raising, NEW change, TableChange(i, d, now, line, raising, change)
    PROVE  InterruptsInv'
<1> USE DEF TableChange
<1>1. obj.due = {} /\ obj.pending = {} /\ obj.change = {} /\ ~obj.halted
    BY NoneDue DEF Interrupts!Quiet, Interrupts!Serving, Interrupts!NoIrq
<1>2. IrqType'
    <2>1. line \in SUBSET Irq /\ raising \in SUBSET Device /\ change \in SUBSET SlotChanges
        BY DEF InterruptsInv, IrqType
    <2>2. obj' = [obj EXCEPT !.slot[i] = now, !.line[d] = line, !.raising = raising, !.change = change]
        OBVIOUS
    <2>3. IrqType
        BY DEF InterruptsInv
    <2> HIDE DEF TableChange
    <2> QED BY <2>1, <2>2, <2>3 DEF IrqType
<1>3. OneLine' /\ DueArePending' /\ HaltsInChange'
    BY <1>1 DEF InterruptsInv, IrqType, OneLine, DueArePending, HaltsInChange
<1>4. \A j \in Irq : obj'.slot[j] = IF j = i THEN now ELSE obj.slot[j]
    BY DEF InterruptsInv, IrqType
<1>5. \A e \in Device : obj'.line[e] = IF e = d THEN line ELSE obj.line[e]
    BY DEF InterruptsInv, IrqType
<1>6. obj'.change = change
    BY DEF InterruptsInv, IrqType
<1>7. \A j \in Irq \ {i} : Serves(obj.slot[j], j)'
    <2>1. \A j \in Irq \ {i} : Serves(obj.slot[j], j)
        BY <1>1 DEF InterruptsInv, Reached
    <2> QED BY <1>4, <1>5, <2>1 DEF Serves
<1>8. \A handler \in IF change = {} THEN {now} ELSE {c.to[Len(c.to)] : c \in change} : Serves(handler, i)'
    BY <1>5 DEF Serves
<1>9. (\A c \in obj.change : Serves(c.to[Len(c.to)], c.irq))'
    <2> SUFFICES ASSUME NEW c \in change PROVE Serves(c.to[Len(c.to)], i)'
        BY <1>6
    <2> QED BY <1>8
<1>10. change = {} => Serves(obj.slot[i], i)'
    BY <1>4, <1>8
<1>11. Reached'
    BY <1>6, <1>7, <1>9, <1>10 DEF Reached
<1> QED BY <1>2, <1>3, <1>11 DEF InterruptsInv

LEMMA RegisterKeeps ==
    ASSUME InterruptsInv, NEW d \in Device, NEW i \in Irq, Interrupts!Register(d, i)
    PROVE  InterruptsInv'
<1> DEFINE slot == obj.slot[i]
<1>1. Interrupts!Quiet /\ obj.change = {} /\ obj.line[d] = {} /\ d \notin obj.raising
    BY DEF Interrupts!Register, Interrupts!Quiet, Interrupts!NoIrq, InterruptsInv, IrqType, OneLine
<1>2. slot \in Handler /\ Serves(slot, i)
    BY <1>1 DEF InterruptsInv, IrqType, Reached
<1>3. ASSUME NEW now \in Handler, NEW to \in Seq(Handler) \ {<<>>},
             to[Len(to)] \notin {Interrupts!Empty, Interrupts!Deleted},
             slot.calls \cup {d} \subseteq to[Len(to)].calls,
             obj' = [obj EXCEPT !.slot[i] = now, !.line[d] = {i}, !.change = Interrupts!Through(i, to)]
      PROVE  InterruptsInv'
    <2> DEFINE change == Interrupts!Through(i, to)
    <2>1. /\ change \in SUBSET SlotChanges /\ change # {} /\ \A c, e \in change : c = e
          /\ \A c \in change : c.irq = i /\ c.to = to
        BY <1>3 DEF Interrupts!Through, SlotChanges
    <2>2. obj' = [obj EXCEPT !.slot[i] = now, !.line[d] = {i}, !.raising = obj.raising, !.change = change]
        BY <1>3 DEF InterruptsInv, IrqType
    <2> HIDE DEF change
    <2>3. \A e \in Device : i \in obj.line[e] => e \in to[Len(to)].calls
        BY <1>2, <1>3 DEF Serves
    <2>4. obj.raising \in SUBSET obj.raising /\ {i} \in {{}, {i}} /\ {i} # {}
        OBVIOUS
    <2>5. \A c \in change : c.to[Len(c.to)] = to[Len(to)]
        BY <2>1
    <2>6. TableChange(i, d, now, {i}, obj.raising, change)
        BY <1>1, <1>3, <2>1, <2>2, <2>3, <2>4, <2>5 DEF TableChange
    <2> QED BY <1>1, <2>6, TableChanges
<1>4. CASE slot.type = "unhandled"
    <2> DEFINE own == Interrupts!Own(d)
    <2>1. obj' = [obj EXCEPT !.slot[i] = Interrupts!Deleted, !.line[d] = {i}, !.change = Interrupts!Through(i, <<own>>)]
        BY <1>4 DEF Interrupts!Register
    <2>2. own \in Handler /\ own \notin {Interrupts!Empty, Interrupts!Deleted} /\ d \in own.calls /\ slot.calls = {}
        BY <1>2, <1>4 DEF Interrupts!Own, Handler, Interrupts!Empty, Interrupts!Deleted, Interrupts!Unhandled
    <2> HIDE DEF own
    <2>3. <<own>> \in Seq(Handler) \ {<<>>} /\ <<own>>[Len(<<own>>)] = own /\ Interrupts!Deleted \in Handler
        BY <2>2 DEF Handler
    <2> QED BY <1>3, <2>1, <2>2, <2>3
<1>5. CASE slot.type = "irq"
    <2> DEFINE first == Interrupts!Shared({})
               second == Interrupts!Shared(slot.calls)
               last == Interrupts!Shared(slot.calls \cup {d})
               to == <<first, second, last>>
    <2>1. obj' = [obj EXCEPT !.slot[i] = Interrupts!Empty, !.line[d] = {i}, !.change = Interrupts!Through(i, to)]
        BY <1>5 DEF Interrupts!Register, Interrupts!ThroughShared
    <2>2. {first, second, last, Interrupts!Empty} \subseteq Handler
        BY <1>2, HandlerTypes DEF Interrupts!Shared, Handler
    <2>3. last \notin {Interrupts!Empty, Interrupts!Deleted} /\ last.calls = slot.calls \cup {d}
        BY DEF Interrupts!Shared, Interrupts!Empty, Interrupts!Deleted
    <2> HIDE DEF first, second, last
    <2>4. to \in Seq(Handler) \ {<<>>} /\ to[Len(to)] = last
        BY <2>2
    <2> QED BY <1>3, <2>1, <2>2, <2>3, <2>4
<1>6. CASE slot.type = "shared"
    <2> DEFINE now == Interrupts!Shared(slot.calls \cup {d})
    <2>1. obj' = [obj EXCEPT !.slot[i] = now, !.line[d] = {i}]
        BY <1>6 DEF Interrupts!Register
    <2>2. now \in Handler /\ now \notin {Interrupts!Empty, Interrupts!Deleted} /\ now.calls = slot.calls \cup {d}
        BY <1>2, HandlerTypes DEF Interrupts!Shared, Handler, Interrupts!Empty, Interrupts!Deleted
    <2>3. obj' = [obj EXCEPT !.slot[i] = now, !.line[d] = {i}, !.raising = obj.raising, !.change = {}]
        BY <1>1, <2>1 DEF InterruptsInv, IrqType
    <2> HIDE DEF now
    <2>4. \A e \in Device : i \in obj.line[e] => e \in now.calls
        BY <1>2, <2>2 DEF Serves
    <2>5. TableChange(i, d, now, {i}, obj.raising, {})
        BY <1>1, <2>2, <2>3, <2>4 DEF TableChange
    <2> QED BY <1>1, <2>2, <2>5, TableChanges
<1> QED BY <1>4, <1>5, <1>6 DEF Interrupts!Register

LEMMA UnregisterKeeps ==
    ASSUME InterruptsInv, NEW d \in Device, Interrupts!Unregister(d)
    PROVE  InterruptsInv'
<1>1. PICK i \in obj.line[d] :
          LET slot == obj.slot[i]
              left == slot.calls \ {d}
              gone == [obj EXCEPT !.line[d] = Interrupts!NoIrq, !.raising = @ \ {d}]
          IN  /\ Interrupts!Quiet
              /\ obj' = IF slot.type # "shared" THEN gone
                         ELSE [gone EXCEPT !.slot[i] = Interrupts!Shared(left),
                                           !.change = IF Interrupts!LastLeaves(left)
                                                      THEN Interrupts!Through(i, <<Interrupts!Empty, Interrupts!Unhandled>>)
                                                      ELSE Interrupts!NoIrq]
    BY DEF Interrupts!Unregister
<1> DEFINE slot == obj.slot[i]
           left == slot.calls \ {d}
           last == slot.type = "shared" /\ Interrupts!LastLeaves(left)
           now == IF slot.type # "shared" THEN slot ELSE Interrupts!Shared(left)
           to == <<Interrupts!Empty, Interrupts!Unhandled>>
           change == IF last THEN Interrupts!Through(i, to) ELSE {}
<1>2. Interrupts!Quiet /\ obj.change = {} /\ i \in Irq
    BY <1>1 DEF Interrupts!Quiet, Interrupts!NoIrq, InterruptsInv, IrqType
<1>3. obj' = [obj EXCEPT !.slot[i] = now, !.line[d] = {}, !.raising = obj.raising \ {d}, !.change = change]
    BY <1>1, <1>2 DEF Interrupts!NoIrq, InterruptsInv, IrqType
<1>4. slot \in Handler /\ Serves(slot, i)
    BY <1>2 DEF InterruptsInv, IrqType, Reached
<1>5. now \in Handler /\ now \notin {Interrupts!Empty, Interrupts!Deleted} /\ left \subseteq now.calls
    BY <1>4, HandlerTypes DEF Serves, Interrupts!Shared, Handler, Interrupts!Empty, Interrupts!Deleted
<1>6. last => left = {}
    BY DEF Interrupts!LastLeaves
<1>7. to \in Seq(Handler) \ {<<>>} /\ to[Len(to)] = Interrupts!Unhandled
    <2>1. Interrupts!Unhandled \in Handler /\ Interrupts!Empty \in Handler
        BY DEF Handler
    <2> QED BY <2>1
<1>8. Interrupts!Unhandled \notin {Interrupts!Empty, Interrupts!Deleted}
    BY DEF Interrupts!Unhandled, Interrupts!Empty, Interrupts!Deleted
<1> HIDE DEF to
<1>9. /\ change \in SUBSET SlotChanges /\ \A c, e \in change : c = e
      /\ \A c \in change : last /\ c.irq = i /\ c.to = to
    BY <1>2, <1>7 DEF Interrupts!Through, SlotChanges
<1>10. \A e \in Device \ {d} : i \in obj.line[e] => e \in left
    BY <1>4 DEF Serves
<1>11. \A j \in obj.line[d] : j = i
    BY <1>2 DEF InterruptsInv, IrqType, OneLine
<1> HIDE DEF now, change, last, left
<1>12. \A c \in change : c.to[Len(c.to)] = Interrupts!Unhandled /\ left = {}
    BY <1>6, <1>7, <1>9
<1>13. TableChange(i, d, now, {}, obj.raising \ {d}, change)
    BY <1>3, <1>5, <1>8, <1>9, <1>10, <1>11, <1>12 DEF TableChange
<1> QED BY <1>2, <1>5, <1>13, TableChanges

\* What is left of a sequence ends as the sequence does.
LEMMA TailEnds ==
    ASSUME NEW S, NEW s \in Seq(S) \ {<<>>}
    PROVE  /\ Head(s) \in S
           /\ Len(s) = 1 => s[Len(s)] = Head(s)
           /\ Len(s) # 1 => Tail(s) \in Seq(S) \ {<<>>} /\ Tail(s)[Len(Tail(s))] = s[Len(s)]
<1> DEFINE n == Len(s)
<1>1. n \in Nat /\ n # 0
    OBVIOUS
<1>2. Head(s) \in S /\ (Len(s) = 1 => s[Len(s)] = Head(s))
    OBVIOUS
<1>3. /\ Tail(s) \in Seq(S) /\ Len(Tail(s)) = n - 1
      /\ \A i \in 1 .. n - 1 : Tail(s)[i] = s[i + 1]
    BY HeadTailProperties
<1> DEFINE t == Tail(s)
<1> HIDE DEF n, t
<1>4. ASSUME n # 1 PROVE t \in Seq(S) \ {<<>>} /\ t[Len(t)] = s[n]
    <2>1. n - 1 \in 1 .. n - 1 /\ n - 1 + 1 = n
        BY <1>1, <1>4
    <2>2. t \in Seq(S) /\ Len(t) = n - 1 /\ t[n - 1] = s[n]
        BY <1>3, <2>1 DEF t
    <2>3. Len(<<>>) = 0
        OBVIOUS
    <2> QED BY <2>1, <2>2, <2>3
<1> QED BY <1>2, <1>4 DEF n, t

LEMMA StoreKeeps == ASSUME InterruptsInv, Interrupts!Store PROVE InterruptsInv'
<1>1. PICK c \in obj.change :
          obj' = [obj EXCEPT !.slot[c.irq] = Head(c.to), !.due = {},
                             !.change = IF Len(c.to) = 1 THEN Interrupts!NoIrq ELSE Interrupts!Through(c.irq, Tail(c.to))]
    BY DEF Interrupts!Store
<1> DEFINE ends == c.to[Len(c.to)]
           change == IF Len(c.to) = 1 THEN {} ELSE Interrupts!Through(c.irq, Tail(c.to))
<1>2. ~obj.halted /\ obj.pending = {}
    BY DEF Interrupts!Store, Interrupts!Serving
<1>3. c.irq \in Irq /\ c.to \in Seq(Handler) \ {<<>>} /\ Serves(ends, c.irq) /\ \A e \in obj.change : e = c
    BY DEF InterruptsInv, IrqType, SlotChanges, Reached
<1>4. /\ Head(c.to) \in Handler /\ change \in SUBSET SlotChanges /\ \A e, f \in change : e = f
      /\ \A e \in change : e.irq = c.irq /\ e.to[Len(e.to)] = ends
      /\ change = {} => Head(c.to) = ends
    <2>1. Head(c.to) \in Handler /\ (Len(c.to) = 1 => Head(c.to) = ends)
        BY <1>3, TailEnds
    <2>2. CASE Len(c.to) = 1
        BY <2>1, <2>2
    <2>3. CASE Len(c.to) # 1
        <3> DEFINE rest == Tail(c.to)
        <3>1. rest \in Seq(Handler) \ {<<>>} /\ rest[Len(rest)] = ends
            BY <1>3, <2>3, TailEnds
        <3>2. change = {[irq |-> c.irq, to |-> rest]}
            BY <2>3 DEF Interrupts!Through
        <3> HIDE DEF rest, change, ends
        <3>3. [irq |-> c.irq, to |-> rest] \in SlotChanges
            BY <1>3, <3>1 DEF SlotChanges
        <3>4. \A e \in change : e.irq = c.irq /\ e.to = rest
            BY <3>2
        <3> QED BY <2>1, <3>1, <3>2, <3>3, <3>4
    <2> QED BY <2>2, <2>3
<1>5. obj' = [obj EXCEPT !.slot[c.irq] = Head(c.to), !.due = {}, !.change = change]
    BY <1>1 DEF Interrupts!NoIrq
<1> HIDE DEF change, ends
<1>6. IrqType'
    BY <1>3, <1>4, <1>5 DEF InterruptsInv, IrqType
<1>7. OneLine' /\ DueArePending' /\ HaltsInChange'
    BY <1>2, <1>5 DEF InterruptsInv, IrqType, OneLine, DueArePending, HaltsInChange
<1>8. Reached'
    <2>1. \A j \in Irq : obj'.slot[j] = IF j = c.irq THEN Head(c.to) ELSE obj.slot[j]
        BY <1>5 DEF InterruptsInv, IrqType
    <2>2. obj'.line = obj.line /\ obj'.change = change
        BY <1>5 DEF InterruptsInv, IrqType
    <2>3. \A j \in Irq \ {c.irq} : Serves(obj.slot[j], j)
        BY <1>3 DEF InterruptsInv, Reached
    <2>4. \A j \in Irq \ {c.irq} : Serves(obj.slot[j], j)'
        BY <2>1, <2>2, <2>3 DEF Serves
    <2>5. \A e \in change : Serves(e.to[Len(e.to)], e.irq)
        BY <1>3, <1>4
    <2>6. (\A e \in obj.change : Serves(e.to[Len(e.to)], e.irq))'
        BY <2>2, <2>5 DEF Serves
    <2>7. change = {} => Serves(obj.slot[c.irq], c.irq)'
        BY <1>3, <1>4, <2>1, <2>2 DEF Serves
    <2>8. change # {} => \E e \in change : e.irq = c.irq
        BY <1>4
    <2> QED BY <1>4, <2>2, <2>4, <2>6, <2>7, <2>8 DEF Reached
<1> QED BY <1>6, <1>7, <1>8 DEF InterruptsInv

LEMMA RaiseKeeps == ASSUME InterruptsInv, NEW d \in Device, Interrupts!Raise(d) PROVE InterruptsInv'
<1>1. obj' = [obj EXCEPT !.raising = @ \cup {d}] /\ obj.line[d] # {}
    BY DEF Interrupts!Raise, Interrupts!NoIrq
<1>2. IrqType' /\ OneLine'
    BY <1>1 DEF InterruptsInv, IrqType, OneLine
<1>3. /\ obj'.due = obj.due /\ obj'.line = obj.line /\ obj'.pending = obj.pending /\ obj'.halted = obj.halted
      /\ obj'.change = obj.change /\ obj'.slot = obj.slot
    BY <1>1 DEF InterruptsInv, IrqType
<1>4. Reached' /\ DueArePending' /\ HaltsInChange'
    BY <1>3 DEF InterruptsInv, Reached, Serves, DueArePending, HaltsInChange, Interrupts!Changing
<1> QED BY <1>2, <1>4 DEF InterruptsInv

LEMMA EnterKeeps == ASSUME InterruptsInv, Interrupts!Enter PROVE InterruptsInv'
<1>1. obj' = [obj EXCEPT !.pending = Interrupts!PendingInterrupts, !.due = obj.raising] /\ ~obj.halted
    BY DEF Interrupts!Enter
<1>2. Interrupts!PendingInterrupts \subseteq Irq /\ \A d \in obj.raising : obj.line[d] \subseteq Interrupts!PendingInterrupts
    BY DEF InterruptsInv, IrqType, Interrupts!PendingInterrupts
<1>3. IrqType' /\ OneLine' /\ DueArePending' /\ HaltsInChange'
    BY <1>1, <1>2 DEF InterruptsInv, IrqType, OneLine, DueArePending, HaltsInChange
<1>4. obj'.line = obj.line /\ obj'.change = obj.change /\ obj'.slot = obj.slot
    BY <1>1 DEF InterruptsInv, IrqType
<1>5. Reached'
    BY <1>4 DEF InterruptsInv, Reached, Serves
<1> QED BY <1>3, <1>5 DEF InterruptsInv

LEMMA HandleKeeps == ASSUME InterruptsInv, Interrupts!Handle PROVE InterruptsInv'
<1>1. PICK i \in obj.pending :
          /\ ~obj.halted /\ \A j \in obj.pending : i <= j
          /\ \/ obj.slot[i] \in {Interrupts!Empty, Interrupts!Deleted} /\ obj' = [obj EXCEPT !.halted = TRUE]
             \/ obj' = [obj EXCEPT !.pending = @ \ {i}, !.raising = @ \ Interrupts!Called(obj.slot[i]),
                                   !.due = @ \ Interrupts!Called(obj.slot[i])]
    BY DEF Interrupts!Handle
<1>2. i \in Irq /\ (i \in Interrupts!Changing \/ Serves(obj.slot[i], i))
    BY DEF InterruptsInv, IrqType, Reached, Interrupts!Changing
<1>3. CASE obj.slot[i] \in {Interrupts!Empty, Interrupts!Deleted} /\ obj' = [obj EXCEPT !.halted = TRUE]
    <2>1. i \in Interrupts!Changing
        BY <1>2, <1>3 DEF Serves
    <2>2. /\ obj'.due = obj.due /\ obj'.line = obj.line /\ obj'.pending = obj.pending /\ obj'.raising = obj.raising
          /\ obj'.change = obj.change /\ obj'.slot = obj.slot
        BY <1>3 DEF InterruptsInv, IrqType
    <2>3. HaltsInChange'
        BY <1>1, <2>1, <2>2 DEF HaltsInChange, Interrupts!Changing
    <2>4. IrqType'
        BY <1>3 DEF InterruptsInv, IrqType
    <2>5. OneLine' /\ DueArePending' /\ Reached'
        BY <2>2 DEF InterruptsInv, OneLine, DueArePending, Reached, Serves, Interrupts!Changing
    <2> QED BY <2>3, <2>4, <2>5 DEF InterruptsInv
<1>4. CASE obj' = [obj EXCEPT !.pending = @ \ {i}, !.raising = @ \ Interrupts!Called(obj.slot[i]),
                               !.due = @ \ Interrupts!Called(obj.slot[i])]
    <2> DEFINE called == obj.slot[i].calls
    <2>1. obj' = [obj EXCEPT !.pending = @ \ {i}, !.raising = @ \ called, !.due = @ \ called]
        BY <1>4 DEF Interrupts!Called
    <2>2. i \in Interrupts!Changing \/ \A d \in Device : i \in obj.line[d] => d \in called
        BY <1>2 DEF Serves
    <2> HIDE DEF called
    <2>3. /\ obj'.due = obj.due \ called /\ obj'.line = obj.line /\ obj'.pending = obj.pending \ {i}
          /\ obj'.change = obj.change /\ obj'.slot = obj.slot /\ obj'.halted = obj.halted
        BY <2>1 DEF InterruptsInv, IrqType
    <2>4. IrqType' /\ OneLine'
        BY <2>1 DEF InterruptsInv, IrqType, OneLine
    <2>5. Reached'
        BY <2>3 DEF InterruptsInv, Reached, Serves
    <2>6. DueArePending'
        <3> SUFFICES ASSUME NEW d \in obj'.due, NEW j \in obj'.line[d] PROVE j \in obj'.pending \cup Interrupts!Changing'
            BY DEF DueArePending
        <3>1. d \in obj.due /\ d \notin called /\ d \in Device /\ j \in obj.line[d]
            BY <2>3 DEF InterruptsInv, IrqType
        <3>2. j \in obj.pending \cup Interrupts!Changing /\ Interrupts!Changing' = Interrupts!Changing
            BY <2>3, <3>1 DEF InterruptsInv, DueArePending, Interrupts!Changing
        <3> QED BY <2>2, <2>3, <3>1, <3>2
    <2>7. HaltsInChange'
        BY <1>1, <2>3 DEF HaltsInChange
    <2> QED BY <2>4, <2>5, <2>6, <2>7 DEF InterruptsInv
<1> QED BY <1>1, <1>3, <1>4

LEMMA InterruptsKeep == ASSUME InterruptsInv, [Interrupts!Next]_obj PROVE InterruptsInv'
<1>1. CASE UNCHANGED obj
    BY <1>1 DEF InterruptsInv, IrqType, OneLine, Reached, Serves, DueArePending, HaltsInChange, Interrupts!Changing
<1> QED BY <1>1, RegisterKeeps, UnregisterKeeps, StoreKeeps, RaiseKeeps, EnterKeeps, HandleKeeps DEF Interrupts!Next

LEMMA InterruptsServe == ASSUME InterruptsInv PROVE Interrupts!HandlersReached /\ Interrupts!RaisedIsServed
<1>1. Interrupts!HandlersReached
    BY DEF InterruptsInv, IrqType, Reached, Serves, Interrupts!HandlersReached, Interrupts!Registered, Interrupts!Changing
<1>2. Interrupts!RaisedIsServed
    BY DEF InterruptsInv, DueArePending, HaltsInChange, Interrupts!RaisedIsServed
<1> QED BY <1>1, <1>2

THEOREM InterruptsInvariance == Interrupts!Spec => []InterruptsInv
<1> QED BY InterruptsBegin, InterruptsKeep, PTL DEF Interrupts!Spec

\* Every registered device is called by the handler in its slot, unless that slot is between two of the
\* stores that change it (Interrupts.cpp:52-103), for any number of lines and devices.
THEOREM EveryHandlerReached == Interrupts!Spec => []Interrupts!HandlersReached
<1>1. InterruptsInv => Interrupts!HandlersReached
    BY InterruptsServe
<1> QED BY <1>1, InterruptsInvariance, PTL

\* A device that raised its line before handle_interrupt was entered is called before it returns, and no
\* null or deleted handler is called (Interrupts.cpp:24-38), but for the one line whose slot is between
\* two of the stores that change it: null, deleted, or a shared handler without its handlers.
THEOREM EveryRaisedIsServed == Interrupts!Spec => []Interrupts!RaisedIsServed
<1>1. InterruptsInv => Interrupts!RaisedIsServed
    BY InterruptsServe
<1> QED BY <1>1, InterruptsInvariance, PTL

-----------------------------------------------------------------------------
(* The system timer                                                        *)

TimerCalls == [at : {"idle", "low", "check", "high_again", "low_again", "done", "clear"},
               high : Nat, low : Nat, begun : Nat]
TimerType ==
    obj \in [count : Nat, compare : Nat, matched : BOOLEAN, delay : Nat, current : Nat,
             running : BOOLEAN, call : TimerCalls]

\* A call or an interrupt under way is no older than its delay says, which is bounded.
Delayed ==
    LET call == obj.call
    IN  /\ obj.matched \/ call.at # "idle" => obj.delay <= MaxDelay
        /\ call.at = "idle" => call = Timer!Idle
        /\ call.at \notin {"idle", "clear"} => call.begun <= obj.count /\ obj.count <= call.begun + obj.delay

\* What each half that has been read says of the counter.
HalvesRead ==
    LET call == obj.call
    IN  /\ call.at \in {"low", "check"} => call.high = Timer!High(call.begun)
        /\ call.at = "check" => \E n \in call.begun .. obj.count : call.low = Timer!Low(n)
        /\ call.at \in {"high_again", "low_again"} => Timer!High(call.begun) < Timer!High(obj.count)
        /\ call.at = "low_again" => call.high = Timer!High(obj.count)
        /\ Timer!TimeIsNow

\* The compare register holds the next match, or the last one, which is no older than the delay.
Ahead == \E d \in 1 .. Interval : obj.compare = Timer!Low(obj.count + d)
Since(ticks) == \E m \in 0 .. obj.count : obj.compare = Timer!Low(m + ticks) /\ obj.count <= m + obj.delay
Matching ==
    /\ obj.matched => obj.running
    /\ obj.running => obj.current = obj.compare
    /\ obj.running /\ ~obj.matched => Ahead
    /\ obj.matched /\ obj.call.at # "clear" => Since(0)
    /\ obj.call.at = "clear" => obj.matched /\ Since(Interval)

TimerInv == TimerType /\ Delayed /\ HalvesRead /\ Matching

\* The two halves of a count, and what they say of the halves of a sum.
LEMMA Halves ==
    ASSUME NEW n \in Nat
    PROVE  /\ Timer!High(n) \in Nat /\ Timer!Low(n) \in 0 .. Half - 1
           /\ n = Timer!High(n) * Half + Timer!Low(n)
<1> DEFINE k == Half
<1>1. k \in Nat /\ k > 0
  BY TimerAssumption
<1> HIDE DEF k
<1>2. n \div k \in Nat /\ n % k \in 0 .. k - 1 /\ n = (n \div k) * k + (n % k)
  BY <1>1
<1> QED BY <1>2 DEF k, Timer!High, Timer!Low

LEMMA HighGrows ==
    ASSUME NEW m \in Nat, NEW n \in Nat, m <= n
    PROVE  Timer!High(m) <= Timer!High(n)
<1> DEFINE k == Half
           p == Timer!High(m)
           q == Timer!High(n)
<1>1. k \in Nat /\ k > 0
  BY TimerAssumption
<1>2. p \in Nat /\ q \in Nat /\ p * k <= m /\ n < q * k + k
  BY <1>1, Halves
<1> HIDE DEF k, p, q
<1>3. CASE q < p
  <2>1. q * k + k <= p * k
    <3>1. q + 1 <= p
      BY <1>2, <1>3
    <3>2. (q + 1) * k <= p * k
      BY <1>1, <1>2, <3>1
    <3> QED BY <1>1, <1>2, <3>2
  <2>2. q * k \in Nat /\ p * k \in Nat
    BY <1>1, <1>2
  <2> QED BY <1>1, <1>2, <2>1, <2>2
<1>4. CASE p <= q
  BY <1>4 DEF p, q
<1> QED BY <1>2, <1>3, <1>4

\* Within one turn of the low half the high half changes at most once.
LEMMA OneTurn ==
    ASSUME NEW b \in Nat, NEW m \in Nat, NEW n \in Nat, b <= m, m <= n, n <= b + Half,
           Timer!High(b) < Timer!High(m)
    PROVE  Timer!High(m) = Timer!High(n)
<1> DEFINE k == Half
           p == Timer!High(b)
           q == Timer!High(m)
           r == Timer!High(n)
<1>1. k \in Nat /\ k > 0
  BY TimerAssumption
<1>2. p \in Nat /\ q \in Nat /\ r \in Nat /\ b < p * k + k /\ r * k <= n /\ q <= r
  <2>1. p \in Nat /\ q \in Nat /\ r \in Nat
    BY Halves
  <2>2. b = p * k + Timer!Low(b) /\ Timer!Low(b) \in 0 .. k - 1
    BY Halves
  <2>3. n = r * k + Timer!Low(n) /\ Timer!Low(n) \in 0 .. k - 1
    BY Halves
  <2>4. q <= r
    BY HighGrows
  <2> HIDE DEF k, p, q, r
  <2>5. p * k \in Nat /\ r * k \in Nat
    BY <1>1, <2>1
  <2> QED BY <1>1, <2>1, <2>2, <2>3, <2>4, <2>5
<1>3. p < q /\ n <= b + k
  OBVIOUS
<1> HIDE DEF k, p, q, r
<1>4. r * k < (p + 2) * k
  <2>1. p * k \in Nat /\ r * k \in Nat
    BY <1>1, <1>2
  <2>2. (p + 2) * k = p * k + k + k
    BY <1>1, <1>2
  <2> QED BY <1>1, <1>2, <1>3, <2>1, <2>2
<1>5. r < p + 2
  <2>1. CASE r >= p + 2
    <3>1. r * k >= (p + 2) * k
      BY <1>1, <1>2, <2>1
    <3> QED BY <1>1, <1>2, <1>4, <3>1
  <2> QED BY <1>2, <2>1
<1>6. q = r
  BY <1>2, <1>3, <1>5
<1> QED BY <1>6 DEF q, r

\* Whole turns do not change the low half.
LEMMA WholeTurns ==
    ASSUME NEW k \in Nat, k > 0, NEW x \in Int, NEW y \in Int, \E q \in Int : y = k * q + x
    PROVE  y % k = x % k
<1>1. PICK q \in Int : y = k * q + x
  OBVIOUS
<1> DEFINE p == x \div k
           r == x % k
           s == q + p
<1>2. p \in Int /\ r \in 0 .. k - 1 /\ x = k * p + r
  OBVIOUS
<1>3. s \in Int /\ s = q + p
  BY <1>2
<1> HIDE DEF p, r, s
<1>4. y = k * s + r
  BY <1>1, <1>2, <1>3
<1>5. (k * s + r) % k = r
  BY <1>2, <1>3
<1> QED BY <1>4, <1>5 DEF r

\* The low half of a sum is that of the low half's sum.
LEMMA LowOfSum ==
    ASSUME NEW m \in Nat, NEW n \in Nat
    PROVE  Timer!Low(Timer!Low(m) + n) = Timer!Low(m + n)
<1> DEFINE k == Half
           q == Timer!High(m)
           x == Timer!Low(m) + n
<1>1. k \in Nat /\ k > 0 /\ q \in Nat /\ x \in Nat /\ m + n = q * k + x
  <2>1. k \in Nat /\ k > 0
    BY TimerAssumption
  <2>2. q \in Nat /\ Timer!Low(m) \in 0 .. k - 1 /\ m = q * k + Timer!Low(m)
    BY <2>1, Halves
  <2> HIDE DEF k, q
  <2> QED BY <2>1, <2>2
<1> HIDE DEF k, q, x
<1>2. m + n = k * q + x /\ m + n \in Int /\ x \in Int /\ q \in Int
  BY <1>1
<1>3. x % k = (m + n) % k
  BY <1>1, <1>2, WholeTurns
<1> QED BY <1>3 DEF k, x, Timer!Low

\* Counts less than a turn apart have different low halves.
LEMMA LowDiffers ==
    ASSUME NEW n \in Nat, NEW d \in 1 .. Half - 1
    PROVE  Timer!Low(n + d) # Timer!Low(n) /\ ((Timer!Low(n + d) - n) % Half) = d
<1> DEFINE k == Half
           q == Timer!High(n + d)
<1>1. k \in Nat /\ k > 0 /\ d \in 1 .. k - 1
  BY TimerAssumption
<1>2. q \in Nat /\ n + d = q * k + Timer!Low(n + d) /\ Timer!Low(n + d) \in 0 .. k - 1
  BY <1>1, Halves
<1> DEFINE x == Timer!Low(n + d)
<1> HIDE DEF k, q, x
<1>3. (x - n) % k = d % k
  <2>1. x - n = k * (0 - q) + d /\ 0 - q \in Int /\ x - n \in Int /\ d \in Int
    BY <1>1, <1>2 DEF x
  <2> QED BY <1>1, <2>1, WholeTurns
<1>4. d % k = d
  BY <1>1
<1>5. x # n % k
  <2>1. CASE x = n % k
    <3>1. n = k * (n \div k) + x /\ n \div k \in Nat
      BY <1>1, <2>1
    <3>2. x - n = k * (0 - (n \div k)) /\ 0 - (n \div k) \in Int /\ x - n \in Int
      BY <1>1, <1>2, <3>1 DEF x
    <3> DEFINE s == 0 - (n \div k)
    <3>3. s \in Int /\ x - n = k * s
      BY <3>2
    <3> HIDE DEF s
    <3>4. (k * s) % k = 0
      BY <1>1, <3>3
    <3> QED BY <1>1, <1>3, <1>4, <3>3, <3>4
  <2> QED BY <2>1
<1> QED BY <1>3, <1>4, <1>5 DEF x, k, Timer!Low
LEMMA TimerNumbers ==
    ASSUME TimerInv
    PROVE  /\ obj.count \in Nat /\ obj.compare \in Nat /\ obj.delay \in Nat
           /\ obj.call \in TimerCalls /\ obj.call.high \in Nat /\ obj.call.low \in Nat /\ obj.call.begun \in Nat
BY DEF TimerInv, TimerType, TimerCalls

LEMMA TimerBegins == ASSUME Timer!Init PROVE TimerInv
<1>1. TimerType /\ Delayed /\ obj.call.at = "idle" /\ ~obj.running /\ ~obj.matched
  BY TimerAssumption DEF Timer!Init, Timer!Idle, TimerType, TimerCalls, Delayed
<1> QED BY <1>1 DEF TimerInv, HalvesRead, Matching, Timer!TimeIsNow

\* A step of a call that leaves the counter and the registers alone.
LEMMA CallMoves ==
    ASSUME TimerInv, NEW c \in TimerCalls, obj' = [obj EXCEPT !.call = c],
           obj.call.at \notin {"idle", "clear"}, c.at \notin {"idle", "clear"}, c.begun = obj.call.begun,
           HalvesRead'
    PROVE  TimerInv'
<1>1. /\ obj'.count = obj.count /\ obj'.compare = obj.compare /\ obj'.current = obj.current
      /\ obj'.matched = obj.matched /\ obj'.running = obj.running /\ obj'.delay = obj.delay /\ obj'.call = c
  BY DEF TimerInv, TimerType
<1>2. TimerType'
  BY DEF TimerInv, TimerType
<1>3. Delayed'
  BY <1>1 DEF TimerInv, Delayed
<1>4. Matching'
  BY <1>1 DEF TimerInv, Matching, Ahead, Since
<1> QED BY <1>2, <1>3, <1>4 DEF TimerInv

LEMMA TickKeeps == ASSUME TimerInv, Timer!Tick PROVE TimerInv'
<1> DEFINE n == obj.count + 1
           hits == obj.running /\ Timer!Low(n) = obj.compare
           waits == obj.matched \/ obj.call # Timer!Idle
<1>1. /\ obj'.count = n /\ obj'.compare = obj.compare /\ obj'.current = obj.current
      /\ obj'.matched = (obj.matched \/ hits) /\ obj'.running = obj.running /\ obj'.call = obj.call
      /\ obj'.delay = IF waits THEN obj.delay + 1 ELSE 0
  BY DEF Timer!Tick, TimerInv, TimerType
<1>2. /\ obj.count \in Nat /\ n \in Nat /\ obj.delay \in Nat /\ obj'.delay \in Nat /\ MaxDelay \in Nat
      /\ (waits => obj.delay < MaxDelay) /\ n = obj.count + 1 /\ hits \in BOOLEAN
  BY <1>1, TimerAssumption DEF Timer!Tick, Timer!InTime, TimerInv, TimerType
<1>3. TimerType'
  <2>1. obj' = [obj EXCEPT !.count = n, !.matched = obj.matched \/ hits, !.delay = obj'.delay]
    BY <1>1 DEF Timer!Tick
  <2> HIDE DEF n, hits
  <2>2. (obj.matched \/ hits) \in BOOLEAN
    OBVIOUS
  <2> QED BY <1>2, <2>1, <2>2 DEF TimerInv, TimerType
<1>4. obj.call.at # "idle" => waits
  BY DEF Timer!Idle
<1> HIDE DEF n, hits
<1>5. Delayed'
  <2>1. obj.call.begun \in Nat
    BY TimerNumbers
  <2>2. waits <=> obj.matched \/ obj.call # Timer!Idle
    OBVIOUS
  <2> HIDE DEF waits
  <2>3. obj'.matched \/ obj'.call.at # "idle" => obj'.delay <= MaxDelay
    BY <1>1, <1>2, <1>4, <2>2, TimerAssumption
  <2>4. CASE obj.call.at \notin {"idle", "clear"}
    BY <1>1, <1>2, <1>4, <2>1, <2>3, <2>4 DEF TimerInv, Delayed
  <2>5. CASE obj.call.at \in {"idle", "clear"}
    BY <1>1, <2>3, <2>5 DEF TimerInv, Delayed
  <2> QED BY <2>4, <2>5
<1>6. HalvesRead'
  <2>1. obj.call.begun \in Nat /\ obj.call.high \in Nat /\ obj.call.low \in Nat
    BY TimerNumbers
  <2>2. CASE obj.call.at \in {"high_again", "low_again"}
    <3>1. obj.call.begun <= obj.count /\ n <= obj.call.begun + Half
      <4>1. obj.call.begun <= obj.count /\ obj.count <= obj.call.begun + obj.delay /\ obj.delay < MaxDelay
        BY <1>2, <1>4, <2>2 DEF TimerInv, Delayed
      <4>2. MaxDelay < Half /\ Half \in Nat
        BY TimerAssumption
      <4> QED BY <1>2, <2>1, <4>1, <4>2
    <3>2. Timer!High(obj.count) = Timer!High(n)
      <4>1. Timer!High(obj.call.begun) < Timer!High(obj.count)
        BY <2>2 DEF TimerInv, HalvesRead
      <4>2. obj.count <= n
        BY <1>2
      <4> QED BY <1>2, <2>1, <3>1, <4>1, <4>2, OneTurn
    <3> QED BY <1>1, <2>2, <3>2 DEF TimerInv, HalvesRead, Timer!TimeIsNow
  <2>3. CASE obj.call.at = "done"
    <3>1. Timer!Microseconds' = Timer!Microseconds
      BY <1>1 DEF Timer!Microseconds
    <3>2. Timer!Microseconds \in Nat
      BY <2>1, <2>3, TimerAssumption DEF Timer!Microseconds
    <3> QED BY <1>1, <1>2, <2>1, <2>3, <3>1, <3>2 DEF TimerInv, HalvesRead, Timer!TimeIsNow
  <2>4. CASE obj.call.at = "check"
    <3>1. PICK m \in obj.call.begun .. obj.count : obj.call.low = Timer!Low(m)
      BY <2>4 DEF TimerInv, HalvesRead
    <3>2. m \in obj.call.begun .. n
      BY <1>2, <2>1, <3>1
    <3> QED BY <1>1, <2>4, <3>1, <3>2 DEF TimerInv, HalvesRead, Timer!TimeIsNow
  <2>5. CASE obj.call.at \notin {"check", "high_again", "low_again", "done"}
    BY <1>1, <2>5 DEF TimerInv, HalvesRead, Timer!TimeIsNow
  <2> QED BY <2>2, <2>3, <2>4, <2>5
<1>7. Matching'
  <2>1. obj.matched => waits
    OBVIOUS
  <2>2. ASSUME NEW ticks \in Nat, obj.matched, Since(ticks) PROVE Since(ticks)'
    <3>1. PICK m \in 0 .. obj.count : obj.compare = Timer!Low(m + ticks) /\ obj.count <= m + obj.delay
      BY <2>2 DEF Since
    <3>2. m \in 0 .. n /\ n <= m + obj.delay + 1
      BY <1>2, <3>1
    <3>3. obj'.delay = obj.delay + 1
      BY <1>1, <2>2
    <3>4. m + obj'.delay = m + obj.delay + 1
      BY <1>2, <3>1, <3>3
    <3> QED BY <1>1, <3>1, <3>2, <3>4 DEF Since
  <2>3. CASE obj.matched
    BY <1>1, <2>2, <2>3, TimerAssumption DEF TimerInv, Matching
  <2>4. CASE ~obj.matched /\ obj.running
    <3>1. PICK d \in 1 .. Interval : obj.compare = Timer!Low(obj.count + d)
      BY <2>4 DEF TimerInv, Matching, Ahead
    <3>2. CASE hits
      <4>1. Timer!Low(n + 0) = obj.compare /\ n <= n + obj'.delay /\ n \in 0 .. n
        BY <1>2, <3>2 DEF hits
      <4>2. Since(0)'
        BY <1>1, <4>1 DEF Since
      <4> QED BY <1>1, <2>4, <3>2, <4>2 DEF TimerInv, Matching
    <3>3. CASE ~hits
      <4>1. d # 1
        BY <2>4, <3>1, <3>3 DEF hits, n
      <4>2. d - 1 \in 1 .. Interval /\ n + (d - 1) = obj.count + d
        BY <1>2, <3>1, <4>1, TimerAssumption
      <4>3. Ahead'
        BY <1>1, <3>1, <4>2 DEF Ahead
      <4> QED BY <1>1, <2>4, <3>3, <4>3 DEF TimerInv, Matching
    <3> QED BY <3>2, <3>3
  <2>5. CASE ~obj.matched /\ ~obj.running
    BY <1>1, <2>5 DEF TimerInv, Matching, hits
  <2> QED BY <2>3, <2>4, <2>5
<1> QED BY <1>3, <1>5, <1>6, <1>7 DEF TimerInv

LEMMA StartReadingKeeps == ASSUME TimerInv, Timer!StartReading PROVE TimerInv'
<1> DEFINE c == [at |-> "low", high |-> Timer!High(obj.count), low |-> 0, begun |-> obj.count]
<1>1. obj' = [obj EXCEPT !.delay = 0, !.call = c] /\ ~obj.matched
  BY DEF Timer!StartReading
<1>2. obj.count \in Nat /\ Timer!High(obj.count) \in Nat
  BY Halves DEF TimerInv, TimerType
<1>3. c \in TimerCalls /\ c.at = "low" /\ c.high = Timer!High(obj.count) /\ c.begun = obj.count
  BY <1>2 DEF TimerCalls
<1> HIDE DEF c
<1>4. /\ obj'.count = obj.count /\ obj'.compare = obj.compare /\ obj'.current = obj.current
      /\ obj'.matched = obj.matched /\ obj'.running = obj.running /\ obj'.delay = 0 /\ obj'.call = c
  BY <1>1 DEF TimerInv, TimerType
<1>5. TimerType'
  BY <1>1, <1>3 DEF TimerInv, TimerType
<1>6. Delayed'
  BY <1>2, <1>3, <1>4, TimerAssumption DEF Delayed
<1>7. HalvesRead'
  BY <1>3, <1>4 DEF HalvesRead, Timer!TimeIsNow
<1>8. Matching'
  BY <1>1, <1>3, <1>4 DEF TimerInv, Matching, Ahead
<1> QED BY <1>5, <1>6, <1>7, <1>8 DEF TimerInv

LEMMA ReadLowKeeps == ASSUME TimerInv, Timer!ReadLow PROVE TimerInv'
<1> DEFINE c == [obj.call EXCEPT !.at = "check", !.low = Timer!Low(obj.count)]
<1>1. obj' = [obj EXCEPT !.call = c] /\ obj.call.at = "low"
  BY DEF Timer!ReadLow, Timer!Step
<1>2. obj.count \in Nat /\ Timer!Low(obj.count) \in Nat /\ obj.call \in TimerCalls
  BY Halves, TimerAssumption DEF TimerInv, TimerType
<1>3. /\ c \in TimerCalls /\ c.at = "check" /\ c.high = obj.call.high /\ c.low = Timer!Low(obj.count)
      /\ c.begun = obj.call.begun
  BY <1>2 DEF TimerCalls
<1> HIDE DEF c
<1>4. obj'.count = obj.count /\ obj'.call = c
  BY <1>1 DEF TimerInv, TimerType
<1>5. obj.count \in obj.call.begun .. obj.count /\ obj.call.high = Timer!High(obj.call.begun)
  BY <1>1, <1>2, TimerNumbers DEF TimerInv, Delayed, HalvesRead
<1>6. HalvesRead'
  BY <1>3, <1>4, <1>5 DEF HalvesRead, Timer!TimeIsNow
<1> QED BY <1>1, <1>3, <1>6, CallMoves

LEMMA CheckHighKeeps == ASSUME TimerInv, Timer!CheckHigh PROVE TimerInv'
<1> DEFINE to == IF obj.call.high # Timer!High(obj.count) THEN "high_again" ELSE "done"
           c == [obj.call EXCEPT !.at = to]
<1>1. obj' = [obj EXCEPT !.call = c] /\ obj.call.at = "check"
  BY DEF Timer!CheckHigh, Timer!Step
<1>2. obj.count \in Nat /\ obj.call \in TimerCalls /\ obj.call.begun \in Nat /\ obj.call.begun <= obj.count
  BY <1>1 DEF TimerInv, TimerType, TimerCalls, Delayed
<1>3. /\ c \in TimerCalls /\ c.at = to /\ c.high = obj.call.high /\ c.low = obj.call.low /\ c.begun = obj.call.begun
  BY <1>2 DEF TimerCalls
<1>4. to = IF obj.call.high # Timer!High(obj.count) THEN "high_again" ELSE "done"
  OBVIOUS
<1> HIDE DEF c, to
<1>5. obj'.count = obj.count /\ obj'.call = c
  BY <1>1 DEF TimerInv, TimerType
<1>6. PICK n \in obj.call.begun .. obj.count : obj.call.low = Timer!Low(n) /\ obj.call.high = Timer!High(obj.call.begun)
  BY <1>1 DEF TimerInv, HalvesRead
<1>7. n \in Nat /\ Timer!High(obj.call.begun) <= Timer!High(n) /\ Timer!High(n) <= Timer!High(obj.count)
  BY <1>2, <1>6, HighGrows
<1>8. Timer!High(obj.call.begun) \in Nat /\ Timer!High(n) \in Nat /\ Timer!High(obj.count) \in Nat
  BY <1>2, <1>7, Halves
<1>9. ASSUME to = "done" PROVE HalvesRead'
  <2>1. obj.call.high = Timer!High(obj.count)
    BY <1>4, <1>9
  <2>2. Timer!High(n) = obj.call.high
    BY <1>6, <1>7, <1>8, <2>1
  <2>3. n = obj.call.high * Half + obj.call.low
    BY <1>6, <1>7, <2>2, Halves
  <2>4. Timer!Microseconds' = n
    BY <1>3, <1>5, <2>3 DEF Timer!Microseconds
  <2>5. obj.call.begun <= n /\ n <= obj.count
    BY <1>2, <1>6
  <2>6. Timer!TimeIsNow'
    BY <1>3, <1>5, <2>4, <2>5 DEF Timer!TimeIsNow
  <2> QED BY <1>3, <1>5, <1>9, <2>6 DEF HalvesRead
<1>10. ASSUME to # "done" PROVE HalvesRead'
  <2>1. to = "high_again" /\ obj.call.high # Timer!High(obj.count)
    BY <1>4, <1>10
  <2>2. Timer!High(obj.call.begun) < Timer!High(obj.count)
    BY <1>6, <1>7, <1>8, <2>1
  <2> QED BY <1>3, <1>5, <2>1, <2>2 DEF HalvesRead, Timer!TimeIsNow
<1>11. HalvesRead' /\ to \in {"high_again", "done"}
  BY <1>4, <1>9, <1>10
<1> QED BY <1>1, <1>3, <1>11, CallMoves

LEMMA ReadHighAgainKeeps == ASSUME TimerInv, Timer!ReadHighAgain PROVE TimerInv'
<1> DEFINE c == [obj.call EXCEPT !.at = "low_again", !.high = Timer!High(obj.count)]
<1>1. obj' = [obj EXCEPT !.call = c] /\ obj.call.at = "high_again"
  BY DEF Timer!ReadHighAgain, Timer!BothAgain, Timer!Step
<1>2. obj.count \in Nat /\ Timer!High(obj.count) \in Nat /\ obj.call \in TimerCalls
  BY Halves DEF TimerInv, TimerType
<1>3. /\ c \in TimerCalls /\ c.at = "low_again" /\ c.high = Timer!High(obj.count) /\ c.begun = obj.call.begun
  BY <1>2 DEF TimerCalls
<1> HIDE DEF c
<1>4. obj'.count = obj.count /\ obj'.call = c
  BY <1>1 DEF TimerInv, TimerType
<1>5. HalvesRead'
  BY <1>1, <1>3, <1>4 DEF TimerInv, HalvesRead, Timer!TimeIsNow
<1> QED BY <1>1, <1>3, <1>5, CallMoves

LEMMA ReadLowAgainKeeps == ASSUME TimerInv, Timer!ReadLowAgain PROVE TimerInv'
<1> DEFINE c == [obj.call EXCEPT !.at = "done", !.low = Timer!Low(obj.count)]
<1>1. obj' = [obj EXCEPT !.call = c] /\ obj.call.at = "low_again"
  BY DEF Timer!ReadLowAgain, Timer!Step
<1>2. obj.count \in Nat /\ Timer!Low(obj.count) \in Nat /\ obj.call \in TimerCalls /\ obj.call.begun <= obj.count
    /\ obj.call.begun \in Nat
  <2>1. obj.count \in Nat /\ obj.call \in TimerCalls /\ obj.call.begun \in Nat
    BY TimerNumbers
  <2>2. Timer!Low(obj.count) \in Nat
    <3>1. Timer!Low(obj.count) \in 0 .. Half - 1
      BY <2>1, Halves
    <3> QED BY <3>1, TimerAssumption
  <2>3. obj.call.begun <= obj.count
    BY <1>1 DEF TimerInv, Delayed
  <2> QED BY <2>1, <2>2, <2>3
<1>3. /\ c \in TimerCalls /\ c.at = "done" /\ c.high = obj.call.high /\ c.low = Timer!Low(obj.count)
      /\ c.begun = obj.call.begun
  BY <1>2 DEF TimerCalls
<1> HIDE DEF c
<1>4. obj'.count = obj.count /\ obj'.call = c
  BY <1>1 DEF TimerInv, TimerType
<1>5. Timer!Microseconds' = obj.count
  <2>1. obj.call.high = Timer!High(obj.count)
    BY <1>1 DEF TimerInv, HalvesRead
  <2>2. obj.count = Timer!High(obj.count) * Half + Timer!Low(obj.count)
    BY <1>2, Halves
  <2> QED BY <1>3, <1>4, <2>1, <2>2 DEF Timer!Microseconds
<1>6. Timer!TimeIsNow'
  BY <1>2, <1>3, <1>4, <1>5 DEF Timer!TimeIsNow
<1>7. HalvesRead'
  BY <1>3, <1>4, <1>6 DEF HalvesRead
<1> QED BY <1>1, <1>3, <1>7, CallMoves
LEMMA ReturnKeeps == ASSUME TimerInv, Timer!Return PROVE TimerInv'
<1>1. obj' = [obj EXCEPT !.call = Timer!Idle] /\ obj.call.at = "done"
  BY DEF Timer!Return, Timer!Step
<1>2. Timer!Idle \in TimerCalls /\ Timer!Idle.at = "idle"
  BY DEF Timer!Idle, TimerCalls
<1>3. /\ obj'.count = obj.count /\ obj'.compare = obj.compare /\ obj'.current = obj.current
      /\ obj'.matched = obj.matched /\ obj'.running = obj.running /\ obj'.delay = obj.delay /\ obj'.call = Timer!Idle
  BY <1>1 DEF TimerInv, TimerType
<1>4. TimerType'
  BY <1>1, <1>2 DEF TimerInv, TimerType
<1>5. Delayed' /\ HalvesRead'
  BY <1>1, <1>2, <1>3 DEF TimerInv, Delayed, HalvesRead, Timer!TimeIsNow
<1>6. Matching'
  BY <1>1, <1>2, <1>3 DEF TimerInv, Matching, Ahead, Since
<1> QED BY <1>4, <1>5, <1>6 DEF TimerInv

\* The time read is no older than the call, which is shorter than an interval.
LEMMA EnableInterruptModeKeeps == ASSUME TimerInv, Timer!EnableInterruptMode PROVE TimerInv'
<1> DEFINE now == Timer!Microseconds
           next == Timer!Low(now + Interval)
<1>1. /\ obj' = [obj EXCEPT !.current = next, !.compare = next, !.running = TRUE, !.call = Timer!Idle]
      /\ obj.call.at = "done" /\ ~obj.running
  BY DEF Timer!EnableInterruptMode
<1>2. Timer!Idle \in TimerCalls /\ Timer!Idle.at = "idle"
  BY DEF Timer!Idle, TimerCalls
<1>3. now \in Nat
  BY TimerNumbers, TimerAssumption DEF Timer!Microseconds
<1>4. now <= obj.count /\ obj.count - now <= MaxDelay
  <2>1. obj.call.begun <= now /\ now <= obj.count
    BY <1>1 DEF TimerInv, HalvesRead, Timer!TimeIsNow
  <2>2. obj.count <= obj.call.begun + obj.delay /\ obj.delay <= MaxDelay
    BY <1>1 DEF TimerInv, Delayed
  <2> HIDE DEF now
  <2> QED BY <1>3, <2>1, <2>2, TimerNumbers, TimerAssumption
<1>5. next \in Nat
  <2> HIDE DEF now
  <2>1. now + Interval \in Nat
    BY <1>3, TimerAssumption
  <2>2. next \in 0 .. Half - 1
    BY <2>1, Halves
  <2> HIDE DEF next
  <2> QED BY <2>2, TimerAssumption
<1>6. next = Timer!Low(now + Interval)
  OBVIOUS
<1> HIDE DEF now, next
<1>7. /\ obj'.count = obj.count /\ obj'.compare = next /\ obj'.current = next
      /\ obj'.matched = obj.matched /\ obj'.running /\ obj'.delay = obj.delay /\ obj'.call = Timer!Idle
  BY <1>1 DEF TimerInv, TimerType
<1>8. TimerType'
  BY <1>1, <1>2, <1>5 DEF TimerInv, TimerType
<1>9. Delayed' /\ HalvesRead'
  BY <1>1, <1>2, <1>7 DEF TimerInv, Delayed, HalvesRead, Timer!TimeIsNow
<1>10. Matching'
  <2>1. ~obj.matched
    BY <1>1 DEF TimerInv, Matching
  <2> DEFINE d == now + Interval - obj.count
  <2>2. d \in 1 .. Interval /\ obj.count + d = now + Interval
    BY <1>3, <1>4, TimerNumbers, TimerAssumption
  <2> HIDE DEF d
  <2>3. Ahead'
    BY <1>6, <1>7, <2>2 DEF Ahead
  <2> QED BY <1>2, <1>7, <2>1, <2>3 DEF Matching
<1> QED BY <1>8, <1>9, <1>10 DEF TimerInv

LEMMA SetCompareKeeps == ASSUME TimerInv, Timer!SetCompare PROVE TimerInv'
<1> DEFINE c == [Timer!Idle EXCEPT !.at = "clear"]
           next == Timer!NextMatch
<1>1. obj' = [obj EXCEPT !.current = next, !.compare = next, !.call = c] /\ obj.matched /\ obj.call = Timer!Idle
  BY DEF Timer!SetCompare
<1>2. c \in TimerCalls /\ c.at = "clear" /\ obj.call.at = "idle"
  BY <1>1 DEF Timer!Idle, TimerCalls
<1>3. PICK m \in 0 .. obj.count : obj.compare = Timer!Low(m + 0) /\ obj.count <= m + obj.delay
  BY <1>1, <1>2 DEF TimerInv, Matching, Since
<1>4. m \in Nat /\ m + 0 = m
  BY <1>3, TimerNumbers
<1>5. next = Timer!Low(m + Interval)
  <2>1. obj.current = Timer!Low(m)
    BY <1>1, <1>3, <1>4 DEF TimerInv, Matching
  <2> QED BY <1>4, <2>1, LowOfSum, TimerAssumption DEF Timer!NextMatch
<1>6. next \in Nat
  <2>1. m + Interval \in Nat
    BY <1>4, TimerAssumption
  <2>2. Timer!Low(m + Interval) \in 0 .. Half - 1
    BY <2>1, Halves
  <2> HIDE DEF next
  <2> QED BY <1>5, <2>2, TimerAssumption
<1> HIDE DEF c, next
<1>7. /\ obj'.count = obj.count /\ obj'.compare = next /\ obj'.current = next
      /\ obj'.matched = obj.matched /\ obj'.running = obj.running /\ obj'.delay = obj.delay /\ obj'.call = c
  BY <1>1 DEF TimerInv, TimerType
<1>8. TimerType'
  BY <1>1, <1>2, <1>6 DEF TimerInv, TimerType
<1>9. Delayed' /\ HalvesRead'
  BY <1>1, <1>2, <1>7 DEF TimerInv, Delayed, HalvesRead, Timer!TimeIsNow
<1>10. Matching'
  <2>1. Since(Interval)'
    BY <1>3, <1>5, <1>7 DEF Since
  <2> QED BY <1>1, <1>2, <1>7, <2>1 DEF TimerInv, Matching
<1> QED BY <1>8, <1>9, <1>10 DEF TimerInv

\* The match was no longer ago than the delay, so the next one is ahead.
LEMMA ClearInterruptKeeps == ASSUME TimerInv, Timer!ClearInterrupt PROVE TimerInv'
<1>1. obj' = [obj EXCEPT !.matched = FALSE, !.call = Timer!Idle] /\ obj.call.at = "clear"
  BY DEF Timer!ClearInterrupt
<1>2. Timer!Idle \in TimerCalls /\ Timer!Idle.at = "idle"
  BY DEF Timer!Idle, TimerCalls
<1>3. /\ obj'.count = obj.count /\ obj'.compare = obj.compare /\ obj'.current = obj.current
      /\ obj'.matched = FALSE /\ obj'.running = obj.running /\ obj'.delay = obj.delay /\ obj'.call = Timer!Idle
  BY <1>1 DEF TimerInv, TimerType
<1>4. TimerType'
  BY <1>1, <1>2 DEF TimerInv, TimerType
<1>5. Delayed' /\ HalvesRead'
  BY <1>1, <1>2, <1>3 DEF TimerInv, Delayed, HalvesRead, Timer!TimeIsNow
<1>6. Matching'
  <2>1. PICK m \in 0 .. obj.count : obj.compare = Timer!Low(m + Interval) /\ obj.count <= m + obj.delay
    BY <1>1 DEF TimerInv, Matching, Since
  <2>2. obj.delay <= MaxDelay
    BY <1>1 DEF TimerInv, Delayed
  <2> DEFINE d == m + Interval - obj.count
  <2>3. d \in 1 .. Interval /\ obj.count + d = m + Interval
    BY <2>1, <2>2, TimerNumbers, TimerAssumption
  <2> HIDE DEF d
  <2>4. Ahead'
    BY <1>3, <2>1, <2>3 DEF Ahead
  <2> QED BY <1>2, <1>3, <2>4 DEF TimerInv, Matching
<1> QED BY <1>4, <1>5, <1>6 DEF TimerInv

LEMMA TimerKeeps == ASSUME TimerInv, Timer!Next PROVE TimerInv'
BY TickKeeps, StartReadingKeeps, ReadLowKeeps, CheckHighKeeps, ReadHighAgainKeeps, ReadLowAgainKeeps,
   ReturnKeeps, EnableInterruptModeKeeps, SetCompareKeeps, ClearInterruptKeeps DEF Timer!Next

LEMMA TimerServes == ASSUME TimerInv PROVE Timer!TimeIsNow /\ Timer!NextMatchAhead
<1>1. Timer!TimeIsNow
  BY DEF TimerInv, HalvesRead
<1>2. ASSUME obj.running, ~obj.matched PROVE (obj.compare - obj.count) % Half \in 1 .. Interval
  <2>1. PICK d \in 1 .. Interval : obj.compare = Timer!Low(obj.count + d)
    BY <1>2 DEF TimerInv, Matching, Ahead
  <2>2. d \in 1 .. Half - 1
    BY TimerAssumption
  <2>3. ((Timer!Low(obj.count + d) - obj.count) % Half) = d
    BY <2>2, LowDiffers, TimerNumbers
  <2> QED BY <2>1, <2>3
<1> QED BY <1>1, <1>2 DEF Timer!NextMatchAhead

LEMMA TimerStep == ASSUME TimerInv, [Timer!Next]_obj PROVE TimerInv'
<1>1. CASE UNCHANGED obj
  BY <1>1 DEF TimerInv, TimerType, Delayed, HalvesRead, Matching, Ahead, Since, Timer!TimeIsNow, Timer!Microseconds
<1> QED BY <1>1, TimerKeeps

THEOREM TimerInvariance == Timer!Spec => []TimerInv
<1> QED BY TimerStep, TimerBegins, PTL DEF Timer!Spec

\* microseconds_since_boot: the time put together from two halves, either of which may change before
\* the other is read, is one that the counter had during the call (Timer.cpp:35-43), for any width.
THEOREM TimeIsCurrent == Timer!Spec => []Timer!TimeIsNow
<1>1. TimerInv => Timer!TimeIsNow
  BY TimerServes
<1> QED BY <1>1, TimerInvariance, PTL

\* enable_interrupt_mode and handle_irq never set a compare value that the counter has passed, so the
\* next interrupt is no farther than one interval (Timer.cpp:45-62), for any width of the register.
THEOREM NextTickAhead == Timer!Spec => []Timer!NextMatchAhead
<1>1. TimerInv => Timer!NextMatchAhead
  BY TimerServes
<1> QED BY <1>1, TimerInvariance, PTL

-----------------------------------------------------------------------------
(* Waking idle processors                                                  *)


WakeCalls == [at : {"none", "load", "claim", "send", "return"}, want : Nat, did : Nat, found : SUBSET Processor]

IdlersType ==
    obj \in [mask : SUBSET Processor, asleep : SUBSET Processor, call : [Processor -> WakeCalls],
              begun : [Processor -> Nat], sent : [Processor -> Nat]]

\* The calls that still owe q its message.
Owers(q) == {p \in Processor : obj.call[p].at = "send" /\ q \in obj.call[p].found}
BitSet(q) == IF q \in obj.mask THEN 1 ELSE 0

Each == \A q \in Processor : obj.sent[q] + Idlers!Owed(q) + BitSet(q) <= obj.begun[q]

\* What is left of a turn, with the bits found and with the messages to send.
TurnOf(p) ==
    LET call == obj.call[p]
    IN  /\ call.at \in {"claim", "send"} => p \notin call.found
        /\ call.at = "claim" => call.did < call.want
        /\ call.at = "send" => /\ call.found # {}
                               /\ call.did + Cardinality(call.found) < call.want + Cardinality(Processor) - 1
        /\ call.at # "none" => call.did < call.want + Cardinality(Processor) - 1
Turns == \A p \in Processor : TurnOf(p)

IdlersInv == IdlersType /\ Each /\ Turns

\* Sets of processors are finite, so what is owed is a number.
LEMMA FiniteProcessors ==
    ASSUME NEW S \in SUBSET Processor
    PROVE  IsFiniteSet(S) /\ Cardinality(S) \in Nat /\ Cardinality(Processor) \in Nat
BY FS_Subset, FS_CardinalityType, IdlersAssumption

LEMMA SameCardinality == ASSUME NEW S PROVE Idlers!Cardinality(S) = Cardinality(S)
BY DEF Idlers!Cardinality, Cardinality

LEMMA OwedIs ==
    ASSUME NEW q \in Processor
    PROVE  /\ Idlers!Owed(q) = Cardinality(Owers(q)) /\ Idlers!Owed(q) \in Nat
           /\ Idlers!Owed(q)' = Cardinality(Owers(q)') /\ Idlers!Owed(q)' \in Nat
<1>1. Owers(q) \in SUBSET Processor /\ Owers(q)' \in SUBSET Processor
  BY DEF Owers
<1>2. Cardinality(Owers(q)) \in Nat /\ Cardinality(Owers(q)') \in Nat
  BY <1>1, FiniteProcessors
<1>3. Idlers!Owed(q) = Cardinality(Owers(q))
  BY SameCardinality DEF Idlers!Owed, Owers
<1>4. Idlers!Owed(q)' = Cardinality(Owers(q)')
  BY SameCardinality DEF Idlers!Owed, Owers
<1> QED BY <1>2, <1>3, <1>4

LEMMA IdlersBegin == ASSUME Idlers!Init PROVE IdlersInv
<1>1. IdlersType
  BY DEF Idlers!Init, IdlersType, Idlers!NoCall, WakeCalls
<1>2. Each
  <2> SUFFICES ASSUME NEW q \in Processor PROVE obj.sent[q] + Idlers!Owed(q) + BitSet(q) <= obj.begun[q]
    BY DEF Each
  <2>1. Owers(q) = {} /\ BitSet(q) = 0 /\ obj.sent[q] = 0 /\ obj.begun[q] = 0
    BY DEF Idlers!Init, Idlers!NoCall, Owers, BitSet
  <2>2. Idlers!Owed(q) = 0
    BY <2>1, OwedIs, FS_EmptySet
  <2> QED BY <2>1, <2>2
<1>3. Turns
  BY DEF Idlers!Init, Turns, TurnOf, Idlers!NoCall
<1> QED BY <1>1, <1>2, <1>3 DEF IdlersInv

\* A step of p that leaves its messages, the mask and the counts as they are.
LEMMA OnlyTheCall ==
    ASSUME IdlersInv, NEW p \in Processor, NEW c \in WakeCalls,
           obj' = [obj EXCEPT !.call[p] = c],
           obj.call[p].at # "send", c.at # "send", TurnOf(p)'
    PROVE  IdlersInv'
<1>1. /\ obj'.mask = obj.mask /\ obj'.sent = obj.sent /\ obj'.begun = obj.begun
      /\ obj'.call = [obj.call EXCEPT ![p] = c] /\ obj.call \in [Processor -> WakeCalls]
  BY DEF IdlersInv, IdlersType
<1>2. IdlersType'
  BY DEF IdlersInv, IdlersType
<1>3. Each'
  <2> SUFFICES ASSUME NEW q \in Processor
               PROVE  obj'.sent[q] + Idlers!Owed(q)' + BitSet(q)' <= obj'.begun[q]
    BY DEF Each
  <2>1. Owers(q)' = Owers(q)
    BY <1>1 DEF Owers
  <2>2. BitSet(q)' = BitSet(q)
    BY <1>1 DEF BitSet
  <2> QED BY <1>1, <2>1, <2>2, OwedIs DEF IdlersInv, Each
<1>4. Turns'
  BY <1>1 DEF IdlersInv, Turns, TurnOf
<1> QED BY <1>2, <1>3, <1>4 DEF IdlersInv

LEMMA IdleBeginKeeps == ASSUME IdlersInv, NEW p \in Processor, Idlers!IdleBegin(p) PROVE IdlersInv'
<1>1. /\ obj'.mask = obj.mask \cup {p} /\ obj'.sent = obj.sent /\ obj'.call = obj.call
      /\ obj'.begun = [obj.begun EXCEPT ![p] = @ + 1]
      /\ obj.begun \in [Processor -> Nat] /\ obj.sent \in [Processor -> Nat]
  BY DEF Idlers!IdleBegin, IdlersInv, IdlersType
<1>2. IdlersType'
  <2>1. obj'.begun \in [Processor -> Nat] /\ obj'.mask \in SUBSET Processor
    BY <1>1 DEF IdlersInv, IdlersType
  <2>2. obj' = [obj EXCEPT !.mask = obj'.mask, !.asleep = obj'.asleep, !.begun = obj'.begun]
    BY <1>1 DEF Idlers!IdleBegin, IdlersInv, IdlersType
  <2>3. obj'.asleep \in SUBSET Processor
    BY DEF Idlers!IdleBegin, IdlersInv, IdlersType
  <2> QED BY <2>1, <2>2, <2>3 DEF IdlersInv, IdlersType
<1>3. Each'
  <2> SUFFICES ASSUME NEW q \in Processor
               PROVE  obj'.sent[q] + Idlers!Owed(q)' + BitSet(q)' <= obj'.begun[q]
    BY DEF Each
  <2>1. Owers(q)' = Owers(q)
    BY <1>1 DEF Owers
  <2>2. obj.sent[q] + Idlers!Owed(q) + BitSet(q) <= obj.begun[q] /\ Idlers!Owed(q)' = Idlers!Owed(q) /\ Idlers!Owed(q) \in Nat
    BY <2>1, OwedIs DEF IdlersInv, Each
  <2>3. CASE q = p
    BY <1>1, <2>2, <2>3 DEF BitSet
  <2>4. CASE q # p
    BY <1>1, <2>2, <2>4 DEF BitSet
  <2> QED BY <2>3, <2>4
<1>4. Turns'
  BY <1>1 DEF IdlersInv, Turns, TurnOf
<1> QED BY <1>2, <1>3, <1>4 DEF IdlersInv

LEMMA IdleEndKeeps == ASSUME IdlersInv, NEW p \in Processor, Idlers!IdleEnd(p) PROVE IdlersInv'
<1>1. /\ obj'.mask = obj.mask \ {p} /\ obj'.sent = obj.sent /\ obj'.call = obj.call
      /\ obj'.begun = obj.begun
      /\ obj.begun \in [Processor -> Nat] /\ obj.sent \in [Processor -> Nat]
  BY DEF Idlers!IdleEnd, IdlersInv, IdlersType
<1>2. IdlersType'
  BY DEF Idlers!IdleEnd, IdlersInv, IdlersType
<1>3. Each'
  <2> SUFFICES ASSUME NEW q \in Processor
               PROVE  obj'.sent[q] + Idlers!Owed(q)' + BitSet(q)' <= obj'.begun[q]
    BY DEF Each
  <2>1. Owers(q)' = Owers(q)
    BY <1>1 DEF Owers
  <2>2. obj.sent[q] + Idlers!Owed(q) + BitSet(q) <= obj.begun[q] /\ Idlers!Owed(q)' = Idlers!Owed(q) /\ Idlers!Owed(q) \in Nat
    BY <2>1, OwedIs DEF IdlersInv, Each
  <2> QED BY <1>1, <2>2 DEF BitSet
<1>4. Turns'
  BY <1>1 DEF IdlersInv, Turns, TurnOf
<1> QED BY <1>2, <1>3, <1>4 DEF IdlersInv

LEMMA WakeCallKeeps == ASSUME IdlersInv, NEW p \in Processor, Idlers!Call(p) PROVE IdlersInv'
<1>1. PICK count \in 1 .. Cardinality(Processor) :
          obj' = [obj EXCEPT !.call[p] = [obj.call[p] EXCEPT !.at = "load", !.want = Idlers!WakeCount(count)]]
  BY SameCardinality DEF Idlers!Call, IdlersInv, IdlersType
<1>2. obj.call[p] = Idlers!NoCall /\ Cardinality(Processor) \in Nat /\ Cardinality(Processor) >= 2
  BY FiniteProcessors, IdlersAssumption DEF Idlers!Call
<1> DEFINE c == [Idlers!NoCall EXCEPT !.at = "load", !.want = Idlers!WakeCount(count)]
<1>3. Idlers!WakeCount(count) \in Nat
  BY <1>2, SameCardinality DEF Idlers!WakeCount
<1>4. c \in WakeCalls /\ c.at = "load" /\ c.did = 0 /\ c.want = Idlers!WakeCount(count)
  BY <1>3 DEF Idlers!NoCall, WakeCalls
<1>5. obj' = [obj EXCEPT !.call[p] = c]
  BY <1>1, <1>2
<1> HIDE DEF c
<1>6. obj'.call[p] = c
  BY <1>5 DEF IdlersInv, IdlersType
<1>7. TurnOf(p)'
  BY <1>2, <1>3, <1>4, <1>6 DEF TurnOf
<1> QED BY <1>2, <1>4, <1>5, <1>7, OnlyTheCall DEF Idlers!NoCall

LEMMA LoadKeeps == ASSUME IdlersInv, NEW p \in Processor, Idlers!Load(p) PROVE IdlersInv'
<1> DEFINE call == obj.call[p]
           found == obj.mask \ {p}
           c == IF found = {} THEN [call EXCEPT !.at = "return"]
                ELSE [call EXCEPT !.at = "claim", !.found = found]
<1>1. call \in WakeCalls /\ call.at = "load" /\ call.did < call.want /\ TurnOf(p) /\ found \in SUBSET Processor
  BY DEF Idlers!Load, Idlers!StillWanted, IdlersInv, IdlersType, Turns
<1>2. obj' = [obj EXCEPT !.call[p] = c]
  BY DEF Idlers!Load
<1>3. c \in WakeCalls /\ c.at \in {"return", "claim"} /\ c.did = call.did /\ c.want = call.want
      /\ (c.at = "claim" => p \notin c.found)
  BY <1>1 DEF WakeCalls
<1>4. call.did < call.want + Cardinality(Processor) - 1
  BY <1>1 DEF TurnOf
<1> HIDE DEF c
<1>5. obj'.call[p] = c
  BY <1>2 DEF IdlersInv, IdlersType
<1>6. TurnOf(p)'
  BY <1>1, <1>3, <1>4, <1>5 DEF TurnOf
<1> QED BY <1>1, <1>2, <1>3, <1>6, OnlyTheCall

LEMMA WakeReturnKeeps == ASSUME IdlersInv, NEW p \in Processor, Idlers!Return(p) PROVE IdlersInv'
<1>1. obj' = [obj EXCEPT !.call[p] = Idlers!NoCall] /\ obj.call[p].at # "send"
  BY DEF Idlers!Return
<1>2. Idlers!NoCall \in WakeCalls /\ Idlers!NoCall.at = "none"
  BY DEF Idlers!NoCall, WakeCalls
<1>3. obj'.call[p] = Idlers!NoCall
  BY <1>1 DEF IdlersInv, IdlersType
<1>4. TurnOf(p)'
  BY <1>2, <1>3 DEF TurnOf
<1> QED BY <1>1, <1>2, <1>4, OnlyTheCall

\* A bit that the fetch_and clears goes from the mask to the one call that cleared it.
LEMMA ClaimKeeps == ASSUME IdlersInv, NEW p \in Processor, Idlers!Claim(p) PROVE IdlersInv'
<1> DEFINE call == obj.call[p]
           claimed == call.found \cap obj.mask
           c == [call EXCEPT !.at = IF claimed = {} THEN "load" ELSE "send", !.found = claimed]
<1>1. /\ call \in WakeCalls /\ call.at = "claim" /\ p \notin call.found /\ call.did < call.want
      /\ call.did < call.want + Cardinality(Processor) - 1
      /\ obj.call \in [Processor -> WakeCalls] /\ obj.mask \in SUBSET Processor
      /\ obj.begun \in [Processor -> Nat] /\ obj.sent \in [Processor -> Nat]
  BY DEF Idlers!Claim, IdlersInv, IdlersType, Turns, TurnOf
<1>2. /\ obj' = [obj EXCEPT !.mask = @ \ call.found, !.call[p] = c]
  BY DEF Idlers!Claim, Idlers!Claimed
<1>3. /\ c \in WakeCalls /\ c.found = claimed /\ c.did = call.did /\ c.want = call.want
      /\ c.at = IF claimed = {} THEN "load" ELSE "send"
  BY <1>1 DEF WakeCalls
<1> HIDE DEF c
<1>4. /\ obj'.mask = obj.mask \ call.found /\ obj'.sent = obj.sent /\ obj'.begun = obj.begun
      /\ obj'.call = [obj.call EXCEPT ![p] = c]
  BY <1>2 DEF IdlersInv, IdlersType
<1>5. IdlersType'
  BY <1>1, <1>2, <1>3 DEF IdlersInv, IdlersType
<1>6. Each'
  <2> SUFFICES ASSUME NEW q \in Processor
               PROVE  obj'.sent[q] + Idlers!Owed(q)' + BitSet(q)' <= obj'.begun[q]
    BY DEF Each
  <2>1. /\ obj.sent[q] + Idlers!Owed(q) + BitSet(q) <= obj.begun[q] /\ Idlers!Owed(q) \in Nat
        /\ Idlers!Owed(q) = Cardinality(Owers(q)) /\ Idlers!Owed(q)' = Cardinality(Owers(q)')
    BY OwedIs DEF IdlersInv, Each
  <2>2. CASE q \in claimed
    <3>1. Owers(q)' = Owers(q) \cup {p} /\ p \notin Owers(q)
      BY <1>1, <1>3, <1>4, <2>2 DEF Owers
    <3>2. IsFiniteSet(Owers(q))
      BY FiniteProcessors DEF Owers
    <3>3. Idlers!Owed(q)' = Idlers!Owed(q) + 1
      BY <2>1, <3>1, <3>2, FS_AddElement
    <3>4. BitSet(q) = 1 /\ BitSet(q)' = 0
      BY <1>4, <2>2 DEF BitSet
    <3> QED BY <1>1, <1>4, <2>1, <3>3, <3>4
  <2>3. CASE q \notin claimed
    <3>1. Owers(q)' = Owers(q)
      BY <1>1, <1>3, <1>4, <2>3 DEF Owers
    <3>2. BitSet(q)' = BitSet(q)
      BY <1>4, <2>3 DEF BitSet
    <3> QED BY <1>4, <2>1, <3>1, <3>2
  <2> QED BY <2>2, <2>3
<1>7. Turns'
  <2>1. ASSUME claimed # {}
        PROVE  call.did + Cardinality(claimed) < call.want + Cardinality(Processor) - 1
    <3>1. claimed \in SUBSET (Processor \ {p}) /\ IsFiniteSet(Processor \ {p})
      BY <1>1, FiniteProcessors
    <3>2. Cardinality(claimed) <= Cardinality(Processor \ {p}) /\ Cardinality(claimed) \in Nat
      BY <3>1, FS_Subset, FS_CardinalityType
    <3>3. Cardinality(Processor \ {p}) = Cardinality(Processor) - 1 /\ Cardinality(Processor) \in Nat
      BY FS_RemoveElement, FS_CardinalityType, IdlersAssumption
    <3> QED BY <1>1, <3>2, <3>3 DEF WakeCalls
  <2>2. obj'.call[p] = c
    BY <1>1, <1>4
  <2>3. TurnOf(p)'
    BY <1>1, <1>3, <2>1, <2>2 DEF TurnOf
  <2>4. ASSUME NEW r \in Processor, r # p PROVE TurnOf(r)'
    BY <1>1, <1>4, <2>4 DEF IdlersInv, Turns, TurnOf
  <2> QED BY <2>3, <2>4 DEF Turns
<1> QED BY <1>5, <1>6, <1>7 DEF IdlersInv

\* A message is sent to one processor that was owed it by this call.
LEMMA SendKeeps == ASSUME IdlersInv, NEW p \in Processor, Idlers!Send(p) PROVE IdlersInv'
<1> DEFINE call == obj.call[p]
<1>1. /\ call \in WakeCalls /\ call.at = "send" /\ p \notin call.found
      /\ call.did + Cardinality(call.found) < call.want + Cardinality(Processor) - 1
      /\ obj.call \in [Processor -> WakeCalls] /\ obj.mask \in SUBSET Processor
      /\ obj.begun \in [Processor -> Nat] /\ obj.sent \in [Processor -> Nat]
  BY DEF Idlers!Send, IdlersInv, IdlersType, Turns, TurnOf
<1>2. PICK q \in call.found :
          obj' = [obj EXCEPT !.sent[q] = @ + 1,
                               !.call[p] = [call EXCEPT !.did = @ + 1, !.found = @ \ {q},
                                                        !.at = IF call.found = {q} THEN "load" ELSE "send"]]
  BY DEF Idlers!Send
<1> DEFINE c == [call EXCEPT !.did = @ + 1, !.found = @ \ {q},
                             !.at = IF call.found = {q} THEN "load" ELSE "send"]
<1>3. /\ c \in WakeCalls /\ c.found = call.found \ {q} /\ c.did = call.did + 1 /\ c.want = call.want
      /\ c.at = (IF call.found = {q} THEN "load" ELSE "send") /\ q \in Processor
  <2>1. call \in WakeCalls
    BY <1>1
  <2> HIDE DEF call
  <2>2. call.did + 1 \in Nat /\ call.found \ {q} \in SUBSET Processor /\ q \in Processor
    BY <2>1, <1>2 DEF WakeCalls
  <2> DEFINE n == call.did + 1
             f == call.found \ {q}
             a == IF call.found = {q} THEN "load" ELSE "send"
  <2>3. c = [call EXCEPT !.did = n, !.found = f, !.at = a]
    OBVIOUS
  <2>4. n \in Nat /\ f \in SUBSET Processor /\ a \in {"load", "send"}
    BY <2>2
  <2> HIDE DEF n, f, a, c
  <2>5. c \in WakeCalls /\ c.found = f /\ c.did = n /\ c.want = call.want /\ c.at = a
    BY <2>1, <2>3, <2>4 DEF WakeCalls
  <2> QED BY <2>2, <2>5 DEF n, f, a
<1>4. obj' = [obj EXCEPT !.sent[q] = @ + 1, !.call[p] = c]
  BY <1>2
<1> HIDE DEF c
<1>5. /\ obj'.mask = obj.mask /\ obj'.begun = obj.begun
      /\ obj'.sent = [obj.sent EXCEPT ![q] = @ + 1] /\ obj'.call = [obj.call EXCEPT ![p] = c]
  BY <1>4 DEF IdlersInv, IdlersType
<1>6. IdlersType'
  <2>1. obj'.sent \in [Processor -> Nat] /\ obj'.call \in [Processor -> WakeCalls]
    BY <1>1, <1>3, <1>5
  <2>2. obj' = [obj EXCEPT !.sent = obj'.sent, !.call = obj'.call]
    BY <1>4 DEF IdlersInv, IdlersType
  <2> QED BY <2>1, <2>2 DEF IdlersInv, IdlersType
<1>7. Each'
  <2> SUFFICES ASSUME NEW r \in Processor
               PROVE  obj'.sent[r] + Idlers!Owed(r)' + BitSet(r)' <= obj'.begun[r]
    BY DEF Each
  <2>1. /\ obj.sent[r] + Idlers!Owed(r) + BitSet(r) <= obj.begun[r] /\ Idlers!Owed(r) \in Nat
        /\ Idlers!Owed(r) = Cardinality(Owers(r)) /\ Idlers!Owed(r)' = Cardinality(Owers(r)')
    BY OwedIs DEF IdlersInv, Each
  <2>2. BitSet(r)' = BitSet(r) /\ BitSet(r) \in Nat
    BY <1>5 DEF BitSet
  <2>3. CASE r = q
    <3>1. Owers(r)' = Owers(r) \ {p} /\ p \in Owers(r)
      BY <1>1, <1>3, <1>5, <2>3 DEF Owers
    <3>2. IsFiniteSet(Owers(r))
      BY FiniteProcessors DEF Owers
    <3>3. Idlers!Owed(r)' = Idlers!Owed(r) - 1
      BY <2>1, <3>1, <3>2, FS_RemoveElement
    <3> QED BY <1>1, <1>5, <2>1, <2>2, <2>3, <3>3
  <2>4. CASE r # q
    <3>1. Owers(r)' = Owers(r)
      BY <1>1, <1>3, <1>5, <2>4 DEF Owers
    <3> QED BY <1>1, <1>5, <2>1, <2>2, <2>4, <3>1
  <2> QED BY <2>3, <2>4
<1>8. Turns'
  <2>1. Cardinality(c.found) = Cardinality(call.found) - 1 /\ Cardinality(call.found) \in Nat
        /\ Cardinality(c.found) \in Nat /\ Cardinality(Processor) \in Nat
    <3>1. call.found \in SUBSET Processor /\ c.found \in SUBSET Processor
      BY <1>1, <1>3 DEF WakeCalls
    <3>2. IsFiniteSet(call.found) /\ Cardinality(call.found) \in Nat /\ Cardinality(c.found) \in Nat
          /\ Cardinality(Processor) \in Nat
      BY <3>1, FiniteProcessors
    <3> QED BY <1>3, <3>2, FS_RemoveElement
  <2>2. call.did \in Nat /\ call.want \in Nat
    BY <1>1 DEF WakeCalls
  <2>3. obj'.call[p] = c
    BY <1>1, <1>5
  <2>4. c.did + Cardinality(c.found) < c.want + Cardinality(Processor) - 1 /\ c.did < c.want + Cardinality(Processor) - 1
    BY <1>1, <1>3, <2>1, <2>2
  <2>5. TurnOf(p)'
    BY <1>1, <1>3, <2>3, <2>4 DEF TurnOf
  <2>6. ASSUME NEW r \in Processor, r # p PROVE TurnOf(r)'
    BY <1>1, <1>5, <2>6 DEF IdlersInv, Turns, TurnOf
  <2> QED BY <2>5, <2>6 DEF Turns
<1> QED BY <1>6, <1>7, <1>8 DEF IdlersInv

LEMMA IdlersStep == ASSUME IdlersInv, [Idlers!Next]_obj PROVE IdlersInv'
<1>1. CASE Idlers!Next
  BY <1>1, IdleBeginKeeps, IdleEndKeeps, WakeCallKeeps, LoadKeeps, ClaimKeeps, SendKeeps, WakeReturnKeeps DEF Idlers!Next
<1>2. CASE UNCHANGED obj
  BY <1>2 DEF IdlersInv, IdlersType, Each, Idlers!Owed, BitSet, Turns, TurnOf
<1> QED BY <1>1, <1>2

LEMMA IdlersServe == ASSUME IdlersInv PROVE Idlers!OneMessageEach /\ Idlers!OverwakesOneTurn
<1>1. Idlers!OneMessageEach
  BY DEF IdlersInv, Each, BitSet, Idlers!OneMessageEach
<1>2. Idlers!OverwakesOneTurn
  BY SameCardinality DEF IdlersInv, Turns, TurnOf, Idlers!OverwakesOneTurn
<1> QED BY <1>1, <1>2

\* The invariant holds whatever the callers, the idle loops and the timers do.
THEOREM IdlersInvariance == Idlers!Spec => []IdlersInv
<1> QED BY IdlersBegin, IdlersStep, PTL DEF Idlers!Spec

\* smp_wake_n_idle_processors: an idle processor is sent at most one message for each time
\* it went idle.
THEOREM SentOnce == Idlers!Spec => []Idlers!OneMessageEach
<1>1. IdlersInv => Idlers!OneMessageEach
  BY IdlersServe
<1> QED BY <1>1, IdlersInvariance, PTL

\* smp_wake_n_idle_processors: a call wakes no more than asked for but for its last turn, and
\* never the processor it runs on.
THEOREM WakesFew == Idlers!Spec => []Idlers!OverwakesOneTurn
<1>1. IdlersInv => Idlers!OverwakesOneTurn
  BY IdlersServe
<1> QED BY <1>1, IdlersInvariance, PTL

-----------------------------------------------------------------------------
(* The devices together                                                    *)

DevicesInv ==
    /\ subject \in {"interrupts", "timer", "idlers"}
    /\ subject = "interrupts" => InterruptsInv
    /\ subject = "timer" => TimerInv
    /\ subject = "idlers" => IdlersInv

LEMMA DevicesBegin == ASSUME DevicesInit PROVE DevicesInv
BY InterruptsBegin, TimerBegins, IdlersBegin DEF DevicesInit, DevicesInv

LEMMA DevicesKeep == ASSUME DevicesInv, [DevicesNext]_<<subject, obj>> PROVE DevicesInv'
<1>1. subject' = subject
  BY DEF DevicesNext
<1>2. ASSUME subject = "interrupts" PROVE InterruptsInv'
  <2>1. InterruptsInv /\ [Interrupts!Next]_obj
    BY <1>2 DEF DevicesInv, DevicesNext
  <2> QED BY <2>1, InterruptsKeep
<1>3. ASSUME subject = "timer" PROVE TimerInv'
  <2>1. TimerInv /\ [Timer!Next]_obj
    BY <1>3 DEF DevicesInv, DevicesNext
  <2> QED BY <2>1, TimerStep
<1>4. ASSUME subject = "idlers" PROVE IdlersInv'
  <2>1. IdlersInv /\ [Idlers!Next]_obj
    BY <1>4 DEF DevicesInv, DevicesNext
  <2> QED BY <2>1, IdlersStep
<1> QED BY <1>1, <1>2, <1>3, <1>4 DEF DevicesInv

\* Whichever device it is: handle_interrupt calls every device that raised its line, the timer's time
\* is one it had and its next interrupt lies ahead, and an idle processor is sent one message at most
\* for each time it went idle.
THEOREM EveryDeviceServed == DevicesSpec => []DevicesServed
<1>1. DevicesInv => DevicesServed
  BY InterruptsServe, TimerServes, IdlersServe DEF DevicesInv, DevicesServed
<1> QED BY <1>1, DevicesBegin, DevicesKeep, PTL DEF DevicesSpec
=============================================================================
