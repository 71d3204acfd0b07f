------------------------- MODULE SmpMessagingProofs -------------------------
(***************************************************************************)
(* What holds of the inter-processor messages for any number of            *)
(* processors and messages.                                                *)
(*                                                                         *)
(* Whatever calls are mixed, pointers are never null where they are        *)
(* followed, and no message waits unnoticed.  Neither depends on who owns  *)
(* a message, so both survive a message that is handed out twice.  Besides *)
(* these the invariant says of each processor (Sound) what it will find    *)
(* again after serving its own queue in the middle of a call, and that it  *)
(* posts to its targets only.                                              *)
(*                                                                         *)
(* Under the calls that go to every other processor the pool hands out     *)
(* each message once, the count of a message is that of the processors     *)
(* still to answer, no message gets lost, and the whole implements         *)
(* MessageDelivery.                                                        *)
(***************************************************************************)
EXTENDS SmpMessaging, FiniteSetTheorems, WellFoundedInduction, TLAPS

\* The processor is inside smp_process_pending_messages.
Serving(c) == pc[c] \in {"exchange", "run", "drop", "check"} \/ cur[c] # Null

Sound(c) ==
    /\ pc[c] \in {"next", "pop"} => snap[c] # Null
    /\ pc[c] \in {"fill", "enqueue", "wait"} => msg[c] # Null
    /\ pc[c] = "run" => batch[c] # <<>>
    /\ pc[c] = "drop" => cur[c] # Null
    /\ pc[c] \in {"link", "push"} => Returned(c) # Null
    /\ pc[c] = "ipi" /\ kind[c] # "async" => msg[c] # Null
    /\ Serving(c) /\ back[c] = "wait" => msg[c] # Null
    /\ cur[c] # Null => pc[c] \in {"drop", "link", "push", "check"}
    /\ pc[c] \in {"load", "next", "pop", "fill", "enqueue"} => left[c] \subseteq to[c]
    /\ Serving(c) /\ back[c] = "load" => left[c] \subseteq to[c]

IInv == TypeOK /\ (\A c \in CPU : Sound(c)) /\ NoLostWakeup

\* A step leaves the registers of another processor alone.
Same(d) ==
    /\ pc'[d] = pc[d] /\ back'[d] = back[d] /\ kind'[d] = kind[d]
    /\ to'[d] = to[d] /\ left'[d] = left[d] /\ msg'[d] = msg[d]
    /\ snap'[d] = snap[d] /\ batch'[d] = batch[d] /\ cur'[d] = cur[d]

LEMMA Others ==
    ASSUME NEW c \in CPU, \A d \in CPU : Sound(d), Sound(c)', \A d \in CPU \ {c} : Same(d)
    PROVE  \A d \in CPU : Sound(d)'
BY DEF Sound, Same, Serving, Returned

\* A step that posts nothing, and leaves none of the states that excuse a message.
LEMMA Quietly ==
    ASSUME NoLostWakeup, NEW c \in CPU,
           \A d \in CPU \ {c} : pc'[d] = pc[d] /\ to'[d] = to[d],
           UNCHANGED <<queue, ipi, need>>,
           pc[c] \notin {"exchange", "halted", "enqueue", "ipi"}
    PROVE  NoLostWakeup'
BY DEF NoLostWakeup

LEMMA NotNull == \A m \in Msg : m # Null
BY DEF Null, Msg

\* The queue and its reversal hold messages.
LEMMA Reversal ==
    ASSUME NEW q \in Seq(Msg)
    PROVE  InOrder(q) \in Seq(Msg) /\ (InOrder(q) = <<>> => q = <<>>)
<1>1. Len(q) \in Nat /\ \A i \in 1..Len(q) : q[i] \in Msg
    OBVIOUS
<1>2. InOrder(q) = [i \in 1..Len(q) |-> q[Len(q) - i + 1]]
    BY DEF InOrder, Reverse
<1>3. \A i \in 1..Len(q) : Len(q) - i + 1 \in 1..Len(q)
    BY <1>1
<1>4. InOrder(q) \in Seq(Msg) /\ Len(InOrder(q)) = Len(q)
    BY <1>1, <1>2, <1>3
<1> QED BY <1>4

LEMMA InitIInv == Init => IInv
<1> SUFFICES ASSUME Init PROVE IInv
    OBVIOUS
<1>1. TypeOK
    BY SmpAssumption DEF Init, TypeOK, CPU, Msg, Null, Labels, NoRequest
<1>2. (\A c \in CPU : Sound(c)) /\ NoLostWakeup
    BY DEF Init, Sound, Serving, Returned, NoLostWakeup
<1> QED BY <1>1, <1>2 DEF IInv

LEMMA BeginStep ==
    ASSUME IInv, NEW c \in CPU, NEW k \in Kinds, NEW S \in SUBSET CPU, Begin(c, k, S)
    PROVE  IInv'
<1>0. TypeOK /\ Sound(c) /\ NoLostWakeup
    BY DEF IInv
<1>1. TypeOK'
    <2>1. UNCHANGED <<pool, next, refs, async, body, queue, ipi, haltReq, back, need, msg,
                       snap, nxt, batch, cur, isAsync, ran>>
        BY DEF Begin, Goto, Process, shared, callRegs, poolRegs, procRegs, history
    <2>2. pc' \in [CPU -> Labels]
        BY <1>0 DEF Begin, Goto, Process, TypeOK, Labels
    <2>3. kind' \in [CPU -> Kinds \union {"none"}]
        BY <1>0 DEF Begin, Goto, Process, TypeOK
    <2>4. to' \in [CPU -> SUBSET CPU]
        BY <1>0 DEF Begin, Goto, Process, TypeOK
    <2>5. left' \in [CPU -> SUBSET CPU]
        BY <1>0 DEF Begin, Goto, Process, TypeOK
    <2>6. calls' \in [CPU -> 0..MaxCalls]
        BY <1>0, SmpAssumption DEF Begin, TypeOK
    <2> QED BY <1>0, <2>1, <2>2, <2>3, <2>4, <2>5, <2>6 DEF TypeOK
<1>2. Sound(c)'
    BY <1>0, NotNull DEF Begin, Goto, Process, TypeOK, Sound, Serving, Returned,
        shared, callRegs, poolRegs, procRegs
<1>3. \A e \in CPU \ {c} : Same(e)
    BY <1>0 DEF Begin, Goto, Process, TypeOK, Same, shared, callRegs, poolRegs, procRegs
<1>4. NoLostWakeup'
    BY <1>0, <1>3, Quietly DEF Begin, Goto, Process, Same, shared, callRegs
<1> QED BY <1>1, <1>2, <1>3, <1>4, Others DEF IInv

LEMMA LoadPoolStep ==
    ASSUME IInv, NEW c \in CPU, LoadPool(c)
    PROVE  IInv'
<1>0. TypeOK /\ Sound(c) /\ NoLostWakeup
    BY DEF IInv
<1>1. TypeOK'
    <2>1. UNCHANGED <<pool, next, refs, async, body, queue, ipi, haltReq, kind, to, left,
                       need, msg, nxt, batch, cur, isAsync, ran, calls>>
        BY DEF LoadPool, Goto, Process, shared, callRegs, poolRegs, procRegs, history
    <2>2. pc' \in [CPU -> Labels]
        <3>1. pc' = [pc EXCEPT ![c] = "exchange"] \/ pc' = [pc EXCEPT ![c] = "next"]
            BY <1>0 DEF LoadPool, Goto, Process, TypeOK
        <3> QED BY <1>0, <3>1 DEF TypeOK, Labels
    <2>3. back' \in [CPU -> {"idle", "load", "wait"}]
        BY <1>0 DEF LoadPool, Goto, Process, TypeOK
    <2>4. snap' \in [CPU -> Msg \union {Null}]
        BY <1>0 DEF LoadPool, Goto, Process, TypeOK
    <2> QED BY <1>0, <2>1, <2>2, <2>3, <2>4 DEF TypeOK
<1>2. Sound(c)'
    BY <1>0, NotNull DEF LoadPool, Goto, Process, TypeOK, Sound, Serving, Returned,
        shared, callRegs, poolRegs, procRegs
<1>3. \A e \in CPU \ {c} : Same(e)
    BY <1>0 DEF LoadPool, Goto, Process, TypeOK, Same, shared, callRegs, poolRegs, procRegs
<1>4. NoLostWakeup'
    BY <1>0, <1>3, Quietly DEF LoadPool, Goto, Process, Same, shared, callRegs
<1> QED BY <1>1, <1>2, <1>3, <1>4, Others DEF IInv

LEMMA ReadNextStep ==
    ASSUME IInv, NEW c \in CPU, ReadNext(c)
    PROVE  IInv'
<1>0. TypeOK /\ Sound(c) /\ NoLostWakeup
    BY DEF IInv
<1>1. TypeOK'
    <2>1. UNCHANGED <<pool, next, refs, async, body, queue, ipi, haltReq, back, kind, to,
                       left, need, msg, snap, batch, cur, isAsync, ran, calls>>
        BY DEF ReadNext, Goto, Process, shared, callRegs, poolRegs, procRegs, history
    <2>2. pc' \in [CPU -> Labels]
        BY <1>0 DEF ReadNext, Goto, Process, TypeOK, Labels
    <2>3. nxt' \in [CPU -> Msg \union {Null}]
        <3>1. snap[c] \in Msg
            BY <1>0 DEF ReadNext, TypeOK, Sound
        <3> QED BY <1>0, <3>1 DEF ReadNext, TypeOK
    <2> QED BY <1>0, <2>1, <2>2, <2>3 DEF TypeOK
<1>2. Sound(c)'
    BY <1>0, NotNull DEF ReadNext, Goto, Process, TypeOK, Sound, Serving, Returned,
        shared, callRegs, poolRegs, procRegs
<1>3. \A e \in CPU \ {c} : Same(e)
    BY <1>0 DEF ReadNext, Goto, Process, TypeOK, Same, shared, callRegs, poolRegs, procRegs
<1>4. NoLostWakeup'
    BY <1>0, <1>3, Quietly DEF ReadNext, Goto, Process, Same, shared, callRegs
<1> QED BY <1>1, <1>2, <1>3, <1>4, Others DEF IInv

LEMMA PopStep ==
    ASSUME IInv, NEW c \in CPU, Pop(c)
    PROVE  IInv'
<1>0. TypeOK /\ Sound(c) /\ NoLostWakeup
    BY DEF IInv
<1>1. TypeOK'
    <2>1. UNCHANGED <<next, refs, async, body, queue, ipi, haltReq, back, kind, to, left,
                       need, batch, cur, isAsync, ran, calls>>
        BY DEF Pop, Goto, Process, shared, callRegs, poolRegs, procRegs, history
    <2>2. pool' \in Msg \union {Null}
        BY <1>0 DEF Pop, Goto, Process, TypeOK
    <2>3. pc' \in [CPU -> Labels]
        <3>1. pc' = [pc EXCEPT ![c] = "fill"] \/ pc' = [pc EXCEPT ![c] = "load"]
            BY <1>0 DEF Pop, Goto, Process, TypeOK
        <3> QED BY <1>0, <3>1 DEF TypeOK, Labels
    <2>4. msg' \in [CPU -> Msg \union {Null}]
        BY <1>0 DEF Pop, Goto, Process, TypeOK
    <2>5. snap' \in [CPU -> Msg \union {Null}]
        BY <1>0 DEF Pop, Goto, Process, TypeOK
    <2>6. nxt' \in [CPU -> Msg \union {Null}]
        BY <1>0 DEF Pop, Goto, Process, TypeOK
    <2> QED BY <1>0, <2>1, <2>2, <2>3, <2>4, <2>5, <2>6 DEF TypeOK
<1>2. Sound(c)'
    <2>1. CASE pool = snap[c]
        <3>1. pc'[c] = "fill" /\ msg'[c] = snap[c] /\ UNCHANGED <<back, kind, to, left, batch, cur>>
            BY <1>0, <2>1 DEF Pop, Goto, Process, TypeOK, shared, callRegs, poolRegs, procRegs
        <3> QED BY <1>0, <2>1, <3>1, NotNull DEF Pop, TypeOK, Sound, Serving, Returned
    <2>2. CASE pool # snap[c]
        <3>1. pc'[c] = "load" /\ UNCHANGED <<back, kind, to, left, msg, batch, cur>>
            BY <1>0, <2>2 DEF Pop, Goto, Process, TypeOK, shared, callRegs, poolRegs, procRegs
        <3> QED BY <1>0, <2>2, <3>1, NotNull DEF Pop, TypeOK, Sound, Serving, Returned
    <2> QED BY <2>1, <2>2
<1>3. \A e \in CPU \ {c} : Same(e)
    BY <1>0 DEF Pop, Goto, Process, TypeOK, Same, shared, callRegs, poolRegs, procRegs
<1>4. NoLostWakeup'
    BY <1>0, <1>3, Quietly DEF Pop, Goto, Process, Same, shared, callRegs
<1> QED BY <1>1, <1>2, <1>3, <1>4, Others DEF IInv

LEMMA FillStep ==
    ASSUME IInv, NEW c \in CPU, Fill(c)
    PROVE  IInv'
<1>0. TypeOK /\ Sound(c) /\ NoLostWakeup
    BY DEF IInv
<1>1. TypeOK'
    <2>1. UNCHANGED <<pool, next, queue, ipi, haltReq, back, kind, to, left, need, msg, snap,
                       nxt, batch, cur, isAsync, ran, calls>>
        BY DEF Fill, Goto, Process, shared, callRegs, poolRegs, procRegs, history
    <2>2. refs' \in [Msg -> Int]
        <3>1. IsFiniteSet(CPU)
            BY FS_Interval, SmpAssumption DEF CPU
        <3>2. InitialRefs(c) \in Int
            BY <1>0, <3>1, FS_Subset, FS_CardinalityType DEF TypeOK, InitialRefs
        <3> QED BY <1>0, <3>2 DEF Fill, TypeOK
    <2>3. async' \in [Msg -> BOOLEAN]
        BY <1>0 DEF Fill, Goto, Process, TypeOK
    <2>4. body' \in [Msg -> CPU \X (0..MaxCalls)]
        <3>1. Request(c) \in CPU \X (0..MaxCalls)
            BY <1>0 DEF TypeOK, Request
        <3> QED BY <1>0, <3>1 DEF Fill, TypeOK
    <2>5. pc' \in [CPU -> Labels]
        BY <1>0 DEF Fill, Goto, Process, TypeOK, Labels
    <2> QED BY <1>0, <2>1, <2>2, <2>3, <2>4, <2>5 DEF TypeOK
<1>2. Sound(c)'
    BY <1>0, NotNull DEF Fill, Goto, Process, TypeOK, Sound, Serving, Returned,
        shared, callRegs, poolRegs, procRegs
<1>3. \A e \in CPU \ {c} : Same(e)
    BY <1>0 DEF Fill, Goto, Process, TypeOK, Same, shared, callRegs, poolRegs, procRegs
<1>4. NoLostWakeup'
    BY <1>0, <1>3, Quietly DEF Fill, Goto, Process, Same, shared, callRegs
<1> QED BY <1>1, <1>2, <1>3, <1>4, Others DEF IInv

LEMMA EnqueueStep ==
    ASSUME IInv, NEW c \in CPU, Enqueue(c)
    PROVE  IInv'
<1>0. TypeOK /\ Sound(c) /\ NoLostWakeup
    BY DEF IInv
<1>p. PICK d \in left[c] :
        /\ need' = [need EXCEPT ![c] = WasEmpty(c, d)]
        /\ queue' = [queue EXCEPT ![d] = <<msg[c]>> \o @]
        /\ left' = [left EXCEPT ![c] = @ \ {d}]
        /\ IF left[c] = {d} THEN Goto(c, "ipi") ELSE UNCHANGED pc
        /\ msg' = [msg EXCEPT ![c] = IF left[c] = {d} /\ kind[c] = "async" THEN Null ELSE @]
    BY DEF Enqueue
<1>q. d \in CPU /\ msg[c] \in Msg /\ pc[c] = "enqueue"
    BY <1>0, <1>p DEF Enqueue, TypeOK, Sound
<1>r. \/ left[c] = {d} /\ pc' = [pc EXCEPT ![c] = "ipi"]
      \/ left[c] # {d} /\ pc' = pc
    BY <1>p DEF Goto
<1>1. TypeOK'
    <2>1. UNCHANGED <<pool, next, refs, async, body, ipi, haltReq, back, kind, to, snap, nxt,
                       batch, cur, isAsync, ran, calls>>
        BY DEF Enqueue, Goto, Process, shared, callRegs, poolRegs, procRegs, history
    <2>2. queue' \in [CPU -> Seq(Msg)]
        <3>1. <<msg[c]>> \o queue[d] \in Seq(Msg)
            BY <1>0, <1>q DEF TypeOK
        <3> QED BY <1>0, <1>p, <1>q, <3>1 DEF TypeOK
    <2>3. pc' \in [CPU -> Labels]
        BY <1>0, <1>r DEF TypeOK, Labels
    <2>4. left' \in [CPU -> SUBSET CPU]
        BY <1>0, <1>p DEF TypeOK
    <2>5. need' \in [CPU -> BOOLEAN]
        <3>1. WasEmpty(c, d) \in BOOLEAN
            BY <1>0 DEF TypeOK, WasEmpty
        <3> QED BY <1>0, <1>p, <3>1 DEF TypeOK
    <2>6. msg' \in [CPU -> Msg \union {Null}]
        BY <1>0, <1>p DEF TypeOK
    <2> QED BY <1>0, <2>1, <2>2, <2>3, <2>4, <2>5, <2>6 DEF TypeOK
<1>2. Sound(c)'
    <2>1. UNCHANGED <<back, kind, to, snap, batch, cur>> /\ left'[c] \subseteq left[c]
        BY <1>0, <1>p DEF Enqueue, TypeOK, poolRegs, procRegs
    <2>2. pc'[c] \in {"enqueue", "ipi"}
        BY <1>0, <1>q, <1>r DEF TypeOK
    <2>3. pc'[c] = "enqueue" \/ kind[c] # "async" => msg'[c] = msg[c]
        BY <1>0, <1>p, <1>q, <1>r DEF TypeOK
    <2>4. cur[c] = Null /\ left[c] \subseteq to[c]
        BY <1>0, <1>q DEF TypeOK, Sound
    <2> QED BY <1>q, <2>1, <2>2, <2>3, <2>4, NotNull DEF Sound, Serving
<1>3. \A e \in CPU \ {c} : Same(e)
    BY <1>0, <1>p, <1>r DEF Enqueue, TypeOK, Same, poolRegs, procRegs
<1>4. NoLostWakeup'
    <2>1. UNCHANGED <<ipi, to>> /\ (\A e \in CPU \ {c} : pc'[e] = pc[e] /\ need'[e] = need[e])
        BY <1>0, <1>p, <1>r DEF Enqueue, TypeOK
    <2>2. pc'[c] \in {"enqueue", "ipi"} /\ (need[c] => need'[c])
        BY <1>0, <1>p, <1>q, <1>r DEF TypeOK, WasEmpty
    <2>3. \A e \in CPU \ {d} : queue'[e] = queue[e]
        BY <1>0, <1>p, <1>q DEF TypeOK
    <2>4. queue[d] = <<>> => need'[c] /\ d \in to[c]
        BY <1>0, <1>p, <1>q DEF TypeOK, WasEmpty, Sound
    <2> QED BY <1>0, <1>q, <2>1, <2>2, <2>3, <2>4 DEF NoLostWakeup
<1> QED BY <1>1, <1>2, <1>3, <1>4, Others DEF IInv

LEMMA SendIpiStep ==
    ASSUME IInv, NEW c \in CPU, SendIpi(c)
    PROVE  IInv'
<1>0. TypeOK /\ Sound(c) /\ NoLostWakeup
    BY DEF IInv
<1>1. TypeOK'
    <2>1. UNCHANGED <<pool, next, refs, async, body, queue, haltReq, back, left, msg, snap,
                       nxt, batch, cur, isAsync, calls>>
        BY DEF SendIpi, Goto, Process, shared, callRegs, poolRegs, procRegs, history
    <2>2. ipi' \in [CPU -> BOOLEAN]
        BY <1>0 DEF SendIpi, Goto, Process, TypeOK
    <2>3. pc' \in [CPU -> Labels]
        <3>1. pc' = [pc EXCEPT ![c] = "idle"] \/ pc' = [pc EXCEPT ![c] = "wait"]
            BY <1>0 DEF SendIpi, Goto, Process, TypeOK
        <3> QED BY <1>0, <3>1 DEF TypeOK, Labels
    <2>4. kind' \in [CPU -> Kinds \union {"none"}]
        BY <1>0 DEF SendIpi, Goto, Process, TypeOK
    <2>5. to' \in [CPU -> SUBSET CPU]
        BY <1>0 DEF SendIpi, Goto, Process, TypeOK
    <2>6. need' \in [CPU -> BOOLEAN]
        BY <1>0 DEF SendIpi, Goto, Process, TypeOK
    <2>7. ran' \in [CPU -> SUBSET (CPU \X (0..MaxCalls))]
        <3>1. Request(c) \in CPU \X (0..MaxCalls)
            BY <1>0 DEF TypeOK, Request
        <3> QED BY <1>0, <3>1 DEF SendIpi, TypeOK
    <2> QED BY <1>0, <2>1, <2>2, <2>3, <2>4, <2>5, <2>6, <2>7 DEF TypeOK
<1>2. Sound(c)'
    <2>1. CASE kind[c] = "async"
        <3>1. pc'[c] = "idle" /\ UNCHANGED <<back, left, msg, batch, cur>>
            BY <1>0, <2>1 DEF SendIpi, Goto, Process, TypeOK, shared, callRegs, poolRegs, procRegs
        <3> QED BY <1>0, <2>1, <3>1, NotNull DEF SendIpi, TypeOK, Sound, Serving, Returned
    <2>2. CASE kind[c] # "async"
        <3>1. pc'[c] = "wait" /\ UNCHANGED <<back, left, msg, batch, cur>>
            BY <1>0, <2>2 DEF SendIpi, Goto, Process, TypeOK, shared, callRegs, poolRegs, procRegs
        <3> QED BY <1>0, <2>2, <3>1, NotNull DEF SendIpi, TypeOK, Sound, Serving, Returned
    <2> QED BY <2>1, <2>2
<1>3. \A e \in CPU \ {c} : Same(e)
    BY <1>0 DEF SendIpi, Goto, Process, TypeOK, Same, shared, callRegs, poolRegs, procRegs
<1>4. NoLostWakeup'
    <2>1. \A d \in CPU : ipi'[d] = (ipi[d] \/ (need[c] /\ d \in to[c]))
        BY <1>0 DEF SendIpi
    <2>2. UNCHANGED queue /\ pc[c] = "ipi"
        BY DEF SendIpi
    <2>3. \A e \in CPU \ {c} : pc'[e] = pc[e] /\ need'[e] = need[e] /\ to'[e] = to[e]
        BY <1>0 DEF SendIpi, Goto, TypeOK
    <2> QED BY <1>0, <2>1, <2>2, <2>3 DEF NoLostWakeup
<1> QED BY <1>1, <1>2, <1>3, <1>4, Others DEF IInv

LEMMA WaitStep ==
    ASSUME IInv, NEW c \in CPU, Wait(c)
    PROVE  IInv'
<1>0. TypeOK /\ Sound(c) /\ NoLostWakeup
    BY DEF IInv
<1>1. TypeOK'
    <2>1. UNCHANGED <<pool, next, refs, async, body, queue, ipi, haltReq, kind, to, left,
                       need, msg, snap, nxt, batch, cur, isAsync, ran, calls>>
        BY DEF Wait, Goto, Process, shared, callRegs, poolRegs, procRegs, history
    <2>2. pc' \in [CPU -> Labels]
        <3>1. pc' = [pc EXCEPT ![c] = "link"] \/ pc' = [pc EXCEPT ![c] = "exchange"]
            BY <1>0 DEF Wait, Goto, Process, TypeOK
        <3> QED BY <1>0, <3>1 DEF TypeOK, Labels
    <2>3. back' \in [CPU -> {"idle", "load", "wait"}]
        BY <1>0 DEF Wait, Goto, Process, TypeOK
    <2> QED BY <1>0, <2>1, <2>2, <2>3 DEF TypeOK
<1>2. Sound(c)'
    <2>1. CASE refs[msg[c]] = 0
        <3>1. pc'[c] = "link" /\ UNCHANGED <<back, kind, to, left, msg, snap, batch, cur>>
            BY <1>0, <2>1 DEF Wait, Goto, Process, TypeOK, shared, callRegs, poolRegs, procRegs
        <3> QED BY <1>0, <2>1, <3>1, NotNull DEF Wait, TypeOK, Sound, Serving, Returned
    <2>2. CASE refs[msg[c]] # 0
        <3>1. pc'[c] = "exchange" /\ back'[c] = "wait" /\ UNCHANGED <<kind, to, left, msg, snap, batch, cur>>
            BY <1>0, <2>2 DEF Wait, Goto, Process, TypeOK, shared, callRegs, poolRegs, procRegs
        <3> QED BY <1>0, <2>2, <3>1, NotNull DEF Wait, TypeOK, Sound, Serving, Returned
    <2> QED BY <2>1, <2>2
<1>3. \A e \in CPU \ {c} : Same(e)
    BY <1>0 DEF Wait, Goto, Process, TypeOK, Same, shared, callRegs, poolRegs, procRegs
<1>4. NoLostWakeup'
    BY <1>0, <1>3, Quietly DEF Wait, Goto, Process, Same, shared, callRegs
<1> QED BY <1>1, <1>2, <1>3, <1>4, Others DEF IInv

LEMMA LinkStep ==
    ASSUME IInv, NEW c \in CPU, Link(c)
    PROVE  IInv'
<1>0. TypeOK /\ Sound(c) /\ NoLostWakeup
    BY DEF IInv
<1>1. TypeOK'
    <2>1. UNCHANGED <<pool, refs, async, body, queue, ipi, haltReq, back, kind, to, left,
                       need, msg, snap, nxt, batch, cur, isAsync, ran, calls>>
        BY DEF Link, Goto, Process, shared, callRegs, poolRegs, procRegs, history
    <2>2. next' \in [Msg -> Msg \union {Null}]
        BY <1>0 DEF Link, Goto, Process, TypeOK
    <2>3. pc' \in [CPU -> Labels]
        BY <1>0 DEF Link, Goto, Process, TypeOK, Labels
    <2> QED BY <1>0, <2>1, <2>2, <2>3 DEF TypeOK
<1>2. Sound(c)'
    BY <1>0, NotNull DEF Link, Goto, Process, TypeOK, Sound, Serving, Returned,
        shared, callRegs, poolRegs, procRegs
<1>3. \A e \in CPU \ {c} : Same(e)
    BY <1>0 DEF Link, Goto, Process, TypeOK, Same, shared, callRegs, poolRegs, procRegs
<1>4. NoLostWakeup'
    BY <1>0, <1>3, Quietly DEF Link, Goto, Process, Same, shared, callRegs
<1> QED BY <1>1, <1>2, <1>3, <1>4, Others DEF IInv

LEMMA PushStep ==
    ASSUME IInv, NEW c \in CPU, Push(c)
    PROVE  IInv'
<1>0. TypeOK /\ Sound(c) /\ NoLostWakeup
    BY DEF IInv
<1>p. Returned(c) \in Msg
    BY <1>0 DEF Push, TypeOK, Sound, Returned
<1>1. TypeOK'
    <2>1. UNCHANGED <<next, refs, async, body, queue, ipi, haltReq, back, left, need, nxt,
                       batch, cur, isAsync, ran, calls>>
        BY DEF Push, Goto, Process, shared, callRegs, poolRegs, procRegs, history
    <2>2. pool' \in Msg \union {Null}
        BY <1>0, <1>p DEF Push, TypeOK
    <2>3. pc' \in [CPU -> Labels]
        <3>1.
            \/ pc' = [pc EXCEPT ![c] = "check"]
            \/ pc' = [pc EXCEPT ![c] = "idle"]
            \/ pc' = [pc EXCEPT ![c] = "link"]
            BY <1>0 DEF Push, Goto, Process, TypeOK
        <3> QED BY <1>0, <3>1 DEF TypeOK, Labels
    <2>4. kind' \in [CPU -> Kinds \union {"none"}]
        BY <1>0 DEF Push, Goto, Process, TypeOK
    <2>5. to' \in [CPU -> SUBSET CPU]
        BY <1>0 DEF Push, Goto, Process, TypeOK
    <2>6. msg' \in [CPU -> Msg \union {Null}]
        BY <1>0 DEF Push, Goto, Process, TypeOK
    <2>7. snap' \in [CPU -> Msg \union {Null}]
        BY <1>0 DEF Push, Goto, Process, TypeOK
    <2> QED BY <1>0, <2>1, <2>2, <2>3, <2>4, <2>5, <2>6, <2>7 DEF TypeOK
<1>2. Sound(c)'
    <2>1. CASE pool = snap[c] /\ cur[c] # Null
        <3>1. pc'[c] = "check" /\ UNCHANGED <<back, kind, to, left, msg, batch, cur>>
            BY <1>0, <2>1 DEF Push, Goto, Process, TypeOK, shared, callRegs, poolRegs, procRegs
        <3> QED BY <1>0, <2>1, <3>1, NotNull DEF Push, TypeOK, Sound, Serving, Returned
    <2>2. CASE pool = snap[c] /\ cur[c] = Null
        <3>1. pc'[c] = "idle" /\ UNCHANGED <<back, left, batch, cur>>
            BY <1>0, <2>2 DEF Push, Goto, Process, TypeOK, shared, callRegs, poolRegs, procRegs
        <3> QED BY <1>0, <2>2, <3>1, NotNull DEF Push, TypeOK, Sound, Serving, Returned
    <2>3. CASE pool # snap[c]
        <3>1. pc'[c] = "link" /\ UNCHANGED <<back, kind, to, left, msg, batch, cur>>
            BY <1>0, <2>3 DEF Push, Goto, Process, TypeOK, shared, callRegs, poolRegs, procRegs
        <3> QED BY <1>0, <2>3, <3>1, NotNull DEF Push, TypeOK, Sound, Serving, Returned
    <2> QED BY <2>1, <2>2, <2>3
<1>3. \A e \in CPU \ {c} : Same(e)
    BY <1>0 DEF Push, Goto, Process, TypeOK, Same, shared, callRegs, poolRegs, procRegs
<1>4. NoLostWakeup'
    BY <1>0, <1>3, Quietly DEF Push, Goto, Process, Same, shared, callRegs
<1> QED BY <1>1, <1>2, <1>3, <1>4, Others DEF IInv

LEMMA ExchangeStep ==
    ASSUME IInv, NEW c \in CPU, Exchange(c)
    PROVE  IInv'
<1>0. TypeOK /\ Sound(c) /\ NoLostWakeup
    BY DEF IInv
<1>p. back[c] \in Labels
    BY <1>0 DEF TypeOK, Labels
<1>1. TypeOK'
    <2>1. UNCHANGED <<pool, next, refs, async, body, ipi, haltReq, back, kind, to, left, need,
                       msg, snap, nxt, cur, isAsync, ran, calls>>
        BY DEF Exchange, Goto, Process, shared, callRegs, poolRegs, procRegs, history
    <2>2. queue' \in [CPU -> Seq(Msg)]
        <3>1. <<>> \in Seq(Msg)
            OBVIOUS
        <3> QED BY <1>0, <3>1 DEF Exchange, TypeOK
    <2>3. pc' \in [CPU -> Labels]
        <3>1. \/ pc' = [pc EXCEPT ![c] = "halted"]
              \/ pc' = [pc EXCEPT ![c] = back[c]]
              \/ pc' = [pc EXCEPT ![c] = "run"]
            BY DEF Exchange, Goto
        <3> QED BY <1>0, <1>p, <3>1 DEF TypeOK, Labels
    <2>4. batch' \in [CPU -> Seq(Msg)]
        <3>1. InOrder(queue[c]) \in Seq(Msg)
            BY <1>0, Reversal DEF TypeOK
        <3> QED BY <1>0, <3>1 DEF Exchange, TypeOK
    <2> QED BY <1>0, <2>1, <2>2, <2>3, <2>4 DEF TypeOK
<1>2. Sound(c)'
    <2>1. UNCHANGED <<back, kind, to, left, msg, snap, cur>> /\ pc[c] = "exchange"
        BY DEF Exchange, callRegs, poolRegs
    <2>2. CASE queue[c] = <<>>
        <3>1. UNCHANGED batch /\ pc'[c] \in {"halted", back[c]}
            BY <1>0, <2>2 DEF Exchange, Goto, TypeOK
        <3> QED BY <1>0, <2>1, <3>1, NotNull DEF TypeOK, Sound, Serving
    <2>3. CASE queue[c] # <<>>
        <3>1. batch'[c] # <<>> /\ pc'[c] = "run"
            BY <1>0, <2>3, Reversal DEF Exchange, Goto, TypeOK
        <3> QED BY <1>0, <2>1, <3>1, NotNull DEF TypeOK, Sound, Serving
    <2> QED BY <2>2, <2>3
<1>3. \A e \in CPU \ {c} : Same(e)
    BY <1>0 DEF Exchange, Goto, Process, TypeOK, Same, shared, callRegs, poolRegs, procRegs
<1>4. NoLostWakeup'
    <2>1. UNCHANGED <<ipi, need, to>> /\ pc[c] = "exchange"
        BY DEF Exchange, callRegs
    <2>2. \A d \in CPU \ {c} : pc'[d] = pc[d] /\ queue'[d] = queue[d]
        BY <1>0 DEF Exchange, Goto, TypeOK
    <2>3. queue'[c] = <<>>
        BY <1>0 DEF Exchange, TypeOK
    <2> QED BY <1>0, <2>1, <2>2, <2>3 DEF NoLostWakeup
<1> QED BY <1>1, <1>2, <1>3, <1>4, Others DEF IInv

LEMMA RunStep ==
    ASSUME IInv, NEW c \in CPU, Run(c)
    PROVE  IInv'
<1>0. TypeOK /\ Sound(c) /\ NoLostWakeup
    BY DEF IInv
<1>p. /\ batch[c] \in Seq(Msg) /\ batch[c] # <<>>
      /\ Head(batch[c]) \in Msg /\ Tail(batch[c]) \in Seq(Msg)
    BY <1>0 DEF Run, TypeOK, Sound
<1>1. TypeOK'
    <2>1. UNCHANGED <<pool, next, refs, async, body, queue, ipi, haltReq, back, kind, to,
                       left, need, msg, snap, nxt, calls>>
        BY DEF Run, Goto, Process, shared, callRegs, poolRegs, procRegs, history
    <2>2. pc' \in [CPU -> Labels]
        BY <1>0 DEF Run, Goto, Process, TypeOK, Labels
    <2>3. batch' \in [CPU -> Seq(Msg)]
        BY <1>0, <1>p DEF Run, TypeOK
    <2>4. cur' \in [CPU -> Msg \union {Null}]
        BY <1>0, <1>p DEF Run, TypeOK
    <2>5. isAsync' \in [CPU -> BOOLEAN]
        <3>1. async[Head(batch[c])] \in BOOLEAN
            BY <1>0, <1>p DEF TypeOK
        <3> QED BY <1>0, <3>1 DEF Run, TypeOK
    <2>6. ran' \in [CPU -> SUBSET (CPU \X (0..MaxCalls))]
        <3>1. body[Head(batch[c])] \in CPU \X (0..MaxCalls)
            BY <1>0, <1>p DEF TypeOK
        <3> QED BY <1>0, <3>1 DEF Run, TypeOK
    <2> QED BY <1>0, <2>1, <2>2, <2>3, <2>4, <2>5, <2>6 DEF TypeOK
<1>2. Sound(c)'
    <2>1. /\ UNCHANGED <<back, kind, to, left, msg, snap>>
          /\ pc[c] = "run" /\ pc'[c] = "drop" /\ cur'[c] = Head(batch[c])
        BY <1>0 DEF Run, Goto, TypeOK, callRegs, poolRegs
    <2> QED BY <1>0, <1>p, <2>1, NotNull DEF TypeOK, Sound, Serving
<1>3. \A e \in CPU \ {c} : Same(e)
    BY <1>0 DEF Run, Goto, Process, TypeOK, Same, shared, callRegs, poolRegs, procRegs
<1>4. NoLostWakeup'
    BY <1>0, <1>3, Quietly DEF Run, Goto, Process, Same, shared, callRegs
<1> QED BY <1>1, <1>2, <1>3, <1>4, Others DEF IInv

LEMMA DropStep ==
    ASSUME IInv, NEW c \in CPU, Drop(c)
    PROVE  IInv'
<1>0. TypeOK /\ Sound(c) /\ NoLostWakeup
    BY DEF IInv
<1>1. TypeOK'
    <2>1. UNCHANGED <<pool, next, async, body, queue, ipi, haltReq, back, kind, to, left,
                       need, msg, snap, nxt, batch, cur, isAsync, ran, calls>>
        BY DEF Drop, Goto, Process, shared, callRegs, poolRegs, procRegs, history
    <2>2. refs' \in [Msg -> Int]
        <3>1. cur[c] \in Msg
            BY <1>0 DEF Drop, TypeOK, Sound
        <3> QED BY <1>0, <3>1 DEF Drop, TypeOK
    <2>3. pc' \in [CPU -> Labels]
        <3>1. pc' = [pc EXCEPT ![c] = "link"] \/ pc' = [pc EXCEPT ![c] = "check"]
            BY <1>0 DEF Drop, Goto, Process, TypeOK
        <3> QED BY <1>0, <3>1 DEF TypeOK, Labels
    <2> QED BY <1>0, <2>1, <2>2, <2>3 DEF TypeOK
<1>2. Sound(c)'
    BY <1>0, NotNull DEF Drop, Goto, Process, TypeOK, Sound, Serving, Returned,
        shared, callRegs, poolRegs, procRegs
<1>3. \A e \in CPU \ {c} : Same(e)
    BY <1>0 DEF Drop, Goto, Process, TypeOK, Same, shared, callRegs, poolRegs, procRegs
<1>4. NoLostWakeup'
    BY <1>0, <1>3, Quietly DEF Drop, Goto, Process, Same, shared, callRegs
<1> QED BY <1>1, <1>2, <1>3, <1>4, Others DEF IInv

LEMMA CheckStep ==
    ASSUME IInv, NEW c \in CPU, Check(c)
    PROVE  IInv'
<1>0. TypeOK /\ Sound(c) /\ NoLostWakeup
    BY DEF IInv
<1>p. back[c] \in Labels
    BY <1>0 DEF TypeOK, Labels
<1>1. TypeOK'
    <2>1. UNCHANGED <<pool, next, refs, async, body, queue, ipi, haltReq, back, kind, to,
                       left, need, msg, snap, nxt, batch, ran, calls>>
        BY DEF Check, Goto, Process, shared, callRegs, poolRegs, procRegs, history
    <2>2. pc' \in [CPU -> Labels]
        <3>1. \/ pc' = [pc EXCEPT ![c] = "halted"]
              \/ pc' = [pc EXCEPT ![c] = back[c]]
              \/ pc' = [pc EXCEPT ![c] = "run"]
            BY DEF Check, Goto
        <3> QED BY <1>0, <1>p, <3>1 DEF TypeOK, Labels
    <2>3. cur' \in [CPU -> Msg \union {Null}]
        BY <1>0 DEF Check, Goto, Process, TypeOK
    <2>4. isAsync' \in [CPU -> BOOLEAN]
        BY <1>0 DEF Check, Goto, Process, TypeOK
    <2> QED BY <1>0, <2>1, <2>2, <2>3, <2>4 DEF TypeOK
<1>2. Sound(c)'
    BY <1>0, NotNull DEF Check, Goto, Process, TypeOK, Sound, Serving, Returned,
        shared, callRegs, poolRegs, procRegs
<1>3. \A e \in CPU \ {c} : Same(e)
    BY <1>0 DEF Check, Goto, Process, TypeOK, Same, shared, callRegs, poolRegs, procRegs
<1>4. NoLostWakeup'
    BY <1>0, <1>3, Quietly DEF Check, Goto, Process, Same, shared, callRegs
<1> QED BY <1>1, <1>2, <1>3, <1>4, Others DEF IInv

LEMMA TakeIpiStep ==
    ASSUME IInv, NEW c \in CPU, TakeIpi(c)
    PROVE  IInv'
<1>0. TypeOK /\ Sound(c) /\ NoLostWakeup
    BY DEF IInv
<1>1. TypeOK'
    <2>1. UNCHANGED <<pool, next, refs, async, body, queue, haltReq, kind, to, left, need,
                       msg, snap, nxt, batch, cur, isAsync, ran, calls>>
        BY DEF TakeIpi, Goto, Process, shared, callRegs, poolRegs, procRegs, history
    <2>2. ipi' \in [CPU -> BOOLEAN]
        BY <1>0 DEF TakeIpi, Goto, Process, TypeOK
    <2>3. pc' \in [CPU -> Labels]
        BY <1>0 DEF TakeIpi, Goto, Process, TypeOK, Labels
    <2>4. back' \in [CPU -> {"idle", "load", "wait"}]
        BY <1>0 DEF TakeIpi, Goto, Process, TypeOK
    <2> QED BY <1>0, <2>1, <2>2, <2>3, <2>4 DEF TypeOK
<1>2. Sound(c)'
    BY <1>0, NotNull DEF TakeIpi, Goto, Process, TypeOK, Sound, Serving, Returned,
        shared, callRegs, poolRegs, procRegs
<1>3. \A e \in CPU \ {c} : Same(e)
    BY <1>0 DEF TakeIpi, Goto, Process, TypeOK, Same, shared, callRegs, poolRegs, procRegs
<1>4. NoLostWakeup'
    BY <1>0 DEF TakeIpi, Goto, Process, TypeOK, NoLostWakeup, shared, callRegs
<1> QED BY <1>1, <1>2, <1>3, <1>4, Others DEF IInv

LEMMA OtherTrapStep ==
    ASSUME IInv, NEW c \in CPU, OtherTrap(c)
    PROVE  IInv'
<1>0. TypeOK /\ Sound(c) /\ NoLostWakeup
    BY DEF IInv
<1>1. TypeOK'
    <2>1. UNCHANGED <<pool, next, refs, async, body, queue, ipi, haltReq, kind, to, left,
                       need, msg, snap, nxt, batch, cur, isAsync, ran, calls>>
        BY DEF OtherTrap, Goto, Process, shared, callRegs, poolRegs, procRegs, history
    <2>2. pc' \in [CPU -> Labels]
        BY <1>0 DEF OtherTrap, Goto, Process, TypeOK, Labels
    <2>3. back' \in [CPU -> {"idle", "load", "wait"}]
        BY <1>0 DEF OtherTrap, Goto, Process, TypeOK
    <2> QED BY <1>0, <2>1, <2>2, <2>3 DEF TypeOK
<1>2. Sound(c)'
    BY <1>0, NotNull DEF OtherTrap, Goto, Process, TypeOK, Sound, Serving, Returned,
        shared, callRegs, poolRegs, procRegs
<1>3. \A e \in CPU \ {c} : Same(e)
    BY <1>0 DEF OtherTrap, Goto, Process, TypeOK, Same, shared, callRegs, poolRegs, procRegs
<1>4. NoLostWakeup'
    BY <1>0, <1>3, Quietly DEF OtherTrap, Goto, Process, Same, shared, callRegs
<1> QED BY <1>1, <1>2, <1>3, <1>4, Others DEF IInv

LEMMA HaltStep ==
    ASSUME IInv, NEW c \in CPU, Halt(c)
    PROVE  IInv'
<1>0. TypeOK /\ Sound(c) /\ NoLostWakeup
    BY DEF IInv
<1>1. TypeOK'
    <2>1. UNCHANGED <<pool, next, refs, async, body, queue, ipi, haltReq, back, kind, to,
                       need, msg, snap, nxt, batch, cur, isAsync, ran, calls>>
        BY DEF Halt, Goto, Process, shared, callRegs, poolRegs, procRegs, history
    <2>2. pc' \in [CPU -> Labels]
        BY <1>0 DEF Halt, Goto, Process, TypeOK, Labels
    <2>3. left' \in [CPU -> SUBSET CPU]
        BY <1>0 DEF Halt, Goto, Process, TypeOK
    <2> QED BY <1>0, <2>1, <2>2, <2>3 DEF TypeOK
<1>2. Sound(c)'
    BY <1>0, NotNull DEF Halt, Goto, Process, TypeOK, Sound, Serving, Returned,
        shared, callRegs, poolRegs, procRegs
<1>3. \A e \in CPU \ {c} : Same(e)
    BY <1>0 DEF Halt, Goto, Process, TypeOK, Same, shared, callRegs, poolRegs, procRegs
<1>4. NoLostWakeup'
    BY <1>0, <1>3, Quietly DEF Halt, Goto, Process, Same, shared, callRegs
<1> QED BY <1>1, <1>2, <1>3, <1>4, Others DEF IInv

LEMMA HaltStoreStep ==
    ASSUME IInv, NEW c \in CPU, HaltStore(c)
    PROVE  IInv'
<1>0. TypeOK /\ Sound(c) /\ NoLostWakeup
    BY DEF IInv
<1>p. PICK d \in left[c] :
        /\ haltReq' = [haltReq EXCEPT ![d] = TRUE]
        /\ left' = [left EXCEPT ![c] = @ \ {d}]
        /\ IF left[c] = {d} THEN Goto(c, "haltIpi") ELSE UNCHANGED pc
    BY DEF HaltStore
<1>q. pc[c] = "haltStore" /\ (pc' = [pc EXCEPT ![c] = "haltIpi"] \/ pc' = pc)
    BY <1>p DEF HaltStore, Goto
<1>1. TypeOK'
    <2>1. UNCHANGED <<pool, next, refs, async, body, queue, ipi, back, kind, to, need, msg,
                       snap, nxt, batch, cur, isAsync, ran, calls>>
        BY DEF HaltStore, Goto, Process, shared, callRegs, poolRegs, procRegs, history
    <2>2. haltReq' \in [CPU -> BOOLEAN]
        BY <1>0, <1>p DEF TypeOK
    <2>3. pc' \in [CPU -> Labels]
        <3>1. pc' = [pc EXCEPT ![c] = "haltIpi"] \/ pc' = pc
            BY <1>q
        <3>2. pc \in [CPU -> Labels]
            BY <1>0 DEF TypeOK
        <3> QED BY <3>1, <3>2 DEF Labels
    <2>4. left' \in [CPU -> SUBSET CPU]
        BY <1>0, <1>p DEF TypeOK
    <2> QED BY <1>0, <2>1, <2>2, <2>3, <2>4 DEF TypeOK
<1>2. Sound(c)'
    <2>1. UNCHANGED <<back, kind, to, msg, snap, batch, cur>>
        BY DEF HaltStore, poolRegs, procRegs
    <2>2. pc'[c] \in {"haltStore", "haltIpi"}
        BY <1>0, <1>q DEF TypeOK
    <2> QED BY <1>0, <1>q, <2>1, <2>2 DEF Sound, Serving
<1>3. \A e \in CPU \ {c} : Same(e)
    BY <1>0, <1>p, <1>q DEF HaltStore, TypeOK, Same, poolRegs, procRegs
<1>4. NoLostWakeup'
    BY <1>0, <1>q, <1>3, Quietly DEF HaltStore, Same
<1> QED BY <1>1, <1>2, <1>3, <1>4, Others DEF IInv

LEMMA HaltIpiStep ==
    ASSUME IInv, NEW c \in CPU, HaltIpi(c)
    PROVE  IInv'
<1>0. TypeOK /\ Sound(c) /\ NoLostWakeup
    BY DEF IInv
<1>1. TypeOK'
    <2>1. UNCHANGED <<pool, next, refs, async, body, queue, haltReq, back, kind, to, left,
                       need, msg, snap, nxt, batch, cur, isAsync, ran, calls>>
        BY DEF HaltIpi, Goto, Process, shared, callRegs, poolRegs, procRegs, history
    <2>2. ipi' \in [CPU -> BOOLEAN]
        BY <1>0 DEF HaltIpi, Goto, Process, TypeOK
    <2>3. pc' \in [CPU -> Labels]
        BY <1>0 DEF HaltIpi, Goto, Process, TypeOK, Labels
    <2> QED BY <1>0, <2>1, <2>2, <2>3 DEF TypeOK
<1>2. Sound(c)'
    BY <1>0, NotNull DEF HaltIpi, Goto, Process, TypeOK, Sound, Serving, Returned,
        shared, callRegs, poolRegs, procRegs
<1>3. \A e \in CPU \ {c} : Same(e)
    BY <1>0 DEF HaltIpi, Goto, Process, TypeOK, Same, shared, callRegs, poolRegs, procRegs
<1>4. NoLostWakeup'
    BY <1>0 DEF HaltIpi, Goto, Process, TypeOK, NoLostWakeup, shared, callRegs
<1> QED BY <1>1, <1>2, <1>3, <1>4, Others DEF IInv

LEMMA StutterStep == ASSUME IInv, UNCHANGED vars PROVE IInv'
BY DEF IInv, vars, shared, callRegs, poolRegs, procRegs, history, TypeOK, Sound, Serving,
    Returned, NoLostWakeup

\* The invariant holds whatever the processors call and however they interleave.
THEOREM Inductive == Spec => []IInv
<1>1. Init => IInv
    BY InitIInv
<1>2. IInv /\ [Next]_vars => IInv'
    <2> SUFFICES ASSUME IInv, [Next]_vars PROVE IInv'
        OBVIOUS
    <2>1. ASSUME NEW c \in CPU, FlushTlb(c) \/ Unicast(c) PROVE IInv'
        <3>1. CPU \ {c} \in SUBSET CPU /\ \A d \in CPU : {d} \in SUBSET CPU
            OBVIOUS
        <3>2. \A k, S : Begin(c, k, S) => k \in Kinds
            BY DEF Begin
        <3>3. PICK k \in Kinds, S \in SUBSET CPU : Begin(c, k, S)
            BY <2>1, <3>1, <3>2 DEF FlushTlb, Unicast
        <3> QED BY <3>3, BeginStep
    <2>2. ASSUME NEW c \in CPU, Halt(c) \/ TakeIpi(c) \/ OtherTrap(c) PROVE IInv'
        BY <2>2, HaltStep, TakeIpiStep, OtherTrapStep
    <2>3. ASSUME NEW c \in CPU, Step(c) PROVE IInv'
        BY <2>3, LoadPoolStep, ReadNextStep, PopStep, FillStep, EnqueueStep, SendIpiStep,
            WaitStep, LinkStep, PushStep, ExchangeStep, RunStep, DropStep, CheckStep,
            HaltStoreStep, HaltIpiStep DEF Step
    <2>4. CASE UNCHANGED vars
        BY <2>4, StutterStep
    <2> QED BY <2>1, <2>2, <2>3, <2>4 DEF Next
<1> QED BY <1>1, <1>2, PTL DEF Spec

\* The pool, the queues and the locals of every processor keep their types.
THEOREM TypeCorrect == Spec => []TypeOK
<1>1. IInv => TypeOK
    BY DEF IInv
<1> QED BY <1>1, Inductive, PTL

\* No null message is followed: an empty pool, and the switch from the sender's
\* message to one it serves meanwhile, are handled for any number of processors.
THEOREM PointersFollowed == Spec => []NeverFollowsNull
<1>1. IInv => NeverFollowsNull
    BY DEF IInv, Sound, NeverFollowsNull
<1> QED BY <1>1, Inductive, PTL

\* One interrupt per call, and none to queues that were not empty, is enough for
\* any number of processors.
THEOREM WakesUp == Spec => []NoLostWakeup
<1>1. IInv => NoLostWakeup
    BY DEF IInv
<1> QED BY <1>1, Inductive, PTL

-----------------------------------------------------------------------------
(* Calls to all the others.                                                 *)
(*                                                                          *)
(* Ownership.  The pool is a list whose pop compares its head only, so the  *)
(* proof has to show that a head read before is still followed by the       *)
(* message read with it.  It is, because a processor that is between the    *)
(* two instructions answers no message: whoever takes the message           *)
(* meanwhile needs its answer before the message can come back              *)
(* (StillThere).  This is what fails for a unicast among three processors.  *)
(*                                                                          *)
(* Delivery.  Each step of a processor posts, serves, begins or returns as  *)
(* the abstract specification does, or changes nothing it sees.  That       *)
(* needs Ownership: a message somebody has yet to serve is not filled       *)
(* anew, and one whose count is zero has been served by all.                *)

\* Each call goes to all the other processors: flush_tlb always does, a unicast
\* when there are two.
ToAllOthers == NumCPU = 2 \/ Kinds \subseteq {"flush"}

-----------------------------------------------------------------------------
(* Numbers and sequences.                                                   *)

Below == {p \in Nat \X Nat : p[1] < p[2]}

\* A set of numbers has a least one: the induction the pool's first state needs.
LEMMA LeastNumber ==
    ASSUME NEW S \in SUBSET Nat, S # {}
    PROVE  \E n \in S : \A k \in S : n <= k
<1>1. OpToRel(<, Nat) = Below
    BY DEF OpToRel, Below
<1>2. IsWellFoundedOn(Below, Nat) /\ S \subseteq Nat
    BY <1>1, NatLessThanWellFounded
<1>3. PICK n \in S : \A k \in S : ~(<<k, n>> \in Below)
    BY <1>2, WFMin
<1>4. ASSUME NEW k \in S PROVE n <= k
    <2>1. n \in Nat /\ k \in Nat
        OBVIOUS
    <2>2. ~(k < n)
        BY <1>3, <2>1 DEF Below
    <2> QED BY <2>1, <2>2
<1> QED BY <1>4

\* What smp_enqueue_message does to a queue.
LEMMA Posted ==
    ASSUME NEW q \in Seq(Msg), NEW m \in Msg
    PROVE  /\ ToSet(<<m>> \o q) = {m} \union ToSet(q)
           /\ IsInjective(q) /\ m \notin ToSet(q) => IsInjective(<<m>> \o q)
<1> DEFINE r == <<m>> \o q
<1>1. Len(r) = Len(q) + 1 /\ r[1] = m /\ \A i \in 1..Len(q) : r[i + 1] = q[i]
    OBVIOUS
<1>2. DOMAIN r = 1..(Len(q) + 1) /\ DOMAIN q = 1..Len(q) /\ Len(q) \in Nat
    BY <1>1
<1>3. \A i \in 2..(Len(q) + 1) : i - 1 \in 1..Len(q) /\ r[i] = q[i - 1]
    BY <1>1, <1>2
<1>4. \A i \in 1..(Len(q) + 1) : i = 1 \/ i \in 2..(Len(q) + 1)
    BY <1>2
<1> HIDE DEF r
<1>5. ToSet(r) = {m} \union ToSet(q)
    <2>1. ToSet(r) \subseteq {m} \union ToSet(q)
        BY <1>1, <1>2, <1>3, <1>4 DEF ToSet
    <2>2. m \in ToSet(r)
        BY <1>1, <1>2 DEF ToSet
    <2>3. ASSUME NEW i \in 1..Len(q) PROVE q[i] \in ToSet(r)
        <3>1. i + 1 \in DOMAIN r /\ r[i + 1] = q[i]
            BY <1>1, <1>2
        <3> QED BY <3>1 DEF ToSet
    <2> QED BY <1>2, <2>1, <2>2, <2>3 DEF ToSet
<1>6. ASSUME IsInjective(q), m \notin ToSet(q) PROVE IsInjective(r)
    <2>1. SUFFICES ASSUME NEW i \in DOMAIN r, NEW j \in DOMAIN r, r[i] = r[j] PROVE i = j
        BY DEF IsInjective
    <2>2. \A k \in 2..(Len(q) + 1) : r[k] # m
        BY <1>2, <1>3, <1>6 DEF ToSet
    <2>3. CASE i = 1 \/ j = 1
        BY <1>1, <1>2, <1>4, <2>1, <2>2, <2>3
    <2>4. CASE i # 1 /\ j # 1
        <3>1. i - 1 \in DOMAIN q /\ j - 1 \in DOMAIN q /\ q[i - 1] = q[j - 1]
            BY <1>2, <1>3, <1>4, <2>1, <2>4
        <3>2. i - 1 = j - 1
            BY <1>6, <3>1 DEF IsInjective
        <3> QED BY <1>2, <3>2
    <2> QED BY <2>3, <2>4
<1> QED BY <1>5, <1>6 DEF r

\* What smp_process_pending_messages makes of the queue it has exchanged.
LEMMA Reversed ==
    ASSUME NEW q \in Seq(Msg)
    PROVE  /\ ToSet(InOrder(q)) = ToSet(q)
           /\ IsInjective(q) => IsInjective(InOrder(q))
<1> DEFINE r == InOrder(q)
<1>1. r = [i \in 1..Len(q) |-> q[Len(q) - i + 1]] /\ Len(q) \in Nat /\ DOMAIN q = 1..Len(q)
    BY DEF InOrder, Reverse
<1>2. \A i \in 1..Len(q) : Len(q) - i + 1 \in 1..Len(q) /\ r[i] = q[Len(q) - i + 1]
    BY <1>1
<1>3. \A i \in 1..Len(q) : q[i] = r[Len(q) - i + 1]
    <2> TAKE i \in 1..Len(q)
    <2>1. Len(q) - i + 1 \in 1..Len(q) /\ Len(q) - (Len(q) - i + 1) + 1 = i
        BY <1>1
    <2> QED BY <1>2, <2>1
<1>4. DOMAIN r = 1..Len(q)
    BY <1>1
<1> HIDE DEF r
<1>5. ToSet(r) = ToSet(q)
    <2>1. \A i \in DOMAIN r : \E j \in DOMAIN q : r[i] = q[j]
        BY <1>1, <1>2, <1>4
    <2>2. \A j \in DOMAIN q : \E i \in DOMAIN r : r[i] = q[j]
        <3> TAKE j \in DOMAIN q
        <3>1. Len(q) - j + 1 \in DOMAIN r /\ r[Len(q) - j + 1] = q[j]
            BY <1>1, <1>2, <1>3, <1>4
        <3> QED BY <3>1
    <2> QED BY <2>1, <2>2 DEF ToSet
<1>6. ASSUME IsInjective(q) PROVE IsInjective(r)
    <2>1. SUFFICES ASSUME NEW i \in DOMAIN r, NEW j \in DOMAIN r, r[i] = r[j] PROVE i = j
        BY DEF IsInjective
    <2>2. i \in 1..Len(q) /\ j \in 1..Len(q)
        BY <1>4
    <2>3. Len(q) - i + 1 = Len(q) - j + 1
        BY <1>1, <1>2, <1>6, <2>1, <2>2 DEF IsInjective
    <2> QED BY <1>1, <2>2, <2>3
<1> QED BY <1>5, <1>6 DEF r

\* The first message of a batch and those that remain.
LEMMA FirstAndRest ==
    ASSUME NEW q \in Seq(Msg), q # <<>>, IsInjective(q)
    PROVE  /\ ToSet(q) = {Head(q)} \union ToSet(Tail(q))
           /\ Head(q) \notin ToSet(Tail(q))
           /\ IsInjective(Tail(q))
<1> DEFINE t == Tail(q)
<1>1. /\ Len(q) \in Nat \ {0} /\ DOMAIN q = 1..Len(q) /\ Head(q) = q[1]
      /\ t \in Seq(Msg) /\ Len(t) = Len(q) - 1 /\ DOMAIN t = 1..(Len(q) - 1)
      /\ \A i \in 1..(Len(q) - 1) : t[i] = q[i + 1]
    OBVIOUS
<1> HIDE DEF t
<1>2. \A i \in 1..(Len(q) - 1) : i + 1 \in DOMAIN q /\ t[i] = q[i + 1]
    BY <1>1
<1>3. \A i \in DOMAIN q : i = 1 \/ (i - 1 \in DOMAIN t /\ q[i] = t[i - 1])
    <2> TAKE i \in DOMAIN q
    <2>1. i = 1 \/ (i - 1 \in 1..(Len(q) - 1) /\ (i - 1) + 1 = i)
        BY <1>1
    <2> QED BY <1>1, <2>1
<1>4. 1 \in DOMAIN q
    BY <1>1
<1>5. ToSet(q) = {Head(q)} \union ToSet(t)
    <2>1. \A i \in DOMAIN q : q[i] = Head(q) \/ \E j \in DOMAIN t : q[i] = t[j]
        BY <1>1, <1>3
    <2>2. Head(q) \in ToSet(q)
        BY <1>1, <1>4 DEF ToSet
    <2>3. \A j \in DOMAIN t : \E i \in DOMAIN q : q[i] = t[j]
        BY <1>1, <1>2
    <2> QED BY <2>1, <2>2, <2>3 DEF ToSet
<1>6. Head(q) \notin ToSet(t)
    <2> SUFFICES ASSUME NEW i \in 1..(Len(q) - 1), t[i] = q[1] PROVE FALSE
        BY <1>1 DEF ToSet
    <2>1. i + 1 = 1
        BY <1>2, <1>4 DEF IsInjective
    <2> QED BY <1>1, <2>1
<1>7. IsInjective(t)
    <2>1. SUFFICES ASSUME NEW i \in DOMAIN t, NEW j \in DOMAIN t, t[i] = t[j] PROVE i = j
        BY DEF IsInjective
    <2>2. i + 1 = j + 1
        BY <1>1, <1>2, <2>1 DEF IsInjective
    <2> QED BY <1>1, <2>2
<1> QED BY <1>5, <1>6, <1>7 DEF t

-----------------------------------------------------------------------------
(* The free list.                                                           *)

\* The list is a set that holds its head and follows next ...
LEMMA FreeFollows ==
    ASSUME TypeOK
    PROVE  FollowsList(Free) /\ Free \subseteq Msg
BY DEF TypeOK, FollowsList, Free

\* ... and the least one.
LEMMA FreeLeast ==
    ASSUME NEW F \in SUBSET Msg, FollowsList(F)
    PROVE  Free \subseteq F
BY DEF Free

LEMMA FreeLeastNext ==
    ASSUME NEW F \in SUBSET Msg, FollowsList(F)'
    PROVE  Free' \subseteq F
BY DEF Free

LEMMA FreeFollowsNext ==
    ASSUME TypeOK'
    PROVE  /\ pool' \in Free' \union {Null} /\ Free' \subseteq Msg
           /\ \A m \in Free' : next'[m] \in Free' \union {Null}
BY DEF TypeOK, FollowsList, Free

\* No two free messages are followed by the same one, and none by the first.
List ==
    /\ \A k \in Free : next[k] # Null => next[k] # pool
    /\ \A k, l \in Free : next[k] = next[l] /\ next[k] # Null => k = l

LEMMA ListKept ==
    ASSUME UNCHANGED <<pool, next>>
    PROVE  Free' = Free /\ (List => List')
BY DEF Free, FollowsList, List

\* A pop whose next is still right takes the first message, and nothing else.
LEMMA ListPopped ==
    ASSUME TypeOK, TypeOK', List, pool # Null, pool' = next[pool], next' = next
    PROVE  Free' = Free \ {pool} /\ List' /\ pool \in Free
<1>1. pool \in Free /\ next[pool] \in Free \union {Null} /\ Free \subseteq Msg
    BY FreeFollows DEF FollowsList
<1>2. Free' \subseteq Free \ {pool}
    <2> SUFFICES ASSUME NEW F \in SUBSET Msg, F = Free \ {pool} PROVE Free' \subseteq F
        BY <1>1
    <2>1. FollowsList(F)'
        BY <1>1, FreeFollows DEF FollowsList, List
    <2> QED BY <2>1, FreeLeastNext
<1>3. Free \subseteq Free' \union {pool}
    <2>0. Free' \union {pool} \in SUBSET Msg
        BY <1>1, FreeFollowsNext
    <2> SUFFICES ASSUME NEW F \in SUBSET Msg, F = Free' \union {pool} PROVE Free \subseteq F
        BY <2>0
    <2>1. FollowsList(F)
        BY FreeFollowsNext DEF FollowsList
    <2> QED BY <2>1, FreeLeast
<1>4. List'
    BY <1>1, <1>2 DEF List
<1> QED BY <1>1, <1>2, <1>3, <1>4

\* A push whose head is still the one that was linked adds one message.
LEMMA ListPushed ==
    ASSUME TypeOK, TypeOK', List, NEW m \in Msg, m \notin Free,
           next[m] = pool, pool' = m, next' = next
    PROVE  Free' = Free \union {m} /\ List'
<1>1. FollowsList(Free) /\ Free \subseteq Msg
    BY FreeFollows
<1>2. Free' \subseteq Free \union {m}
    <2>0. Free \union {m} \in SUBSET Msg
        BY <1>1
    <2> SUFFICES ASSUME NEW F \in SUBSET Msg, F = Free \union {m} PROVE Free' \subseteq F
        BY <2>0
    <2>1. FollowsList(F)'
        BY <1>1 DEF FollowsList
    <2> QED BY <2>1, FreeLeastNext
<1>3. Free \union {m} \subseteq Free'
    <2> SUFFICES ASSUME NEW F \in SUBSET Msg, F = Free' PROVE Free \subseteq F /\ m \in F
        BY FreeFollowsNext
    <2>1. m \in F
        BY FreeFollowsNext, NotNull
    <2>2. FollowsList(F)
        BY <2>1, FreeFollowsNext DEF FollowsList
    <2> QED BY <2>1, <2>2, FreeLeast
<1>4. List'
    <2>1. Free' = Free \union {m}
        BY <1>2, <1>3
    <2>2. \A k \in Free : next[k] # m /\ (next[k] # Null => next[k] # next[m])
        BY <1>1, NotNull DEF FollowsList, List
    <2>3. next[m] # m
        BY <1>1, NotNull DEF FollowsList
    <2> QED BY <2>1, <2>2, <2>3 DEF List
<1> QED BY <1>2, <1>3, <1>4

\* Linking a message that is not free changes nothing in the list.
LEMMA ListLinked ==
    ASSUME TypeOK, TypeOK', List, NEW m \in Msg, m \notin Free, pool' = pool,
           NEW x, next' = [next EXCEPT ![m] = x]
    PROVE  Free' = Free /\ List'
<1>1. FollowsList(Free) /\ Free \subseteq Msg
    BY FreeFollows
<1>2. \A k \in Free : next'[k] = next[k]
    BY <1>1 DEF TypeOK
<1>3. Free' \subseteq Free
    <2> SUFFICES ASSUME NEW F \in SUBSET Msg, F = Free PROVE Free' \subseteq F
        BY <1>1
    <2>1. FollowsList(F)'
        BY <1>1, <1>2 DEF FollowsList
    <2> QED BY <2>1, FreeLeastNext
<1>4. Free \subseteq Free'
    <2>0. Free \intersect Free' \in SUBSET Msg
        BY <1>1
    <2> SUFFICES ASSUME NEW F \in SUBSET Msg, F = Free \intersect Free' PROVE Free \subseteq F
        BY <2>0
    <2>1. FollowsList(F)
        BY <1>1, <1>2, FreeFollowsNext DEF FollowsList
    <2> QED BY <2>1, FreeLeast
<1>5. Free' = Free
    BY <1>3, <1>4
<1> QED BY <1>1, <1>2, <1>5 DEF List

-----------------------------------------------------------------------------
(* The invariant.                                                            *)

\* c has m in its queue or its batch, or is about to drop it.
InHand(c, m) ==
    \/ m \in ToSet(queue[c]) \union ToSet(batch[c])
    \/ cur[c] = m /\ pc[c] = "drop"

\* A sender has yet to post m to c.
Promised(c, m) == \E s \in CPU : pc[s] = "enqueue" /\ msg[s] = m /\ c \in left[s]

\* c was the last to handle m, and returns it.
Returning(c, m) == cur[c] = m /\ pc[c] \in {"link", "push"}

Filling(c, m) == msg[c] = m /\ pc[c] = "fill"

\* c has seen the count of its own message at zero.
Answered(c, m) == msg[c] = m /\ pc[c] \in {"link", "push"} /\ cur[c] = Null

AllOthers(c) == to[c] = CPU \ {c} /\ left[c] = to[c]

\* What a processor finds in its registers, also after it served its own queue.
Registers(c) ==
    /\ pc[c] \in {"load", "next", "pop", "fill"} => AllOthers(c)
    /\ Serving(c) /\ back[c] = "load" => AllOthers(c)
    /\ pc[c] = "enqueue" => left[c] # {} /\ c \notin left[c]
    /\ pc[c] \in {"idle", "load", "next", "pop", "haltStore", "haltIpi"} => msg[c] = Null
    /\ Serving(c) /\ back[c] \in {"idle", "load"} => msg[c] = Null
    /\ pc[c] = "ipi" /\ kind[c] = "async" => msg[c] = Null
    /\ pc[c] \notin {"run", "drop", "check", "halted"} /\ cur[c] = Null => batch[c] = <<>>

\* No processor is to handle a message twice.
HandledOnce(c) ==
    /\ IsInjective(queue[c]) /\ IsInjective(batch[c])
    /\ \A m \in Msg :
          /\ m \in ToSet(queue[c]) => m \notin ToSet(batch[c])
          /\ cur[c] = m /\ pc[c] = "drop" => m \notin ToSet(queue[c]) \union ToSet(batch[c])
          /\ Promised(c, m) => ~InHand(c, m)

\* A message is free, or one processor's, or on its way to those it counts.
Owned(m) ==
    /\ \A c, d \in CPU : msg[c] = m /\ msg[d] = m => c = d
    /\ \A c \in CPU : Returning(c, m) =>
          /\ Outstanding(m) = {}
          /\ \A d \in CPU : msg[d] # m /\ (Returning(d, m) => d = c)
    /\ m \in Free =>
          /\ Outstanding(m) = {}
          /\ \A c \in CPU : msg[c] # m /\ ~Returning(c, m)
    /\ \A c \in CPU : Filling(c, m) \/ Answered(c, m) => Outstanding(m) = {}
    /\ refs[m] = Cardinality(Outstanding(m))
    /\ Outstanding(m) # {} /\ ~async[m] => \E c \in CPU : msg[c] = m
    /\ m \in Free \/ Outstanding(m) # {} \/ \E c \in CPU : msg[c] = m \/ Returning(c, m)

\* An asynchronous message has no owner once it is posted, and is known as one.
Async(c) ==
    \A m \in Msg :
        /\ msg[c] = m /\ pc[c] = "enqueue" => async[m] = (kind[c] = "async")
        /\ msg[c] = m /\ pc[c] \notin {"fill", "enqueue"} => ~async[m]
        /\ cur[c] = m /\ pc[c] = "drop" => isAsync[c] = async[m]

\* The message a processor is about to take is still in the pool, or cannot come
\* back before the processor has answered it; so its next is what was read.
StillThere(c) ==
    \A m \in Msg :
        /\ snap[c] = m /\ pc[c] \in {"next", "pop"} =>
              m \in Free \/ c \in Outstanding(m) \/ \E s \in CPU : Filling(s, m)
        /\ snap[c] = m /\ pc[c] = "pop" => nxt[c] = next[m]
        /\ Returned(c) = m /\ pc[c] = "push" => next[m] = snap[c]

PerProcessor(c) == Registers(c) /\ HandledOnce(c) /\ Async(c) /\ StillThere(c)

Ownership == List /\ (\A m \in Msg : Owned(m)) /\ (\A c \in CPU : PerProcessor(c))

LEMMA OutstandingIs ==
    ASSUME NEW m \in Msg
    PROVE  Outstanding(m) = {c \in CPU : InHand(c, m) \/ Promised(c, m)}
BY DEF Outstanding, InHand, Promised

LEMMA OutstandingIsNext ==
    ASSUME NEW m \in Msg
    PROVE  Outstanding(m)' = {c \in CPU : InHand(c, m)' \/ Promised(c, m)'}
BY DEF Outstanding, InHand, Promised

LEMMA AnswersFinite ==
    ASSUME NEW m \in Msg
    PROVE  IsFiniteSet(Outstanding(m)) /\ Outstanding(m) \subseteq CPU
<1>1. IsFiniteSet(CPU)
    BY FS_Interval, SmpAssumption DEF CPU
<1>2. Outstanding(m) \subseteq CPU
    BY DEF Outstanding
<1> QED BY <1>1, <1>2, FS_Subset

\* A step leaves the registers of another processor alone.
Still(d) == Same(d) /\ nxt'[d] = nxt[d] /\ isAsync'[d] = isAsync[d]

LEMMA OtherRegisters ==
    ASSUME Ownership, NEW c \in CPU, \A d \in CPU \ {c} : Still(d)
    PROVE  \A d \in CPU \ {c} : Registers(d)'
BY DEF Ownership, PerProcessor, Registers, AllOthers, Serving, Still, Same

\* Who is to answer is the same when nothing is posted, taken or dropped.
LEMMA SameAnswers ==
    ASSUME NEW c \in CPU, \A d \in CPU \ {c} : Still(d), queue' = queue, batch'[c] = batch[c],
           pc[c] \notin {"enqueue", "drop"}, pc'[c] \notin {"enqueue", "drop"}
    PROVE  /\ \A d \in CPU, m \in Msg : /\ InHand(d, m)' = InHand(d, m)
                                       /\ Promised(d, m)' = Promised(d, m)
           /\ \A m \in Msg : Outstanding(m)' = Outstanding(m)
<1>1. ASSUME NEW d \in CPU, NEW m \in Msg PROVE InHand(d, m)' = InHand(d, m)
    BY DEF Still, Same, InHand
<1>2. ASSUME NEW d \in CPU, NEW m \in Msg PROVE Promised(d, m)' = Promised(d, m)
    BY DEF Still, Same, Promised
<1> QED BY <1>1, <1>2, OutstandingIs, OutstandingIsNext

\* The steps that move one processor without touching the pool or a message.
LEMMA Quiet ==
    ASSUME TypeOK, Ownership, NEW c \in CPU, \A d \in CPU \ {c} : Still(d),
           UNCHANGED <<pool, next, refs, async, queue>>,
           msg'[c] = msg[c], batch'[c] = batch[c],
           {pc[c], pc'[c]} \intersect {"fill", "enqueue", "drop"} = {},
           pc[c] \in {"link", "push"} => pc'[c] \in {"link", "push"},
           pc'[c] \in {"link", "push"} =>
               /\ pc'[c] = "link" /\ cur'[c] = cur[c]
               /\ pc[c] \in {"link", "push"} \/ (cur[c] = Null /\ Outstanding(msg[c]) = {}),
           pc'[c] = "next" => snap'[c] = pool /\ pool # Null,
           pc'[c] = "pop" => pc[c] = "next" /\ snap'[c] = snap[c] /\ nxt'[c] = next[snap[c]],
           Registers(c)'
    PROVE  Ownership'
<1>1. /\ \A d \in CPU, m \in Msg : /\ InHand(d, m)' = InHand(d, m)
                                   /\ Promised(d, m)' = Promised(d, m)
      /\ \A m \in Msg : Outstanding(m)' = Outstanding(m)
    BY SameAnswers
<1>2. Free' = Free /\ List'
    BY ListKept DEF Ownership
<1>3. ASSUME NEW d \in CPU, NEW m \in Msg
      PROVE  /\ Returning(d, m)' = Returning(d, m)
             /\ Filling(d, m)' = Filling(d, m)
             /\ Answered(d, m)' => Answered(d, m) \/ Outstanding(m) = {}
             /\ msg'[d] = msg[d]
    <2>1. CASE d # c
        BY <2>1 DEF Still, Same, Returning, Filling, Answered
    <2>2. CASE d = c
        <3>1. Returning(c, m)' = Returning(c, m) /\ Filling(c, m)' = Filling(c, m)
            BY NotNull DEF Returning, Filling
        <3>2. Answered(c, m)' => Answered(c, m) \/ Outstanding(m) = {}
            BY DEF Answered
        <3> QED BY <2>2, <3>1, <3>2
    <2> QED BY <2>1, <2>2
<1>4. ASSUME NEW m \in Msg PROVE Owned(m)'
    BY <1>1, <1>2, <1>3 DEF Ownership, Owned
<1>5. ASSUME NEW d \in CPU PROVE HandledOnce(d)'
    BY <1>1 DEF Ownership, PerProcessor, HandledOnce, Still, Same
<1>6. ASSUME NEW d \in CPU PROVE Async(d)'
    <2>1. Async(d)
        BY DEF Ownership, PerProcessor
    <2>2. CASE d # c
        BY <2>1, <2>2 DEF Async, Still, Same
    <2>3. CASE d = c
        BY <2>1, <2>3 DEF Async
    <2> QED BY <2>2, <2>3
<1>7. ASSUME NEW d \in CPU \ {c} PROVE StillThere(d)'
    BY <1>1, <1>2, <1>3 DEF Ownership, PerProcessor, StillThere, Still, Same, Returned
<1>8. StillThere(c)'
    <2>1. pool # Null => pool \in Free
        BY FreeFollows DEF FollowsList
    <2> QED BY <1>1, <1>2, <1>3, <2>1 DEF Ownership, PerProcessor, StillThere
<1> QED BY <1>2, <1>4, <1>5, <1>6, <1>7, <1>8, OtherRegisters DEF Ownership, PerProcessor

-----------------------------------------------------------------------------
(* The steps that move one processor only.                                  *)

LEMMA LoadPoolOwned ==
    ASSUME IInv, Ownership, NEW c \in CPU, LoadPool(c)
    PROVE  Ownership'
<1>0. TypeOK /\ Sound(c) /\ PerProcessor(c)
    BY DEF IInv, Ownership
<1>1. \A d \in CPU \ {c} : Still(d)
    BY <1>0 DEF LoadPool, Goto, Process, shared, callRegs, poolRegs, procRegs, TypeOK, Still, Same
<1>2. /\ UNCHANGED <<pool, next, refs, async, queue>>
      /\ msg'[c] = msg[c] /\ batch'[c] = batch[c]
      /\ pc[c] = "load" /\ (pc'[c] = "exchange" \/ (pc'[c] = "next" /\ snap'[c] = pool /\ pool # Null))
    BY <1>0 DEF LoadPool, Goto, Process, shared, callRegs, poolRegs, procRegs, TypeOK
<1>3. Registers(c)'
    BY <1>0, <1>2 DEF LoadPool, Goto, Process, shared, callRegs, poolRegs, procRegs, TypeOK, Sound, PerProcessor,
        Registers, AllOthers, Serving
<1> QED BY <1>0, <1>1, <1>2, <1>3, Quiet

LEMMA ReadNextOwned ==
    ASSUME IInv, Ownership, NEW c \in CPU, ReadNext(c)
    PROVE  Ownership'
<1>0. TypeOK /\ Sound(c) /\ PerProcessor(c)
    BY DEF IInv, Ownership
<1>1. \A d \in CPU \ {c} : Still(d)
    BY <1>0 DEF ReadNext, Goto, Process, shared, callRegs, poolRegs, procRegs, TypeOK, Still, Same
<1>2. /\ UNCHANGED <<pool, next, refs, async, queue>>
      /\ msg'[c] = msg[c] /\ batch'[c] = batch[c]
      /\ pc[c] = "next" /\ pc'[c] = "pop" /\ snap'[c] = snap[c] /\ nxt'[c] = next[snap[c]]
    BY <1>0 DEF ReadNext, Goto, Process, shared, callRegs, poolRegs, procRegs, TypeOK
<1>3. Registers(c)'
    BY <1>0, <1>2 DEF ReadNext, Goto, Process, shared, callRegs, poolRegs, procRegs, TypeOK, Sound, PerProcessor,
        Registers, AllOthers, Serving
<1> QED BY <1>0, <1>1, <1>2, <1>3, Quiet

LEMMA SendIpiOwned ==
    ASSUME IInv, Ownership, NEW c \in CPU, SendIpi(c)
    PROVE  Ownership'
<1>0. TypeOK /\ Sound(c) /\ PerProcessor(c)
    BY DEF IInv, Ownership
<1>1. \A d \in CPU \ {c} : Still(d)
    BY <1>0 DEF SendIpi, Goto, Process, shared, callRegs, poolRegs, procRegs, TypeOK, Still, Same
<1>2. /\ UNCHANGED <<pool, next, refs, async, queue>>
      /\ msg'[c] = msg[c] /\ batch'[c] = batch[c]
      /\ pc[c] = "ipi" /\ pc'[c] \in {"idle", "wait"}
    BY <1>0 DEF SendIpi, Goto, Process, shared, callRegs, poolRegs, procRegs, TypeOK
<1>3. Registers(c)'
    BY <1>0, <1>2 DEF SendIpi, Goto, Process, shared, callRegs, poolRegs, procRegs, TypeOK, Sound, PerProcessor,
        Registers, AllOthers, Serving
<1> QED BY <1>0, <1>1, <1>2, <1>3, Quiet

LEMMA TakeIpiOwned ==
    ASSUME IInv, Ownership, NEW c \in CPU, TakeIpi(c)
    PROVE  Ownership'
<1>0. TypeOK /\ Sound(c) /\ PerProcessor(c)
    BY DEF IInv, Ownership
<1>1. \A d \in CPU \ {c} : Still(d)
    BY <1>0 DEF TakeIpi, Goto, Process, shared, callRegs, poolRegs, procRegs, TypeOK, Still, Same
<1>2. /\ UNCHANGED <<pool, next, refs, async, queue>>
      /\ msg'[c] = msg[c] /\ batch'[c] = batch[c]
      /\ pc[c] = "idle" /\ pc'[c] = "exchange"
    BY <1>0 DEF TakeIpi, Goto, Process, shared, callRegs, poolRegs, procRegs, TypeOK
<1>3. Registers(c)'
    BY <1>0, <1>2 DEF TakeIpi, Goto, Process, shared, callRegs, poolRegs, procRegs, TypeOK, Sound, PerProcessor,
        Registers, AllOthers, Serving
<1> QED BY <1>0, <1>1, <1>2, <1>3, Quiet

LEMMA OtherTrapOwned ==
    ASSUME IInv, Ownership, NEW c \in CPU, OtherTrap(c)
    PROVE  Ownership'
<1>0. TypeOK /\ Sound(c) /\ PerProcessor(c)
    BY DEF IInv, Ownership
<1>1. \A d \in CPU \ {c} : Still(d)
    BY <1>0 DEF OtherTrap, Goto, Process, shared, callRegs, poolRegs, procRegs, TypeOK, Still, Same
<1>2. /\ UNCHANGED <<pool, next, refs, async, queue>>
      /\ msg'[c] = msg[c] /\ batch'[c] = batch[c]
      /\ pc[c] = "idle" /\ pc'[c] = "exchange"
    BY <1>0 DEF OtherTrap, Goto, Process, shared, callRegs, poolRegs, procRegs, TypeOK
<1>3. Registers(c)'
    BY <1>0, <1>2 DEF OtherTrap, Goto, Process, shared, callRegs, poolRegs, procRegs, TypeOK, Sound, PerProcessor,
        Registers, AllOthers, Serving
<1> QED BY <1>0, <1>1, <1>2, <1>3, Quiet

LEMMA HaltOwned ==
    ASSUME IInv, Ownership, NEW c \in CPU, Halt(c)
    PROVE  Ownership'
<1>0. TypeOK /\ Sound(c) /\ PerProcessor(c)
    BY DEF IInv, Ownership
<1>1. \A d \in CPU \ {c} : Still(d)
    BY <1>0 DEF Halt, Goto, Process, shared, callRegs, poolRegs, procRegs, TypeOK, Still, Same
<1>2. /\ UNCHANGED <<pool, next, refs, async, queue>>
      /\ msg'[c] = msg[c] /\ batch'[c] = batch[c]
      /\ pc[c] = "idle" /\ pc'[c] = "haltStore"
    BY <1>0 DEF Halt, Goto, Process, shared, callRegs, poolRegs, procRegs, TypeOK
<1>3. Registers(c)'
    BY <1>0, <1>2 DEF Halt, Goto, Process, shared, callRegs, poolRegs, procRegs, TypeOK, Sound, PerProcessor,
        Registers, AllOthers, Serving
<1> QED BY <1>0, <1>1, <1>2, <1>3, Quiet

LEMMA HaltIpiOwned ==
    ASSUME IInv, Ownership, NEW c \in CPU, HaltIpi(c)
    PROVE  Ownership'
<1>0. TypeOK /\ Sound(c) /\ PerProcessor(c)
    BY DEF IInv, Ownership
<1>1. \A d \in CPU \ {c} : Still(d)
    BY <1>0 DEF HaltIpi, Goto, Process, shared, callRegs, poolRegs, procRegs, TypeOK, Still, Same
<1>2. /\ UNCHANGED <<pool, next, refs, async, queue>>
      /\ msg'[c] = msg[c] /\ batch'[c] = batch[c]
      /\ pc[c] = "haltIpi" /\ pc'[c] = "halted"
    BY <1>0 DEF HaltIpi, Goto, Process, shared, callRegs, poolRegs, procRegs, TypeOK
<1>3. Registers(c)'
    BY <1>0, <1>2 DEF HaltIpi, Goto, Process, shared, callRegs, poolRegs, procRegs, TypeOK, Sound, PerProcessor,
        Registers, AllOthers, Serving
<1> QED BY <1>0, <1>1, <1>2, <1>3, Quiet

LEMMA CheckOwned ==
    ASSUME IInv, Ownership, NEW c \in CPU, Check(c)
    PROVE  Ownership'
<1>0. TypeOK /\ Sound(c) /\ PerProcessor(c)
    BY DEF IInv, Ownership
<1>1. \A d \in CPU \ {c} : Still(d)
    BY <1>0 DEF Check, Goto, Process, shared, callRegs, poolRegs, procRegs, TypeOK, Still, Same
<1>2. /\ UNCHANGED <<pool, next, refs, async, queue>>
      /\ msg'[c] = msg[c] /\ batch'[c] = batch[c]
      /\ pc[c] = "check" /\ pc'[c] \in {"halted", "run", back[c]} /\ back[c] \in {"idle", "load", "wait"}
    BY <1>0 DEF Check, Goto, Process, shared, callRegs, poolRegs, procRegs, TypeOK
<1>3. Registers(c)'
    BY <1>0, <1>2 DEF Check, Goto, Process, shared, callRegs, poolRegs, procRegs, TypeOK, Sound, PerProcessor,
        Registers, AllOthers, Serving
<1> QED BY <1>0, <1>1, <1>2, <1>3, Quiet

LEMMA HaltStoreOwned ==
    ASSUME IInv, Ownership, NEW c \in CPU, HaltStore(c)
    PROVE  Ownership'
<1>0. TypeOK /\ Sound(c) /\ PerProcessor(c)
    BY DEF IInv, Ownership
<1>1. \A d \in CPU \ {c} : Still(d)
    BY <1>0 DEF HaltStore, Goto, Process, shared, callRegs, poolRegs, procRegs, TypeOK, Still, Same
<1>2. /\ UNCHANGED <<pool, next, refs, async, queue>>
      /\ msg'[c] = msg[c] /\ batch'[c] = batch[c]
      /\ pc[c] = "haltStore" /\ pc'[c] \in {"haltStore", "haltIpi"}
    BY <1>0 DEF HaltStore, Goto, Process, shared, callRegs, poolRegs, procRegs, TypeOK
<1>3. Registers(c)'
    BY <1>0, <1>2 DEF HaltStore, Goto, Process, shared, callRegs, poolRegs, procRegs, TypeOK, Sound, PerProcessor,
        Registers, AllOthers, Serving
<1> QED BY <1>0, <1>1, <1>2, <1>3, Quiet

\* A call begins with every other processor as its target.
LEMMA BeginOwned ==
    ASSUME IInv, Ownership, NEW c \in CPU, NEW k, Begin(c, k, CPU \ {c})
    PROVE  Ownership'
<1>0. TypeOK /\ Sound(c) /\ PerProcessor(c)
    BY DEF IInv, Ownership
<1>1. \A d \in CPU \ {c} : Still(d)
    BY <1>0 DEF Begin, Goto, shared, callRegs, poolRegs, procRegs, TypeOK, Still, Same
<1>2. /\ UNCHANGED <<pool, next, refs, async, queue>>
      /\ msg'[c] = msg[c] /\ batch'[c] = batch[c] /\ cur'[c] = cur[c]
      /\ pc[c] = "idle" /\ pc'[c] = "load"
      /\ to'[c] = CPU \ {c} /\ left'[c] = CPU \ {c}
    BY <1>0 DEF Begin, Goto, shared, callRegs, poolRegs, procRegs, TypeOK
<1>3. Registers(c)'
    BY <1>0, <1>2 DEF PerProcessor, Registers, AllOthers, Serving, Sound
<1> QED BY <1>0, <1>1, <1>2, <1>3, Quiet

LEMMA WaitOwned ==
    ASSUME IInv, Ownership, NEW c \in CPU, Wait(c)
    PROVE  Ownership'
<1>0. TypeOK /\ Sound(c) /\ PerProcessor(c) /\ msg[c] \in Msg /\ cur[c] = Null
    BY DEF IInv, Ownership, Wait, Sound, TypeOK
<1>1. \A d \in CPU \ {c} : Still(d)
    BY <1>0 DEF Wait, Goto, Process, shared, callRegs, poolRegs, procRegs, TypeOK, Still, Same
<1>2. /\ UNCHANGED <<pool, next, refs, async, queue>>
      /\ msg'[c] = msg[c] /\ batch'[c] = batch[c] /\ cur'[c] = cur[c] /\ pc[c] = "wait"
      /\ \/ pc'[c] = "link" /\ refs[msg[c]] = 0
         \/ pc'[c] = "exchange" /\ back'[c] = "wait"
    BY <1>0 DEF Wait, Goto, Process, shared, callRegs, poolRegs, procRegs, TypeOK
<1>3. Registers(c)'
    BY <1>0, <1>2 DEF PerProcessor, Registers, Serving
<1>4. refs[msg[c]] = 0 => Outstanding(msg[c]) = {}
    <2>1. refs[msg[c]] = Cardinality(Outstanding(msg[c]))
        BY <1>0 DEF Ownership, Owned
    <2>2. IsFiniteSet(Outstanding(msg[c]))
        BY <1>0, AnswersFinite
    <2> QED BY <2>1, <2>2, FS_EmptySet
<1> QED BY <1>0, <1>1, <1>2, <1>3, <1>4, Quiet

\* The head has changed since it was read: pop and push begin again.
LEMMA PopAgainOwned ==
    ASSUME IInv, Ownership, NEW c \in CPU, Pop(c), pool # snap[c]
    PROVE  Ownership'
<1>0. TypeOK /\ Sound(c) /\ PerProcessor(c)
    BY DEF IInv, Ownership
<1>1. \A d \in CPU \ {c} : Still(d)
    BY <1>0 DEF Pop, Goto, procRegs, TypeOK, Still, Same
<1>2. /\ UNCHANGED <<pool, next, refs, async, queue, msg, batch, cur, to, left, back, kind>>
      /\ pc[c] = "pop" /\ pc'[c] = "load"
    BY <1>0 DEF Pop, Goto, procRegs, TypeOK
<1>3. Registers(c)'
    BY <1>0, <1>2 DEF PerProcessor, Registers, AllOthers, Serving, Sound
<1> QED BY <1>0, <1>1, <1>2, <1>3, Quiet

LEMMA PushAgainOwned ==
    ASSUME IInv, Ownership, NEW c \in CPU, Push(c), pool # snap[c]
    PROVE  Ownership'
<1>0. TypeOK /\ Sound(c) /\ PerProcessor(c)
    BY DEF IInv, Ownership
<1>1. \A d \in CPU \ {c} : Still(d)
    BY <1>0 DEF Push, Goto, procRegs, TypeOK, Still, Same
<1>2. /\ UNCHANGED <<pool, next, refs, async, queue, msg, batch, cur, to, left, back, kind>>
      /\ pc[c] = "push" /\ pc'[c] = "link"
    BY <1>0 DEF Push, Goto, procRegs, TypeOK
<1>3. Registers(c)'
    BY <1>0, <1>2 DEF PerProcessor, Registers, AllOthers, Serving, Sound
<1> QED BY <1>0, <1>1, <1>2, <1>3, Quiet

LEMMA NothingToDoOwned ==
    ASSUME IInv, Ownership, NEW c \in CPU, Exchange(c), queue[c] = <<>>
    PROVE  Ownership'
<1>0. TypeOK /\ Sound(c) /\ PerProcessor(c)
    BY DEF IInv, Ownership
<1>1. \A d \in CPU \ {c} : Still(d)
    BY <1>0 DEF Exchange, Goto, callRegs, poolRegs, TypeOK, Still, Same
<1>2. /\ UNCHANGED <<pool, next, refs, async, queue, msg, batch, cur, to, left, back, kind>>
      /\ pc[c] = "exchange" /\ pc'[c] \in {"halted", back[c]}
      /\ back[c] \in {"idle", "load", "wait"}
    BY <1>0 DEF Exchange, Goto, callRegs, poolRegs, TypeOK
<1>3. Registers(c)'
    BY <1>0, <1>2 DEF PerProcessor, Registers, AllOthers, Serving, Sound
<1> QED BY <1>0, <1>1, <1>2, <1>3, Quiet

-----------------------------------------------------------------------------
(* The steps that change hands.                                              *)

\* The compare_exchange succeeds: the head is free, and its next is still next.
LEMMA PopOwned ==
    ASSUME IInv, IInv', Ownership, NEW c \in CPU, Pop(c), pool = snap[c]
    PROVE  Ownership'
<1>0. TypeOK /\ TypeOK' /\ Sound(c) /\ PerProcessor(c) /\ List
    BY DEF IInv, Ownership
<1>1. \A d \in CPU \ {c} : Still(d)
    BY <1>0 DEF Pop, Goto, procRegs, TypeOK, Still, Same
<1>2. /\ UNCHANGED <<next, refs, async, queue, batch, cur, isAsync, to, left, back, kind>>
      /\ pc[c] = "pop" /\ pc'[c] = "fill"
      /\ pool' = nxt[c] /\ msg'[c] = pool /\ msg[c] = Null /\ cur[c] = Null /\ pool \in Msg
    BY <1>0 DEF Pop, Goto, procRegs, TypeOK, PerProcessor, Registers, Sound
<1>3. nxt[c] = next[pool]
    BY <1>0, <1>2 DEF PerProcessor, StillThere, Pop
<1>4. Free' = Free \ {pool} /\ List' /\ pool \in Free
    BY <1>0, <1>2, <1>3, ListPopped, NotNull
<1>5. /\ \A d \in CPU, m \in Msg : /\ InHand(d, m)' = InHand(d, m)
                                   /\ Promised(d, m)' = Promised(d, m)
      /\ \A m \in Msg : Outstanding(m)' = Outstanding(m)
    BY <1>1, <1>2, SameAnswers
<1>6. /\ \A d \in CPU, m \in Msg : /\ Returning(d, m)' = Returning(d, m)
                                   /\ Answered(d, m)' = Answered(d, m)
      /\ \A d \in CPU \ {c} : msg'[d] = msg[d]
      /\ \A d \in CPU \ {c}, m \in Msg : Filling(d, m)' = Filling(d, m)
      /\ \A m \in Msg : Filling(c, m)' <=> m = pool
    BY <1>1, <1>2 DEF Still, Same, Returning, Answered, Filling
<1>7. ASSUME NEW m \in Msg PROVE Owned(m)'
    <2>1. Owned(m)
        BY DEF Ownership
    <2>2. CASE m = pool
        <3>1. Outstanding(m) = {} /\ \A d \in CPU : msg[d] # m /\ ~Returning(d, m)
            BY <1>4, <2>1, <2>2 DEF Owned
        <3> QED BY <1>2, <1>4, <1>5, <1>6, <2>1, <2>2, <3>1 DEF Owned
    <2>3. CASE m # pool
        BY <1>2, <1>4, <1>5, <1>6, <2>1, <2>3, NotNull DEF Owned
    <2> QED BY <2>2, <2>3
<1>8. ASSUME NEW d \in CPU PROVE HandledOnce(d)'
    BY <1>1, <1>2, <1>5 DEF Ownership, PerProcessor, HandledOnce, Still, Same
<1>9. ASSUME NEW d \in CPU PROVE Async(d)'
    <2>1. CASE d # c
        BY <1>1, <1>2, <2>1 DEF Ownership, PerProcessor, Async, Still, Same
    <2>2. CASE d = c
        BY <1>2, <2>2 DEF Async
    <2> QED BY <2>1, <2>2
<1>10. ASSUME NEW d \in CPU PROVE StillThere(d)'
    <2>1. CASE d # c
        <3>1. pc'[d] = pc[d] /\ snap'[d] = snap[d] /\ nxt'[d] = nxt[d] /\ Returned(d)' = Returned(d)
            BY <1>1, <1>2, <2>1 DEF Still, Same, Returned
        <3>2. ASSUME NEW m \in Msg PROVE m \in Free => m \in Free' \/ Filling(c, m)'
            BY <1>4, <1>6
        <3>3. ASSUME NEW m \in Msg, NEW s \in CPU, Filling(s, m) PROVE Filling(s, m)'
            BY <1>2, <1>6, <3>3, NotNull DEF Filling
        <3>4. StillThere(d)
            BY DEF Ownership, PerProcessor
        <3> QED BY <1>2, <1>5, <3>1, <3>2, <3>3, <3>4 DEF StillThere
    <2>2. CASE d = c
        BY <1>2, <2>2 DEF StillThere
    <2> QED BY <2>1, <2>2
<1>11. Registers(c)'
    BY <1>0, <1>2 DEF PerProcessor, Registers, AllOthers, Serving
<1> QED BY <1>1, <1>4, <1>7, <1>8, <1>9, <1>10, <1>11, OtherRegisters DEF Ownership, PerProcessor

\* The message gets a reference for each processor the call goes to: all the others.
LEMMA FillOwned ==
    ASSUME IInv, Ownership, NEW c \in CPU, Fill(c)
    PROVE  Ownership'
<1>0. TypeOK /\ Sound(c) /\ PerProcessor(c) /\ List
    BY DEF IInv, Ownership
<1>1. \A d \in CPU \ {c} : Still(d)
    BY <1>0 DEF Fill, Goto, callRegs, poolRegs, procRegs, TypeOK, Still, Same
<1>n. PICK n \in Msg : n = msg[c]
    BY <1>0 DEF Fill, TypeOK, Sound
<1>2. /\ UNCHANGED <<pool, next, queue, batch, cur, isAsync, to, left, back, kind, msg, snap, nxt>>
      /\ pc[c] = "fill" /\ pc'[c] = "enqueue" /\ cur[c] = Null
      /\ \A m \in Msg \ {n} : refs'[m] = refs[m] /\ async'[m] = async[m]
      /\ refs'[n] = Cardinality(left[c]) /\ async'[n] = (kind[c] = "async")
      /\ left[c] = CPU \ {c}
    BY <1>0, <1>n DEF Fill, Goto, callRegs, poolRegs, procRegs, TypeOK, PerProcessor, Registers, Sound,
                AllOthers, InitialRefs
<1>3. Free' = Free /\ List'
    BY <1>0, <1>2, ListKept
<1>4. Filling(c, n) /\ Owned(n)
    BY <1>n, <1>2 DEF Filling, Ownership
<1>5. Outstanding(n) = {} /\ n \notin Free /\ \A d \in CPU : ~Returning(d, n) /\ (msg[d] = n => d = c)
    BY <1>4, <1>n DEF Owned
<1>6. ASSUME NEW d \in CPU, NEW m \in Msg
      PROVE  /\ InHand(d, m)' = InHand(d, m)
             /\ Promised(d, m)' <=> Promised(d, m) \/ (m = n /\ d # c)
    <2>1. InHand(d, m)' = InHand(d, m)
        BY <1>1, <1>2 DEF Still, Same, InHand
    <2>2. Promised(d, m)' <=> Promised(d, m) \/ (m = n /\ d # c)
        BY <1>1, <1>2, <1>n DEF Still, Same, Promised
    <2> QED BY <2>1, <2>2
<1>7. \A d \in CPU : ~InHand(d, n) /\ ~Promised(d, n)
    BY <1>2, <1>5, OutstandingIs
<1>8. /\ Outstanding(n)' = CPU \ {c}
      /\ \A m \in Msg \ {n} : Outstanding(m)' = Outstanding(m)
    <2>1. Outstanding(n)' = {d \in CPU : InHand(d, n)' \/ Promised(d, n)'}
        BY OutstandingIsNext
    <2>2. \A d \in CPU : InHand(d, n)' \/ Promised(d, n)' <=> d # c
        BY <1>6, <1>7
    <2>3. \A m \in Msg \ {n} : Outstanding(m)' = Outstanding(m)
        BY <1>6, OutstandingIs, OutstandingIsNext
    <2> QED BY <2>1, <2>2, <2>3
<1>9. /\ \A d \in CPU, m \in Msg : /\ Returning(d, m)' = Returning(d, m)
                                   /\ Answered(d, m)' = Answered(d, m)
                                   /\ Filling(d, m)' <=> Filling(d, m) /\ d # c
      /\ \A m \in Msg : Filling(c, m) => m = n
    BY <1>1, <1>2, <1>n DEF Still, Same, Returning, Answered, Filling
<1>10. ASSUME NEW m \in Msg PROVE Owned(m)'
    <2>1. Owned(m)
        BY DEF Ownership
    <2>2. CASE m = n
        <3>1. \A d \in CPU : ~Filling(d, n)' /\ ~Answered(d, n)' /\ ~Returning(d, n)'
            BY <1>2, <1>5, <1>9 DEF Filling, Answered
        <3>2. msg'[c] = n /\ refs'[n] = Cardinality(Outstanding(n)')
            BY <1>2, <1>8, <1>n
        <3> QED BY <1>2, <1>3, <1>5, <2>1, <2>2, <3>1, <3>2 DEF Owned
    <2>3. CASE m # n
        BY <1>2, <1>3, <1>8, <1>9, <2>1, <2>3 DEF Owned
    <2> QED BY <2>2, <2>3
<1>11. ASSUME NEW d \in CPU PROVE HandledOnce(d)'
    <2>1. HandledOnce(d)
        BY DEF Ownership, PerProcessor
    <2>2. \A m \in Msg : cur'[d] = m /\ pc'[d] = "drop" => cur[d] = m /\ pc[d] = "drop"
        BY <1>1, <1>2 DEF Still, Same
    <2> QED BY <1>2, <1>6, <1>7, <2>1, <2>2 DEF HandledOnce
<1>12. ASSUME NEW d \in CPU PROVE Async(d)'
    <2>1. Async(d)
        BY DEF Ownership, PerProcessor
    <2>2. CASE d # c
        <3>1. msg[d] # n /\ ~(cur[d] = n /\ pc[d] = "drop")
            BY <1>5, <1>7, <2>2 DEF InHand
        <3> QED BY <1>1, <1>2, <2>1, <2>2, <3>1 DEF Async, Still, Same
    <2>3. CASE d = c
        BY <1>2, <1>n, <2>3 DEF Async
    <2> QED BY <2>2, <2>3
<1>13. ASSUME NEW d \in CPU PROVE StillThere(d)'
    <2>1. StillThere(d)
        BY DEF Ownership, PerProcessor
    <2>2. CASE d # c
        <3>1. pc'[d] = pc[d] /\ snap'[d] = snap[d] /\ nxt'[d] = nxt[d] /\ Returned(d)' = Returned(d)
            BY <1>1, <1>2, <2>2 DEF Still, Same, Returned
        <3>2. d \in Outstanding(n)'
            BY <1>8, <2>2
        <3>3. \A m \in Msg : d \in Outstanding(m) => d \in Outstanding(m)'
            BY <1>5, <1>8
        <3>4. ASSUME NEW m \in Msg, NEW s \in CPU, Filling(s, m)
              PROVE  d \in Outstanding(m)' \/ Filling(s, m)'
            BY <1>9, <3>2, <3>4
        <3> QED BY <1>2, <1>3, <2>1, <3>1, <3>3, <3>4 DEF StillThere
    <2>3. CASE d = c
        BY <1>2, <2>3 DEF StillThere
    <2> QED BY <2>2, <2>3
<1>14. Registers(c)'
    <2>1. CPU \ {c} # {}
        <3>1. 0 \in CPU /\ 1 \in CPU
            BY SmpAssumption DEF CPU
        <3> QED BY <3>1
    <2> QED BY <1>0, <1>2, <2>1 DEF PerProcessor, Registers, Serving
<1> QED BY <1>1, <1>3, <1>10, <1>11, <1>12, <1>13, <1>14, OtherRegisters DEF Ownership, PerProcessor

\* Posting moves what a processor is to answer into its queue.
LEMMA EnqueueOwned ==
    ASSUME IInv, Ownership, NEW c \in CPU, Enqueue(c)
    PROVE  Ownership'
<1>0. TypeOK /\ Sound(c) /\ PerProcessor(c) /\ List
    BY DEF IInv, Ownership
<1>n. PICK n \in Msg : n = msg[c]
    BY <1>0 DEF Enqueue, TypeOK, Sound
<1>t. PICK t \in left[c] :
        /\ queue' = [queue EXCEPT ![t] = <<msg[c]>> \o @]
        /\ left' = [left EXCEPT ![c] = @ \ {t}]
        /\ IF left[c] = {t} THEN Goto(c, "ipi") ELSE UNCHANGED pc
        /\ msg' = [msg EXCEPT ![c] = IF left[c] = {t} /\ kind[c] = "async" THEN Null ELSE @]
    BY DEF Enqueue
<1>2. /\ UNCHANGED <<pool, next, refs, async, batch, cur, isAsync, to, back, kind, snap, nxt>>
      /\ pc[c] = "enqueue" /\ cur[c] = Null /\ t \in CPU \ {c}
    BY <1>0 DEF Enqueue, poolRegs, procRegs, PerProcessor, Registers, Sound, TypeOK
<1>3. /\ \A d \in CPU \ {t} : queue'[d] = queue[d]
      /\ queue'[t] = <<n>> \o queue[t] /\ queue[t] \in Seq(Msg)
      /\ left'[c] = left[c] \ {t}
    BY <1>0, <1>n, <1>t, <1>2 DEF TypeOK
<1>4. \/ left[c] = {t} /\ pc'[c] = "ipi" /\ (kind[c] = "async" => msg'[c] = Null)
      \/ left'[c] # {} /\ pc'[c] = "enqueue" /\ msg'[c] = n
    <2>1. msg'[c] = IF left[c] = {t} /\ kind[c] = "async" THEN Null ELSE n
        BY <1>0, <1>n, <1>t DEF TypeOK
    <2>2. CASE left[c] = {t}
        BY <1>0, <1>t, <2>1, <2>2 DEF TypeOK, Goto
    <2>3. CASE left[c] # {t}
        <3>1. pc' = pc
            BY <1>t, <2>3
        <3> QED BY <1>2, <1>3, <2>1, <2>3, <3>1
    <2> QED BY <2>2, <2>3
<1>5. msg'[c] = n \/ (msg'[c] = Null /\ kind[c] = "async")
    BY <1>0, <1>n, <1>t, <1>2 DEF TypeOK
<1>1. \A d \in CPU \ {c} : Still(d)
    BY <1>0, <1>t, <1>2 DEF Goto, TypeOK, Still, Same
<1>6. Promised(t, n) /\ \A d \in CPU : msg[d] = n => d = c
    BY <1>n, <1>2 DEF Promised, Ownership, Owned
<1>7. ToSet(queue'[t]) = {n} \union ToSet(queue[t])
    BY <1>3, Posted
<1>8. ASSUME NEW d \in CPU, NEW m \in Msg
      PROVE  /\ InHand(d, m)' <=> InHand(d, m) \/ (d = t /\ m = n)
             /\ Promised(d, m)' <=> Promised(d, m) /\ ~(d = t /\ m = n)
    <2>1. cur'[d] = m /\ pc'[d] = "drop" <=> cur[d] = m /\ pc[d] = "drop"
        BY <1>1, <1>2, <1>4 DEF Still, Same
    <2>2. m \in ToSet(queue'[d]) <=> m \in ToSet(queue[d]) \/ (d = t /\ m = n)
        BY <1>3, <1>7
    <2>3. InHand(d, m)' <=> InHand(d, m) \/ (d = t /\ m = n)
        BY <1>2, <2>1, <2>2 DEF InHand
    <2>4. ASSUME NEW s \in CPU \ {c}
          PROVE  /\ pc'[s] = pc[s] /\ msg'[s] = msg[s] /\ left'[s] = left[s]
                 /\ msg[s] # n
        BY <1>1, <1>6, <2>4 DEF Still, Same
    <2>5. pc'[c] = "enqueue" /\ msg'[c] = m /\ d \in left'[c]
            <=> pc[c] = "enqueue" /\ msg[c] = m /\ d \in left[c] /\ ~(d = t /\ m = n)
        BY <1>n, <1>2, <1>3, <1>4
    <2>6. Promised(d, m)' <=> Promised(d, m) /\ ~(d = t /\ m = n)
        BY <2>4, <2>5 DEF Promised
    <2> QED BY <2>3, <2>6
<1>9. \A m \in Msg : Outstanding(m)' = Outstanding(m)
    BY <1>6, <1>8, OutstandingIs, OutstandingIsNext
<1>10. t \in Outstanding(n) /\ (msg'[c] = Null => async[n])
    <2>1. async[n] = (kind[c] = "async")
        BY <1>0, <1>n, <1>2 DEF PerProcessor, Async
    <2> QED BY <1>2, <1>5, <1>6, <2>1, OutstandingIs, NotNull
<1>11. Free' = Free /\ List'
    BY <1>0, <1>2, ListKept
<1>12. \A d \in CPU, m \in Msg : /\ Returning(d, m)' = Returning(d, m)
                                 /\ Answered(d, m)' = Answered(d, m)
                                 /\ Filling(d, m)' = Filling(d, m)
    BY <1>1, <1>2, <1>4 DEF Still, Same, Returning, Answered, Filling
<1>13. ASSUME NEW m \in Msg PROVE Owned(m)'
    <2>1. Owned(m)
        BY DEF Ownership
    <2>2. \A d \in CPU : msg'[d] = m => msg[d] = m
        BY <1>1, <1>n, <1>5, NotNull DEF Still, Same
    <2>3. \A d \in CPU : msg[d] = m => msg'[d] = m \/ (m = n /\ async[n])
        BY <1>1, <1>n, <1>5, <1>10 DEF Still, Same
    <2> QED BY <1>2, <1>9, <1>10, <1>11, <1>12, <2>1, <2>2, <2>3 DEF Owned
<1>14. ASSUME NEW d \in CPU PROVE HandledOnce(d)'
    <2>1. HandledOnce(d)
        BY DEF Ownership, PerProcessor
    <2>2. \A m \in Msg : cur'[d] = m /\ pc'[d] = "drop" <=> cur[d] = m /\ pc[d] = "drop"
        BY <1>1, <1>2, <1>4 DEF Still, Same
    <2>3. CASE d # t
        BY <1>2, <1>3, <1>8, <2>1, <2>2, <2>3 DEF HandledOnce
    <2>4. CASE d = t
        <3>1. ~InHand(t, n)
            BY <1>6, <2>1, <2>4 DEF HandledOnce
        <3>2. IsInjective(queue'[t])
            BY <1>3, <2>1, <2>4, <3>1, Posted DEF HandledOnce, InHand
        <3>3. \A m \in Msg : m \in ToSet(queue'[t]) => m \notin ToSet(batch[t])
            BY <1>7, <2>1, <2>4, <3>1 DEF HandledOnce, InHand
        <3>4. \A m \in Msg : cur[t] = m /\ pc[t] = "drop"
                                => m \notin ToSet(queue'[t]) \union ToSet(batch[t])
            BY <1>7, <2>1, <2>4, <3>1 DEF HandledOnce, InHand
        <3>5. \A m \in Msg : Promised(t, m)' => ~InHand(t, m)'
            BY <1>8, <2>1, <2>4 DEF HandledOnce
        <3> QED BY <1>2, <2>1, <2>2, <2>4, <3>2, <3>3, <3>4, <3>5 DEF HandledOnce
    <2> QED BY <2>3, <2>4
<1>15. ASSUME NEW d \in CPU PROVE Async(d)'
    <2>1. Async(d)
        BY DEF Ownership, PerProcessor
    <2>2. CASE d # c
        BY <1>1, <1>2, <2>1, <2>2 DEF Async, Still, Same
    <2>3. CASE d = c
        BY <1>n, <1>2, <1>4, <1>5, <2>1, <2>3, NotNull DEF Async
    <2> QED BY <2>2, <2>3
<1>16. ASSUME NEW d \in CPU PROVE StillThere(d)'
    <2>1. StillThere(d)
        BY DEF Ownership, PerProcessor
    <2>2. CASE d # c
        <3>1. pc'[d] = pc[d] /\ Returned(d)' = Returned(d)
            BY <1>1, <1>2, <2>2 DEF Still, Same, Returned
        <3> QED BY <1>2, <1>9, <1>11, <1>12, <2>1, <3>1 DEF StillThere
    <2>3. CASE d = c
        BY <1>4, <2>3 DEF StillThere
    <2> QED BY <2>2, <2>3
<1>17. Registers(c)'
    BY <1>0, <1>2, <1>3, <1>4 DEF PerProcessor, Registers, Serving
<1> QED BY <1>1, <1>11, <1>13, <1>14, <1>15, <1>16, <1>17, OtherRegisters DEF Ownership, PerProcessor

\* Only its owner writes next, and nobody is about to take an owned message.
LEMMA LinkOwned ==
    ASSUME IInv, IInv', Ownership, NEW c \in CPU, Link(c)
    PROVE  Ownership'
<1>0. TypeOK /\ TypeOK' /\ Sound(c) /\ PerProcessor(c) /\ List
    BY DEF IInv, Ownership
<1>r. Returned(c) \in Msg
    BY <1>0 DEF Link, TypeOK, Sound, Returned
<1>n. PICK n \in Msg : n = Returned(c)
    BY <1>r
<1>1. \A d \in CPU \ {c} : Still(d)
    BY <1>0 DEF Link, Goto, callRegs, poolRegs, procRegs, TypeOK, Still, Same
<1>2. /\ UNCHANGED <<pool, refs, async, queue, batch, cur, isAsync, to, left, back, kind, msg,
                     snap, nxt>>
      /\ pc[c] = "link" /\ pc'[c] = "push" /\ next' = [next EXCEPT ![n] = snap[c]]
    BY <1>0, <1>n DEF Link, Goto, callRegs, poolRegs, procRegs, TypeOK
<1>3. Returning(c, n) \/ Answered(c, n)
    BY <1>n, <1>2, NotNull DEF Returned, Returning, Answered
<1>4. /\ Outstanding(n) = {} /\ n \notin Free
      /\ \A d \in CPU : (msg[d] = n \/ Returning(d, n)) => d = c
    BY <1>3 DEF Ownership, Owned, Answered
<1>5. Free' = Free /\ List'
    BY <1>0, <1>2, <1>4, ListLinked
<1>6. /\ \A d \in CPU, m \in Msg : /\ InHand(d, m)' = InHand(d, m)
                                   /\ Promised(d, m)' = Promised(d, m)
      /\ \A m \in Msg : Outstanding(m)' = Outstanding(m)
    BY <1>1, <1>2, SameAnswers
<1>7. \A d \in CPU, m \in Msg : /\ Returning(d, m)' = Returning(d, m)
                                /\ Answered(d, m)' = Answered(d, m)
                                /\ Filling(d, m)' = Filling(d, m)
    BY <1>1, <1>2 DEF Still, Same, Returning, Answered, Filling
<1>8. ASSUME NEW m \in Msg PROVE Owned(m)'
    BY <1>2, <1>5, <1>6, <1>7 DEF Ownership, Owned
<1>9. ASSUME NEW d \in CPU PROVE HandledOnce(d)'
    BY <1>1, <1>2, <1>6 DEF Ownership, PerProcessor, HandledOnce, Still, Same
<1>10. ASSUME NEW d \in CPU PROVE Async(d)'
    BY <1>1, <1>2 DEF Ownership, PerProcessor, Async, Still, Same
<1>11. ASSUME NEW d \in CPU PROVE StillThere(d)'
    <2>1. StillThere(d)
        BY DEF Ownership, PerProcessor
    <2>2. \A m \in Msg \ {n} : next'[m] = next[m]
        BY <1>0, <1>2 DEF TypeOK
    <2>3. CASE d # c
        <3>1. pc'[d] = pc[d] /\ Returned(d)' = Returned(d)
            BY <1>1, <1>2, <2>3 DEF Still, Same, Returned
        <3>2. ASSUME pc[d] = "pop" PROVE snap[d] # n
            <4>1. \A s \in CPU : ~Filling(s, n)
                BY <1>2, <1>4 DEF Filling
            <4> QED BY <1>4, <2>1, <3>2, <4>1 DEF StillThere
        <3>3. ASSUME pc[d] = "push" PROVE Returned(d) # n
            BY <1>4, <2>3, <3>3 DEF Returned, Returning
        <3> QED BY <1>2, <1>5, <1>6, <1>7, <2>1, <2>2, <3>1, <3>2, <3>3 DEF StillThere
    <2>4. CASE d = c
        BY <1>0, <1>n, <1>2, <2>4 DEF StillThere, Returned, TypeOK
    <2> QED BY <2>3, <2>4
<1>12. Registers(c)'
    BY <1>0, <1>2 DEF PerProcessor, Registers, Serving, AllOthers
<1> QED BY <1>1, <1>5, <1>8, <1>9, <1>10, <1>11, <1>12, OtherRegisters DEF Ownership, PerProcessor

\* The compare_exchange succeeds: the message is free, and nobody's.
LEMMA PushOwned ==
    ASSUME IInv, IInv', Ownership, NEW c \in CPU, Push(c), pool = snap[c]
    PROVE  Ownership'
<1>0. TypeOK /\ TypeOK' /\ Sound(c) /\ PerProcessor(c) /\ List
    BY DEF IInv, Ownership
<1>r. Returned(c) \in Msg
    BY <1>0 DEF Push, TypeOK, Sound, Returned
<1>n. PICK n \in Msg : n = Returned(c)
    BY <1>r
<1>1. \A d \in CPU \ {c} : Still(d)
    <2>1. ASSUME NEW d \in CPU \ {c} PROVE Same(d)
        <3>1. UNCHANGED <<back, left, batch, cur>> /\ snap'[d] = snap[d]
            BY <1>0 DEF Push, procRegs, TypeOK
        <3>2. pc'[d] = pc[d]
            <4>1. Goto(c, "check") \/ Goto(c, "idle")
                BY DEF Push
            <4> QED BY <1>0, <4>1 DEF Goto, TypeOK
        <3>3. CASE cur[c] # Null
            BY <3>1, <3>2, <3>3 DEF Push, Same
        <3>4. CASE cur[c] = Null
            <4>1. /\ kind' = [kind EXCEPT ![c] = "none"] /\ to' = [to EXCEPT ![c] = {}]
                  /\ msg' = [msg EXCEPT ![c] = Null]
                BY <3>4 DEF Push
            <4> QED BY <1>0, <3>1, <3>2, <4>1 DEF TypeOK, Same
        <3> QED BY <3>3, <3>4
    <2>2. nxt' = nxt /\ isAsync' = isAsync
        BY DEF Push, procRegs
    <2> QED BY <2>1, <2>2 DEF Still
<1>2. /\ UNCHANGED <<next, refs, async, queue, batch, cur, isAsync, left, back, nxt>>
      /\ pc[c] = "push" /\ pool' = n /\ next[n] = pool
      /\ \/ cur[c] = n /\ pc'[c] = "check" /\ msg' = msg /\ to' = to
         \/ cur[c] = Null /\ msg[c] = n /\ pc'[c] = "idle" /\ msg'[c] = Null
    <2>1. next[n] = snap[c]
        BY <1>0, <1>n DEF Push, PerProcessor, StillThere
    <2> QED BY <1>0, <1>n, <2>1 DEF Push, Goto, procRegs, TypeOK, Returned
<1>3. Returning(c, n) \/ Answered(c, n)
    BY <1>n, <1>2, NotNull DEF Returned, Returning, Answered
<1>4. /\ Outstanding(n) = {} /\ n \notin Free
      /\ \A d \in CPU : (msg[d] = n \/ Returning(d, n)) => d = c
      /\ cur[c] = n => msg[c] # n
    BY <1>2, <1>3 DEF Ownership, Owned, Answered, Returning
<1>5. Free' = Free \union {n} /\ List'
    BY <1>0, <1>2, <1>4, ListPushed
<1>6. /\ \A d \in CPU, m \in Msg : /\ InHand(d, m)' = InHand(d, m)
                                   /\ Promised(d, m)' = Promised(d, m)
      /\ \A m \in Msg : Outstanding(m)' = Outstanding(m)
    BY <1>1, <1>2, SameAnswers
<1>7. ASSUME NEW d \in CPU, NEW m \in Msg
      PROVE  /\ Returning(d, m)' <=> Returning(d, m) /\ m # n
             /\ Answered(d, m)' => Answered(d, m)
             /\ Filling(d, m)' = Filling(d, m)
             /\ msg'[d] = m <=> msg[d] = m /\ m # n
    <2>1. CASE d # c
        <3>1. msg[d] # n /\ ~Returning(d, n)
            BY <1>4, <2>1
        <3> QED BY <1>1, <2>1, <3>1 DEF Still, Same, Returning, Answered, Filling
    <2>2. CASE d = c
        BY <1>2, <1>4, <2>2, NotNull DEF Returning, Answered, Filling
    <2> QED BY <2>1, <2>2
<1>8. ASSUME NEW m \in Msg PROVE Owned(m)'
    <2>1. Owned(m)
        BY DEF Ownership
    <2>2. CASE m = n
        BY <1>2, <1>4, <1>5, <1>6, <1>7, <2>1, <2>2 DEF Owned, Filling, Answered
    <2>3. CASE m # n
        BY <1>2, <1>5, <1>6, <1>7, <2>1, <2>3 DEF Owned
    <2> QED BY <2>2, <2>3
<1>9. ASSUME NEW d \in CPU PROVE HandledOnce(d)'
    BY <1>1, <1>2, <1>6 DEF Ownership, PerProcessor, HandledOnce, Still, Same
<1>10. ASSUME NEW d \in CPU PROVE Async(d)'
    <2>1. CASE d # c
        BY <1>1, <1>2, <2>1 DEF Ownership, PerProcessor, Async, Still, Same
    <2>2. CASE d = c
        BY <1>0, <1>2, <2>2, NotNull DEF PerProcessor, Async
    <2> QED BY <2>1, <2>2
<1>11. ASSUME NEW d \in CPU PROVE StillThere(d)'
    <2>1. CASE d # c
        <3>1. pc'[d] = pc[d] /\ snap'[d] = snap[d] /\ Returned(d)' = Returned(d)
            BY <1>1, <1>2, <2>1 DEF Still, Same, Returned
        <3> QED BY <1>2, <1>5, <1>6, <1>7, <3>1 DEF Ownership, PerProcessor, StillThere
    <2>2. CASE d = c
        BY <1>2, <2>2 DEF StillThere
    <2> QED BY <2>1, <2>2
<1>12. Registers(c)'
    BY <1>0, <1>2, NotNull DEF PerProcessor, Registers, Serving, AllOthers
<1> QED BY <1>1, <1>5, <1>8, <1>9, <1>10, <1>11, <1>12, OtherRegisters DEF Ownership, PerProcessor

\* The queue becomes the batch: the same messages are to be handled.
LEMMA ExchangeOwned ==
    ASSUME IInv, Ownership, NEW c \in CPU, Exchange(c), queue[c] # <<>>
    PROVE  Ownership'
<1>0. TypeOK /\ Sound(c) /\ PerProcessor(c) /\ List
    BY DEF IInv, Ownership
<1>1. \A d \in CPU \ {c} : Still(d)
    BY <1>0 DEF Exchange, Goto, callRegs, poolRegs, TypeOK, Still, Same
<1>2. /\ UNCHANGED <<pool, next, refs, async, msg, cur, isAsync, to, left, back, kind, snap, nxt>>
      /\ pc[c] = "exchange" /\ pc'[c] = "run" /\ queue[c] \in Seq(Msg)
      /\ queue'[c] = <<>> /\ batch'[c] = InOrder(queue[c]) /\ batch[c] = <<>>
      /\ \A d \in CPU \ {c} : queue'[d] = queue[d] /\ batch'[d] = batch[d]
    BY <1>0 DEF Exchange, Goto, callRegs, poolRegs, TypeOK, PerProcessor, Registers, Sound
<1>3. /\ ToSet(batch'[c]) = ToSet(queue[c]) /\ ToSet(queue'[c]) = {} /\ ToSet(batch[c]) = {}
      /\ IsInjective(batch'[c]) /\ IsInjective(queue'[c])
    <2>1. ToSet(<<>>) = {} /\ IsInjective(<<>>)
        BY DEF ToSet, IsInjective
    <2>2. IsInjective(queue[c])
        BY <1>0 DEF PerProcessor, HandledOnce
    <2> QED BY <1>2, <2>1, <2>2, Reversed
<1>4. ASSUME NEW d \in CPU, NEW m \in Msg
      PROVE  InHand(d, m)' = InHand(d, m) /\ Promised(d, m)' = Promised(d, m)
    <2>1. CASE d # c
        BY <1>1, <1>2, <2>1 DEF Still, Same, InHand, Promised
    <2>2. CASE d = c
        <3>1. InHand(c, m)' = InHand(c, m)
            BY <1>2, <1>3 DEF InHand
        <3>2. Promised(c, m)' = Promised(c, m)
            BY <1>1, <1>2 DEF Still, Same, Promised
        <3> QED BY <2>2, <3>1, <3>2
    <2> QED BY <2>1, <2>2
<1>5. ASSUME NEW m \in Msg PROVE Outstanding(m)' = Outstanding(m)
    <2>1. \A d \in CPU : (InHand(d, m)' \/ Promised(d, m)') = (InHand(d, m) \/ Promised(d, m))
        BY <1>4
    <2> QED BY <2>1, OutstandingIs, OutstandingIsNext
<1>6. Free' = Free /\ List'
    BY <1>0, <1>2, ListKept
<1>7. \A d \in CPU, m \in Msg : /\ Returning(d, m)' = Returning(d, m)
                                /\ Answered(d, m)' = Answered(d, m)
                                /\ Filling(d, m)' = Filling(d, m)
    BY <1>1, <1>2 DEF Still, Same, Returning, Answered, Filling
<1>8. ASSUME NEW m \in Msg PROVE Owned(m)'
    BY <1>2, <1>5, <1>6, <1>7 DEF Ownership, Owned
<1>9. ASSUME NEW d \in CPU PROVE HandledOnce(d)'
    <2>1. HandledOnce(d)
        BY DEF Ownership, PerProcessor
    <2>2. CASE d # c
        BY <1>1, <1>2, <1>4, <2>1, <2>2 DEF HandledOnce, Still, Same
    <2>3. CASE d = c
        BY <1>2, <1>3, <1>4, <2>1, <2>3 DEF HandledOnce
    <2> QED BY <2>2, <2>3
<1>10. ASSUME NEW d \in CPU PROVE Async(d)'
    BY <1>1, <1>2 DEF Ownership, PerProcessor, Async, Still, Same
<1>11. ASSUME NEW d \in CPU PROVE StillThere(d)'
    BY <1>1, <1>2, <1>5, <1>6, <1>7 DEF Ownership, PerProcessor, StillThere, Still, Same, Returned
<1>12. Registers(c)'
    BY <1>0, <1>2 DEF PerProcessor, Registers, Serving, AllOthers
<1> QED BY <1>1, <1>6, <1>8, <1>9, <1>10, <1>11, <1>12, OtherRegisters DEF Ownership, PerProcessor

\* The first message of the batch is handled.
LEMMA RunOwned ==
    ASSUME IInv, Ownership, NEW c \in CPU, Run(c)
    PROVE  Ownership'
<1>0. TypeOK /\ Sound(c) /\ PerProcessor(c) /\ List
    BY DEF IInv, Ownership
<1>b. batch[c] \in Seq(Msg) /\ batch[c] # <<>> /\ Head(batch[c]) \in Msg
    BY <1>0 DEF Run, TypeOK, Sound
<1>n. PICK n \in Msg : n = Head(batch[c])
    BY <1>b
<1>1. \A d \in CPU \ {c} : Still(d)
    BY <1>0 DEF Run, Goto, callRegs, poolRegs, TypeOK, Still, Same
<1>2. /\ UNCHANGED <<pool, next, refs, async, queue, msg, to, left, back, kind, snap, nxt>>
      /\ pc[c] = "run" /\ pc'[c] = "drop" /\ cur'[c] = n /\ isAsync'[c] = async[n]
      /\ batch'[c] = Tail(batch[c]) /\ cur[c] = Null
    BY <1>0, <1>n DEF Run, Goto, shared, callRegs, poolRegs, TypeOK, Sound
<1>3. /\ ToSet(batch[c]) = {n} \union ToSet(batch'[c]) /\ n \notin ToSet(batch'[c])
      /\ IsInjective(batch'[c])
    BY <1>0, <1>b, <1>n, <1>2, FirstAndRest DEF PerProcessor, HandledOnce
<1>4. ASSUME NEW d \in CPU, NEW m \in Msg
      PROVE  InHand(d, m)' = InHand(d, m) /\ Promised(d, m)' = Promised(d, m)
    <2>1. CASE d # c
        BY <1>1, <1>2, <2>1 DEF Still, Same, InHand, Promised
    <2>2. CASE d = c
        <3>1. InHand(c, m)' = InHand(c, m)
            BY <1>2, <1>3 DEF InHand
        <3>2. Promised(c, m)' = Promised(c, m)
            BY <1>1, <1>2 DEF Still, Same, Promised
        <3> QED BY <2>2, <3>1, <3>2
    <2> QED BY <2>1, <2>2
<1>5. ASSUME NEW m \in Msg PROVE Outstanding(m)' = Outstanding(m)
    <2>1. \A d \in CPU : (InHand(d, m)' \/ Promised(d, m)') = (InHand(d, m) \/ Promised(d, m))
        BY <1>4
    <2> QED BY <2>1, OutstandingIs, OutstandingIsNext
<1>6. Free' = Free /\ List'
    BY <1>0, <1>2, ListKept
<1>7. \A d \in CPU, m \in Msg : /\ Returning(d, m)' = Returning(d, m)
                                /\ Answered(d, m)' = Answered(d, m)
                                /\ Filling(d, m)' = Filling(d, m)
    BY <1>1, <1>2 DEF Still, Same, Returning, Answered, Filling
<1>8. ASSUME NEW m \in Msg PROVE Owned(m)'
    BY <1>2, <1>5, <1>6, <1>7 DEF Ownership, Owned
<1>9. ASSUME NEW d \in CPU PROVE HandledOnce(d)'
    <2>1. HandledOnce(d)
        BY DEF Ownership, PerProcessor
    <2>2. CASE d # c
        BY <1>1, <1>2, <1>4, <2>1, <2>2 DEF HandledOnce, Still, Same
    <2>3. CASE d = c
        BY <1>2, <1>3, <1>4, <2>1, <2>3 DEF HandledOnce
    <2> QED BY <2>2, <2>3
<1>10. ASSUME NEW d \in CPU PROVE Async(d)'
    <2>1. CASE d # c
        BY <1>1, <1>2, <2>1 DEF Ownership, PerProcessor, Async, Still, Same
    <2>2. CASE d = c
        BY <1>0, <1>2, <2>2 DEF PerProcessor, Async
    <2> QED BY <2>1, <2>2
<1>11. ASSUME NEW d \in CPU PROVE StillThere(d)'
    <2>1. CASE d # c
        <3>1. Returned(d)' = Returned(d)
            BY <1>1, <2>1 DEF Still, Same, Returned
        <3> QED BY <1>1, <1>2, <1>5, <1>6, <1>7, <2>1, <3>1
            DEF Ownership, PerProcessor, StillThere, Still, Same
    <2>2. CASE d = c
        BY <1>2, <2>2 DEF StillThere
    <2> QED BY <2>1, <2>2
<1>12. Registers(c)'
    BY <1>0, <1>2 DEF PerProcessor, Registers, Serving, AllOthers
<1> QED BY <1>1, <1>6, <1>8, <1>9, <1>10, <1>11, <1>12, OtherRegisters DEF Ownership, PerProcessor

\* The count drops with the processors still to answer; whoever drops it to zero
\* returns an asynchronous message, and the sender waits for any other.
LEMMA DropOwned ==
    ASSUME IInv, Ownership, NEW c \in CPU, Drop(c)
    PROVE  Ownership'
<1>0. TypeOK /\ Sound(c) /\ PerProcessor(c) /\ List
    BY DEF IInv, Ownership
<1>r. cur[c] \in Msg
    BY <1>0 DEF Drop, TypeOK, Sound
<1>n. PICK n \in Msg : n = cur[c]
    BY <1>r
<1>1. \A d \in CPU \ {c} : Still(d)
    BY <1>0 DEF Drop, Goto, callRegs, poolRegs, procRegs, TypeOK, Still, Same
<1>2. /\ UNCHANGED <<pool, next, async, queue, batch, cur, isAsync, msg, to, left, back, kind,
                     snap, nxt>>
      /\ pc[c] = "drop" /\ refs'[n] = refs[n] - 1 /\ \A m \in Msg \ {n} : refs'[m] = refs[m]
      /\ \/ pc'[c] = "link" /\ refs[n] = 1 /\ isAsync[c]
         \/ pc'[c] = "check" /\ ~(refs[n] = 1 /\ isAsync[c])
    BY <1>0, <1>n DEF Drop, Goto, callRegs, poolRegs, procRegs, TypeOK, LastOfAsync
<1>3. InHand(c, n) /\ Owned(n)
    BY <1>n, <1>2 DEF InHand, Ownership
<1>4. n \notin ToSet(queue[c]) \union ToSet(batch[c]) /\ ~Promised(c, n)
    BY <1>0, <1>n, <1>2, <1>3 DEF PerProcessor, HandledOnce
<1>5. ASSUME NEW d \in CPU, NEW m \in Msg
      PROVE  /\ InHand(d, m)' <=> InHand(d, m) /\ ~(d = c /\ m = n)
             /\ Promised(d, m)' = Promised(d, m)
    <2>1. Promised(d, m)' = Promised(d, m)
        BY <1>1, <1>2 DEF Still, Same, Promised
    <2>2. CASE d # c
        BY <1>1, <1>2, <2>2, <2>1 DEF Still, Same, InHand
    <2>3. CASE d = c
        BY <1>n, <1>2, <1>4, <2>1, <2>3 DEF InHand
    <2> QED BY <2>2, <2>3
<1>6. /\ c \in Outstanding(n) /\ Outstanding(n)' = Outstanding(n) \ {c}
      /\ \A m \in Msg \ {n} : Outstanding(m)' = Outstanding(m)
    <2>1. Outstanding(n)' = Outstanding(n) \ {c}
        BY <1>4, <1>5, OutstandingIs, OutstandingIsNext
    <2>2. ASSUME NEW m \in Msg \ {n} PROVE Outstanding(m)' = Outstanding(m)
        BY <1>5, OutstandingIs, OutstandingIsNext
    <2> QED BY <1>3, <2>1, <2>2, OutstandingIs
<1>7. refs'[n] = Cardinality(Outstanding(n)') /\ refs'[n] \in Nat
    <2>1. refs[n] = Cardinality(Outstanding(n)) /\ IsFiniteSet(Outstanding(n))
        BY <1>3, AnswersFinite DEF Owned
    <2>2. /\ Cardinality(Outstanding(n) \ {c}) = Cardinality(Outstanding(n)) - 1
          /\ IsFiniteSet(Outstanding(n) \ {c})
        BY <1>6, <2>1, FS_RemoveElement
    <2>3. Cardinality(Outstanding(n) \ {c}) \in Nat
        BY <2>2, FS_CardinalityType
    <2> QED BY <1>2, <1>6, <2>1, <2>2, <2>3
<1>8. refs[n] = 1 => Outstanding(n)' = {}
    <2>1. IsFiniteSet(Outstanding(n)')
        BY <1>6, AnswersFinite, FS_Subset
    <2> QED BY <1>2, <1>7, <2>1, FS_EmptySet
<1>9. n \notin Free /\ \A d \in CPU : ~Returning(d, n) /\ ~Filling(d, n) /\ ~Answered(d, n)
    BY <1>3, <1>6 DEF Owned
<1>10. isAsync[c] = async[n]
    BY <1>0, <1>n, <1>2 DEF PerProcessor, Async
<1>11. refs[n] = 1 /\ async[n] => \A d \in CPU : msg[d] # n
    <2> SUFFICES ASSUME refs[n] = 1, async[n], NEW d \in CPU, msg[d] = n PROVE FALSE
        OBVIOUS
    <2>1. pc[d] \in {"fill", "enqueue"}
        BY DEF Ownership, PerProcessor, Async
    <2>2. pc[d] = "enqueue"
        BY <1>9, <2>1 DEF Filling
    <2>3. PICK e \in left[d] : TRUE
        BY <2>2 DEF Ownership, PerProcessor, Registers
    <2>4. e \in CPU
        BY <1>0, <2>3 DEF TypeOK
    <2>5. Promised(e, n)
        BY <2>2, <2>3, <2>4 DEF Promised
    <2>6. e \in Outstanding(n)'
        BY <1>4, <1>6, <2>4, <2>5, OutstandingIs
    <2> QED BY <1>8, <2>6
<1>12. Free' = Free /\ List'
    BY <1>0, <1>2, ListKept
<1>13. ASSUME NEW d \in CPU, NEW m \in Msg
       PROVE  /\ Returning(d, m)' <=> Returning(d, m) \/ (d = c /\ m = n /\ refs[n] = 1 /\ async[n])
              /\ Answered(d, m)' = Answered(d, m)
              /\ Filling(d, m)' = Filling(d, m)
    <2>1. CASE d # c
        BY <1>1, <1>2, <2>1 DEF Still, Same, Returning, Answered, Filling
    <2>2. CASE d = c
        BY <1>n, <1>2, <1>10, <2>2, NotNull DEF Returning, Answered, Filling
    <2> QED BY <2>1, <2>2
<1>14. ASSUME NEW m \in Msg PROVE Owned(m)'
    <2>1. Owned(m)
        BY DEF Ownership
    <2>2. CASE m # n
        BY <1>2, <1>6, <1>12, <1>13, <2>1, <2>2 DEF Owned
    <2>3. CASE m = n /\ refs[n] = 1 /\ async[n]
        <3>1. \A d \in CPU : Returning(d, n)' <=> d = c
            BY <1>9, <1>13, <2>3
        <3>2. Outstanding(n)' = {} /\ \A d \in CPU : msg'[d] # n
            BY <1>2, <1>8, <1>11, <2>3
        <3> QED BY <1>2, <1>7, <1>9, <1>12, <2>3, <3>1, <3>2 DEF Owned
    <2>4. CASE m = n /\ ~(refs[n] = 1 /\ async[n])
        <3>1. \A d \in CPU : ~Returning(d, n)' /\ ~Filling(d, n)' /\ ~Answered(d, n)'
            BY <1>9, <1>13, <2>4
        <3>2. ~async[n] => \E d \in CPU : msg'[d] = n
            BY <1>2, <1>3, <1>6 DEF Owned
        <3>3. async[n] => Outstanding(n)' # {}
            <4>1. refs[n] = 1 <=> Outstanding(n)' = {}
                <5>1. Outstanding(n)' = {} => refs'[n] = 0
                    BY <1>7, FS_EmptySet
                <5>2. refs[n] \in Int
                    BY <1>0 DEF TypeOK
                <5> QED BY <1>2, <1>8, <5>1, <5>2
            <4> QED BY <2>4, <4>1
        <3> QED BY <1>2, <1>7, <1>9, <1>12, <2>1, <2>4, <3>1, <3>2, <3>3 DEF Owned
    <2> QED BY <2>2, <2>3, <2>4
<1>15. ASSUME NEW d \in CPU PROVE HandledOnce(d)'
    <2>1. HandledOnce(d)
        BY DEF Ownership, PerProcessor
    <2>2. \A m \in Msg : cur'[d] = m /\ pc'[d] = "drop" => cur[d] = m /\ pc[d] = "drop"
        BY <1>1, <1>2 DEF Still, Same
    <2> QED BY <1>2, <1>5, <2>1, <2>2 DEF HandledOnce
<1>16. ASSUME NEW d \in CPU PROVE Async(d)'
    <2>1. Async(d)
        BY DEF Ownership, PerProcessor
    <2>2. CASE d # c
        BY <1>1, <1>2, <2>1, <2>2 DEF Async, Still, Same
    <2>3. CASE d = c
        BY <1>2, <2>1, <2>3 DEF Async
    <2> QED BY <2>2, <2>3
<1>17. ASSUME NEW d \in CPU PROVE StillThere(d)'
    <2>1. CASE d # c
        <3>1. pc'[d] = pc[d] /\ Returned(d)' = Returned(d)
            BY <1>1, <1>2, <2>1 DEF Still, Same, Returned
        <3>2. \A m \in Msg : d \in Outstanding(m) => d \in Outstanding(m)'
            BY <1>6, <2>1
        <3> QED BY <1>2, <1>12, <1>13, <3>1, <3>2 DEF Ownership, PerProcessor, StillThere
    <2>2. CASE d = c
        BY <1>2, <2>2 DEF StillThere
    <2> QED BY <2>1, <2>2
<1>18. Registers(c)'
    BY <1>0, <1>r, <1>2, NotNull DEF PerProcessor, Registers, Serving, AllOthers
<1> QED BY <1>1, <1>12, <1>14, <1>15, <1>16, <1>17, <1>18, OtherRegisters DEF Ownership, PerProcessor

-----------------------------------------------------------------------------
(* The steps together.                                                      *)

\* smp_enable chains every message: the list is the whole pool.
LEMMA InitOwned == Init => Ownership
<1> SUFFICES ASSUME Init PROVE Ownership
    OBVIOUS
<1>1. /\ pool = 1 /\ PoolSize \in Nat \ {0}
      /\ \A m \in Msg : next[m] = IF m < PoolSize THEN m + 1 ELSE Null
    BY SmpAssumption DEF Init
<1>2. Free = Msg
    <2>1. SUFFICES ASSUME NEW F \in SUBSET Msg, FollowsList(F), Msg \ F # {} PROVE FALSE
        BY DEF Free
    <2>2. Msg \ F \in SUBSET Nat
        BY DEF Msg
    <2>3. PICK x \in Msg \ F : \A k \in Msg \ F : x <= k
        BY <2>1, <2>2, LeastNumber
    <2>4. x # 1
        BY <1>1, <2>1, <2>3 DEF FollowsList, Null
    <2>5. x - 1 \in Msg /\ next[x - 1] = x
        BY <1>1, <2>4 DEF Msg
    <2>6. x - 1 \in F
        <3>1. ~(x <= x - 1)
            BY DEF Msg
        <3> QED BY <2>3, <2>5, <3>1
    <2> QED BY <2>1, <2>3, <2>5, <2>6, NotNull DEF FollowsList
<1>3. List
    BY <1>1, <1>2 DEF List, Msg, Null
<1>4. ToSet(<<>>) = {} /\ IsInjective(<<>>) /\ Cardinality({}) = 0
    BY FS_EmptySet DEF ToSet, IsInjective
<1>5. \A c \in CPU : /\ pc[c] = "idle" /\ queue[c] = <<>> /\ batch[c] = <<>> /\ cur[c] = Null
                     /\ msg[c] = Null
    BY DEF Init
<1>6. ASSUME NEW m \in Msg PROVE Owned(m)
    <2>1. Outstanding(m) = {}
        BY <1>4, <1>5 DEF Outstanding
    <2>2. refs[m] = 0
        BY DEF Init
    <2> QED BY <1>2, <1>4, <1>5, <2>1, <2>2, NotNull DEF Owned, Returning, Filling, Answered
<1>7. ASSUME NEW c \in CPU PROVE PerProcessor(c)
    <2>1. Registers(c)
        BY <1>5 DEF Registers, Serving
    <2>2. HandledOnce(c)
        BY <1>4, <1>5 DEF HandledOnce, Promised
    <2>3. Async(c) /\ StillThere(c)
        BY <1>5, NotNull DEF Async, StillThere
    <2> QED BY <2>1, <2>2, <2>3 DEF PerProcessor
<1> QED BY <1>3, <1>6, <1>7 DEF Ownership

LEMMA StutterOwned ==
    ASSUME Ownership, UNCHANGED vars
    PROVE  Ownership'
<1>1. UNCHANGED <<pool, next, refs, async, queue, pc, back, kind, to, left, msg, snap, nxt,
                  batch, cur, isAsync>>
    BY DEF vars, shared, callRegs, poolRegs, procRegs
<1>2. Free' = Free /\ List'
    BY <1>1, ListKept DEF Ownership
<1>3. /\ \A m \in Msg : /\ Outstanding(m)' = Outstanding(m)
                        /\ \A c \in CPU : /\ InHand(c, m)' = InHand(c, m)
                                          /\ Promised(c, m)' = Promised(c, m)
                                          /\ Returning(c, m)' = Returning(c, m)
                                          /\ Filling(c, m)' = Filling(c, m)
                                          /\ Answered(c, m)' = Answered(c, m)
    BY <1>1 DEF Outstanding, InHand, Promised, Returning, Filling, Answered
<1>4. ASSUME NEW m \in Msg PROVE Owned(m)'
    BY <1>1, <1>2, <1>3 DEF Ownership, Owned
<1>5. ASSUME NEW c \in CPU PROVE PerProcessor(c)'
    <2>1. Registers(c)' /\ HandledOnce(c)' /\ Async(c)'
        BY <1>1, <1>3 DEF Ownership, PerProcessor, Registers, AllOthers, Serving, HandledOnce, Async
    <2>2. StillThere(c)'
        BY <1>1, <1>2, <1>3 DEF Ownership, PerProcessor, StillThere, Returned
    <2> QED BY <2>1, <2>2 DEF PerProcessor
<1> QED BY <1>2, <1>4, <1>5 DEF Ownership

\* Under ToAllOthers the target of a unicast is all there is.
LEMMA CallsGoToAllOthers ==
    ASSUME ToAllOthers, NEW c \in CPU, FlushTlb(c) \/ Unicast(c)
    PROVE  \E k \in Kinds : Begin(c, k, CPU \ {c})
<1>1. \A k, S : Begin(c, k, S) => k \in Kinds
    BY DEF Begin
<1>2. CASE FlushTlb(c)
    BY <1>1, <1>2 DEF FlushTlb
<1>3. CASE Unicast(c)
    <2>1. PICK d \in CPU \ {c}, k \in {"sync", "async"} : Begin(c, k, {d})
        BY <1>3 DEF Unicast
    <2>2. k \in Kinds /\ k # "flush"
        BY <1>1, <2>1
    <2>3. NumCPU = 2
        BY <2>2 DEF ToAllOthers
    <2>4. {d} = CPU \ {c}
        BY <2>3 DEF CPU
    <2> QED BY <2>1, <2>2, <2>4
<1> QED BY <1>2, <1>3

\* Nothing a processor does takes a message from another, whatever they do in between.
THEOREM OwnershipInductive == ASSUME ToAllOthers PROVE Spec => []Ownership
<1>1. Init => Ownership
    BY InitOwned
<1>2. IInv /\ IInv' /\ Ownership /\ [Next]_vars => Ownership'
    <2> SUFFICES ASSUME IInv, IInv', Ownership, [Next]_vars PROVE Ownership'
        OBVIOUS
    <2>1. ASSUME NEW c \in CPU, FlushTlb(c) \/ Unicast(c) PROVE Ownership'
        <3>1. PICK k \in Kinds : Begin(c, k, CPU \ {c})
            BY <2>1, CallsGoToAllOthers
        <3> QED BY <3>1, BeginOwned
    <2>2. ASSUME NEW c \in CPU, Halt(c) \/ TakeIpi(c) \/ OtherTrap(c) PROVE Ownership'
        BY <2>2, HaltOwned, TakeIpiOwned, OtherTrapOwned
    <2>3. ASSUME NEW c \in CPU, Pop(c) \/ Push(c) \/ Exchange(c) PROVE Ownership'
        BY <2>3, PopOwned, PopAgainOwned, PushOwned, PushAgainOwned, ExchangeOwned, NothingToDoOwned
    <2>4. ASSUME NEW c \in CPU, Step(c) PROVE Ownership'
        BY <2>3, <2>4, LoadPoolOwned, ReadNextOwned, FillOwned, EnqueueOwned, SendIpiOwned,
            WaitOwned, LinkOwned, RunOwned, DropOwned, CheckOwned, HaltStoreOwned, HaltIpiOwned DEF Step
    <2>5. CASE UNCHANGED vars
        BY <2>5, StutterOwned
    <2> QED BY <2>1, <2>2, <2>4, <2>5 DEF Next
<1> QED BY <1>1, <1>2, Inductive, PTL DEF Spec

\* No two processors own a message, and the compare_exchange of smp_get_from_pool
\* hands out none that is owned or on its way, when calls go to all the others.
THEOREM MessagesOwnedOnce == ASSUME ToAllOthers PROVE Spec => []ExclusiveOwnership
<1>1. Ownership => ExclusiveOwnership
    <2> SUFFICES ASSUME Ownership, NEW m \in Msg
                 PROVE  /\ Cardinality(Holders(m)) <= 1
                        /\ m \in Free => Holders(m) = {} /\ Outstanding(m) = {}
        BY DEF ExclusiveOwnership
    <2>1. Owned(m)
        BY DEF Ownership
    <2>2. Holders(m) = {c \in CPU : msg[c] = m \/ Returning(c, m)}
        BY DEF Holders, Returning
    <2>3. \A c, d \in Holders(m) : c = d
        BY <2>1, <2>2 DEF Owned
    <2>4. Cardinality(Holders(m)) <= 1
        <3>1. CASE Holders(m) = {}
            BY <3>1, FS_EmptySet
        <3>2. CASE Holders(m) # {}
            <4>1. PICK c \in Holders(m) : Holders(m) = {c}
                BY <2>3, <3>2
            <4>2. Cardinality({c}) = 1
                BY FS_Singleton
            <4> QED BY <4>1, <4>2
        <3> QED BY <3>1, <3>2
    <2>5. m \in Free => Holders(m) = {} /\ Outstanding(m) = {}
        BY <2>1, <2>2 DEF Owned
    <2> QED BY <2>4, <2>5
<1> QED BY <1>1, OwnershipInductive, PTL

\* The fetch_sub of smp_process_pending_messages never finds zero, and the sender
\* that spins on the count leaves when everyone has answered and not before.
THEOREM RefsCounted == ASSUME ToAllOthers PROVE Spec => []RefsCountOutstanding
<1>1. Ownership => RefsCountOutstanding
    BY DEF Ownership, Owned, RefsCountOutstanding
<1> QED BY <1>1, OwnershipInductive, PTL

\* A message that smp_get_from_pool takes is owned or awaited until
\* smp_return_to_pool chains it again: the pool does not shrink.
THEOREM MessagesReturn == ASSUME ToAllOthers PROVE Spec => []NoMessageLeaked
<1>1. Ownership => NoMessageLeaked
    <2> SUFFICES ASSUME Ownership, NEW m \in Msg
                 PROVE  m \in Free \/ Holders(m) # {} \/ Outstanding(m) # {}
        BY DEF NoMessageLeaked
    <2>1. Holders(m) = {c \in CPU : msg[c] = m \/ Returning(c, m)}
        BY DEF Holders, Returning
    <2> QED BY <2>1 DEF Ownership, Owned
<1> QED BY <1>1, OwnershipInductive, PTL

-----------------------------------------------------------------------------
(* What is in an inbox.                                                     *)

\* Posting puts a message behind all that have arrived.
LEMMA PostedLast ==
    ASSUME NEW b \in Seq(Msg), NEW q \in Seq(Msg), NEW m \in Msg
    PROVE  b \o Reverse(<<m>> \o q) = Append(b \o Reverse(q), m)
<1> DEFINE p == <<m>> \o q
           r == Reverse(q)
           s == Reverse(p)
<1>1. /\ Len(p) = Len(q) + 1 /\ Len(q) \in Nat /\ p[1] = m
      /\ \A i \in 1..Len(q) : p[i + 1] = q[i] /\ q[i] \in Msg
    OBVIOUS
<1>2. p \in Seq(Msg)
    OBVIOUS
<1> HIDE DEF p
<1>3. r = [i \in 1..Len(q) |-> q[Len(q) - i + 1]] /\ s = [i \in 1..Len(p) |-> p[Len(p) - i + 1]]
    BY DEF Reverse
<1>4. r \in Seq(Msg) /\ Len(r) = Len(q) /\ \A i \in 1..Len(q) : r[i] = q[Len(q) - i + 1]
    <2>1. \A i \in 1..Len(q) : Len(q) - i + 1 \in 1..Len(q)
        BY <1>1
    <2> QED BY <1>1, <1>3, <2>1
<1>5. s \in Seq(Msg) /\ Len(s) = Len(q) + 1 /\ \A i \in 1..(Len(q) + 1) : s[i] = p[Len(q) + 1 - i + 1]
    <2>1. \A i \in 1..Len(p) : Len(p) - i + 1 \in 1..Len(p) /\ p[Len(p) - i + 1] \in Msg
        BY <1>1, <1>2
    <2> QED BY <1>1, <1>3, <2>1
<1> HIDE DEF r, s
<1>6. \A i \in 1..Len(q) : s[i] = r[i]
    <2> TAKE i \in 1..Len(q)
    <2>1. Len(q) - i + 1 \in 1..Len(q) /\ (Len(q) - i + 1) + 1 = Len(q) + 1 - i + 1 /\ i \in 1..(Len(q) + 1)
        BY <1>1
    <2>2. p[(Len(q) - i + 1) + 1] = q[Len(q) - i + 1]
        BY <1>1, <2>1
    <2> QED BY <1>4, <1>5, <2>1, <2>2
<1>7. s[Len(q) + 1] = m
    <2>1. Len(q) + 1 \in 1..(Len(q) + 1) /\ Len(q) + 1 - (Len(q) + 1) + 1 = 1
        BY <1>1
    <2> QED BY <1>1, <1>5, <2>1
<1>8. s = Append(r, m)
    BY <1>1, <1>4, <1>5, <1>6, <1>7
<1>9. b \o Append(r, m) = Append(b \o r, m)
    BY <1>4
<1> QED BY <1>8, <1>9 DEF p, r, s

\* Only what has arrived is in an inbox.
LEMMA ArrivedIs ==
    ASSUME NEW b \in Seq(Msg), NEW q \in Seq(Msg)
    PROVE  /\ b \o Reverse(q) \in Seq(Msg)
           /\ \A i \in 1..Len(b \o Reverse(q)) : (b \o Reverse(q))[i] \in ToSet(b) \union ToSet(q)
<1> DEFINE r == Reverse(q)
<1>1. /\ r \in Seq(Msg) /\ Len(r) = Len(q) /\ Len(b) \in Nat /\ Len(q) \in Nat
      /\ \A i \in 1..Len(q) : r[i] \in ToSet(q)
    <2>1. Len(q) \in Nat /\ \A i \in 1..Len(q) : q[i] \in Msg /\ Len(q) - i + 1 \in 1..Len(q)
        OBVIOUS
    <2>2. r = [i \in 1..Len(q) |-> q[Len(q) - i + 1]] /\ DOMAIN q = 1..Len(q)
        BY DEF Reverse
    <2> QED BY <2>1, <2>2 DEF ToSet
<1> HIDE DEF r
<1>2. /\ Len(b \o r) = Len(b) + Len(q)
      /\ \A i \in 1..Len(b) : (b \o r)[i] = b[i] /\ b[i] \in ToSet(b)
      /\ \A i \in (Len(b) + 1)..(Len(b) + Len(q)) : (b \o r)[i] = r[i - Len(b)] /\ i - Len(b) \in 1..Len(q)
    <2>1. Len(b \o r) = Len(b) + Len(q)
        BY <1>1
    <2>2. \A i \in 1..Len(b) : (b \o r)[i] = b[i]
        BY <1>1
    <2>3. \A i \in 1..Len(b) : b[i] \in ToSet(b)
        BY <1>1 DEF ToSet
    <2>4. \A i \in (Len(b) + 1)..(Len(b) + Len(q)) : (b \o r)[i] = r[i - Len(b)]
        BY <1>1
    <2>5. \A i \in (Len(b) + 1)..(Len(b) + Len(q)) : i - Len(b) \in 1..Len(q)
        BY <1>1
    <2> QED BY <2>1, <2>2, <2>3, <2>4, <2>5
<1>3. \A i \in 1..Len(b \o r) : i \in 1..Len(b) \/ i \in (Len(b) + 1)..(Len(b) + Len(q))
    BY <1>1, <1>2
<1> QED BY <1>1, <1>2, <1>3 DEF r

\* Taking the whole queue for an empty batch changes no order.
LEMMA ExchangedSame ==
    ASSUME NEW q \in Seq(Msg)
    PROVE  InOrder(q) \o Reverse(<<>>) = <<>> \o Reverse(q)
<1>1. Reverse(<<>>) = <<>>
    BY DEF Reverse
<1>2. Reverse(q) \in Seq(Msg)
    <2>1. Len(q) \in Nat /\ \A i \in 1..Len(q) : q[i] \in Msg /\ Len(q) - i + 1 \in 1..Len(q)
        OBVIOUS
    <2> QED BY <2>1 DEF Reverse
<1> QED BY <1>1, <1>2 DEF InOrder

LEMMA TailIs ==
    ASSUME NEW S, NEW s \in Seq(S), s # <<>>
    PROVE  Tail(s) = [i \in 1..(Len(s) - 1) |-> s[i + 1]]
<1>1. Tail(s) \in Seq(S) /\ Len(Tail(s)) = Len(s) - 1 /\ \A i \in 1..(Len(s) - 1) : Tail(s)[i] = s[i + 1]
    OBVIOUS
<1>2. \A t \in Seq(S) : t = [i \in 1..Len(t) |-> t[i]]
    OBVIOUS
<1>3. Tail(s) = [i \in 1..(Len(s) - 1) |-> Tail(s)[i]]
    BY <1>1, <1>2
<1> QED BY <1>1, <1>3

\* The first message of the batch is the first that has arrived.
LEMMA FirstOfBatch ==
    ASSUME NEW b \in Seq(Msg), NEW q \in Seq(Msg), b # <<>>
    PROVE  LET s == b \o Reverse(q)
           IN  /\ Tail(b) \o Reverse(q) = Tail(s)
               /\ s \in Seq(Msg) /\ s # <<>> /\ s[1] = Head(b)
<1> DEFINE r == Reverse(q)
<1>1. r \in Seq(Msg)
    <2>1. Len(q) \in Nat /\ \A i \in 1..Len(q) : q[i] \in Msg /\ Len(q) - i + 1 \in 1..Len(q)
        OBVIOUS
    <2> QED BY <2>1 DEF Reverse
<1> HIDE DEF r
<1>2. Tail(b) \o r = Tail(b \o r) /\ b \o r \in Seq(Msg) /\ b \o r # <<>> /\ (b \o r)[1] = Head(b)
    BY <1>1
<1> QED BY <1>2 DEF r

-----------------------------------------------------------------------------
(* The invariant.                                                            *)

\* The messages that c has yet to serve.
Box(c) == ToSet(queue[c]) \union ToSet(batch[c])

\* The requests that have come to c.
Seen(c) == ran[c] \union {body[m] : m \in Box(c)}

\* c is in a call whose message it has yet to fill.
Asking(c) == pc[c] \in {"load", "next", "pop", "fill"} \/ (Serving(c) /\ back[c] = "load")

\* c is in a call whose message is posted to all, and waits for the answers.
Waiting(c) ==
    \/ pc[c] = "wait" \/ (Serving(c) /\ back[c] = "wait")
    \/ pc[c] \in {"link", "push"} /\ cur[c] = Null

\* The call a processor is in, also while it serves its own queue.
Calling(c) ==
    /\ to[c] = IF kind[c] = "none" THEN {} ELSE CPU \ {c}
    /\ pc[c] \in {"idle", "haltStore", "haltIpi"} \/ (Serving(c) /\ back[c] = "idle") => kind[c] = "none"
    /\ pc[c] \in {"enqueue", "ipi"} \/ Asking(c) => kind[c] # "none"
    /\ pc[c] = "ipi" \/ Waiting(c) => left[c] = {}
    /\ Waiting(c) => kind[c] \in {"flush", "sync"}

\* What has come to d came once, from others, and is of no call not yet posted to it.
Requests(d) ==
    /\ \A m \in Box(d) : body[m][1] # d /\ body[m] \notin ran[d]
    /\ \A m, n \in Box(d) : body[m] = body[n] => m = n
    /\ \A r \in Seen(d) : r[2] <= calls[r[1]]
    /\ \A s \in CPU \ {d} : Asking(s) \/ (pc[s] = "enqueue" /\ d \in left[s]) => Request(s) \notin Seen(d)

\* The message of a call carries it, and is with each target that has not served it.
Carried(s) ==
    \A m \in Msg : msg[s] = m /\ pc[s] # "fill" =>
        /\ body[m] = Request(s)
        /\ \A d \in to[s] : \/ pc[s] = "enqueue" /\ d \in left[s]
                            \/ m \in Box(d)
                            \/ Request(s) \in ran[d]

Delivering == \A c \in CPU : Calling(c) /\ Requests(c) /\ Carried(c)

LEMMA BoxIs ==
    ASSUME TypeOK, NEW c \in CPU
    PROVE  Box(c) \subseteq Msg /\ \A m \in Box(c) : body[m] \in CPU \X (0..MaxCalls)
<1>1. Box(c) \subseteq Msg
    <2>1. queue[c] \in Seq(Msg) /\ batch[c] \in Seq(Msg)
        BY DEF TypeOK
    <2>2. ASSUME NEW q \in Seq(Msg) PROVE ToSet(q) \subseteq Msg
        BY DEF ToSet
    <2> QED BY <2>1, <2>2 DEF Box
<1> QED BY <1>1 DEF TypeOK

LEMMA SeenIs ==
    ASSUME TypeOK, NEW c \in CPU
    PROVE  \A r \in Seen(c) : r[1] \in CPU /\ r[2] \in Nat
<1>1. ran[c] \subseteq CPU \X (0..MaxCalls) /\ \A m \in Box(c) : body[m] \in CPU \X (0..MaxCalls)
    BY BoxIs DEF TypeOK
<1>2. Seen(c) \subseteq CPU \X (0..MaxCalls)
    BY <1>1 DEF Seen
<1> QED BY <1>2

\* What is in the box is outstanding; a message that is filled is in none.
LEMMA BoxOutstanding ==
    ASSUME NEW c \in CPU, NEW m \in Msg, m \in Box(c)
    PROVE  c \in Outstanding(m)
BY DEF Box, Outstanding

\* The inbox stays as long as the box and what its messages carry.
LEMMA InboxKept ==
    ASSUME TypeOK, NEW c \in CPU, queue'[c] = queue[c], batch'[c] = batch[c],
           \A m \in Box(c) : body'[m] = body[m]
    PROVE  Inbox(c)' = Inbox(c)
<1>1. queue[c] \in Seq(Msg) /\ batch[c] \in Seq(Msg) /\ Arrived(c)' = Arrived(c)
    BY DEF TypeOK, Arrived
<1>2. \A i \in 1..Len(Arrived(c)) : Arrived(c)[i] \in Box(c)
    BY <1>1, ArrivedIs DEF Arrived, Box
<1> QED BY <1>1, <1>2 DEF Inbox

\* A step that the abstract specification does not see.
LEMMA Unseen ==
    ASSUME TypeOK, TypeOK', NEW c \in CPU, \A d \in CPU \ {c} : Still(d),
           \A d \in CPU : Inbox(d)' = Inbox(d), ran' = ran, calls' = calls,
           kind'[c] = kind[c], to'[c] = to[c], kind[c] = "none" \/ left'[c] = left[c]
    PROVE  UNCHANGED Delivery!vars
<1>1. \A d \in CPU : kind'[d] = kind[d] /\ to'[d] = to[d] /\ (kind[d] = "none" \/ left'[d] = left[d])
    BY DEF Still, Same
<1>2. Inboxes' = Inboxes
    BY DEF Inboxes
<1>3. Served' = Served
    BY DEF Served
<1>4. to' = to
    BY <1>1 DEF TypeOK
<1>5. ToPost' = ToPost
    BY <1>1 DEF ToPost
<1>6. Waits' = Waits
    BY <1>1 DEF Waits
<1> QED BY <1>2, <1>3, <1>4, <1>5, <1>6 DEF Delivery!vars

\* Another processor is in the call it was in.
LEMMA OtherCalls ==
    ASSUME Delivering, NEW c \in CPU, \A d \in CPU \ {c} : Still(d)
    PROVE  \A d \in CPU \ {c} : Calling(d)' /\ Asking(d)' = Asking(d)
<1> SUFFICES ASSUME NEW d \in CPU \ {c} PROVE Calling(d)' /\ Asking(d)' = Asking(d)
    OBVIOUS
<1>1. Serving(d)' = Serving(d) /\ Asking(d)' = Asking(d) /\ Waiting(d)' = Waiting(d)
    BY DEF Still, Same, Serving, Asking, Waiting
<1> QED BY <1>1 DEF Delivering, Calling, Still, Same

\* A step that posts, fills and serves no message.
LEMMA Kept ==
    ASSUME TypeOK, Delivering, NEW c \in CPU, \A d \in CPU \ {c} : Still(d),
           UNCHANGED <<body, calls>>, \A d \in CPU : Box(d)' = Box(d),
           \A d \in CPU \ {c} : ran'[d] = ran[d],
           ran'[c] = ran[c] \/ ran'[c] = ran[c] \union {Request(c)},
           {pc[c], pc'[c]} \intersect {"enqueue"} = {}, pc[c] # "fill",
           Asking(c)' => Asking(c),
           msg'[c] = Null \/ pc'[c] = "fill" \/ (msg'[c] = msg[c] /\ to'[c] = to[c]),
           Calling(c)'
    PROVE  Delivering'
<1>1. ASSUME NEW d \in CPU PROVE Calling(d)' /\ (Asking(d)' => Asking(d))
    BY OtherCalls
<1>2. ASSUME NEW d \in CPU PROVE Request(d)' = Request(d)
    BY DEF Request
<1>3. ASSUME NEW d \in CPU PROVE Requests(d)'
    <2>1. Requests(d)
        BY DEF Delivering
    <2>2. CASE ran'[d] = ran[d]
        <3>1. Seen(d)' = Seen(d)
            BY <2>2 DEF Seen
        <3>2. ASSUME NEW s \in CPU \ {d} 
              PROVE  Asking(s)' \/ (pc'[s] = "enqueue" /\ d \in left'[s])
                        => Asking(s) \/ (pc[s] = "enqueue" /\ d \in left[s])
            BY <1>1 DEF Still, Same
        <3> QED BY <1>2, <2>1, <2>2, <3>1, <3>2 DEF Requests
    <2>3. CASE d = c /\ ran'[c] = ran[c] \union {Request(c)}
        <3>1. Seen(c)' = Seen(c) \union {Request(c)}
            BY <2>3 DEF Seen
        <3>2. ASSUME NEW m \in Box(c) PROVE body[m] # Request(c)
            BY <2>1, <2>3 DEF Requests, Request
        <3>3. Request(c)[1] = c /\ Request(c)[2] = calls[c] /\ calls[c] \in Nat
            BY DEF Request, TypeOK
        <3>4. \A r \in Seen(c)' : r[2] <= calls'[r[1]]
            BY <2>1, <2>3, <3>1, <3>3 DEF Requests
        <3>5. ASSUME NEW s \in CPU \ {c} 
              PROVE  /\ Asking(s)' \/ (pc'[s] = "enqueue" /\ c \in left'[s])
                            => Asking(s) \/ (pc[s] = "enqueue" /\ c \in left[s])
                     /\ Request(s) # Request(c)
            BY <1>1 DEF Still, Same, Request
        <3> QED BY <1>2, <2>1, <2>3, <3>1, <3>2, <3>4, <3>5 DEF Requests
    <2> QED BY <2>2, <2>3
<1>4. ASSUME NEW d \in CPU PROVE Carried(d)'
    <2>1. Carried(d)
        BY DEF Delivering
    <2>2. \A e \in CPU : ran[e] \subseteq ran'[e]
        OBVIOUS
    <2>3. CASE d # c
        <3>1. to[d] \subseteq CPU
            BY DEF TypeOK
        <3> QED BY <1>2, <2>1, <2>2, <2>3, <3>1 DEF Carried, Still, Same
    <2>4. CASE d = c
        <3>1. to[c] \subseteq CPU
            BY DEF TypeOK
        <3>2. \A m \in Msg : m # Null
            BY NotNull
        <3>3. CASE msg'[c] = Null \/ pc'[c] = "fill"
            BY <2>4, <3>2, <3>3 DEF Carried
        <3>4. CASE msg'[c] = msg[c] /\ to'[c] = to[c]
            <4> SUFFICES ASSUME NEW m \in Msg, msg[c] = m
                         PROVE  /\ body'[m] = Request(c)'
                                /\ \A e \in to[c] : m \in Box(e)' \/ Request(c)' \in ran'[e]
                BY <2>4, <3>4 DEF Carried
            <4>1. body[m] = Request(c) /\ \A e \in to[c] : m \in Box(e) \/ Request(c) \in ran[e]
                BY <2>1, <2>4 DEF Carried
            <4> QED BY <1>2, <2>2, <3>1, <4>1
        <3> QED BY <3>3, <3>4
    <2> QED BY <2>3, <2>4
<1> QED BY <1>1, <1>3, <1>4 DEF Delivering

\* A step of c that moves it, or the pool, and nothing the abstract specification sees.
LEMMA Moved ==
    ASSUME TypeOK, TypeOK', Delivering, NEW c \in CPU, \A d \in CPU \ {c} : Still(d),
           UNCHANGED <<queue, body, ran, calls>>, batch'[c] = batch[c],
           {pc[c], pc'[c]} \intersect {"enqueue"} = {}, pc[c] # "fill",
           Asking(c)' => Asking(c),
           msg'[c] = msg[c] \/ pc'[c] = "fill",
           kind'[c] = kind[c], to'[c] = to[c], kind[c] = "none" \/ left'[c] = left[c],
           Calling(c)'
    PROVE  Delivering' /\ UNCHANGED Delivery!vars
<1>1. \A d \in CPU : queue'[d] = queue[d] /\ batch'[d] = batch[d]
    BY DEF Still, Same
<1>2. \A d \in CPU : Box(d)' = Box(d)
    BY <1>1 DEF Box
<1>3. \A d \in CPU : Inbox(d)' = Inbox(d)
    BY <1>1, InboxKept
<1>4. UNCHANGED Delivery!vars
    BY <1>3, Unseen
<1>5. Delivering'
    BY <1>2, Kept
<1> QED BY <1>4, <1>5

-----------------------------------------------------------------------------
(* The steps the abstract specification does not see.                       *)

LEMMA LoadPoolUnseen ==
    ASSUME IInv, IInv', Delivering, NEW c \in CPU, LoadPool(c)
    PROVE  Delivering' /\ UNCHANGED Delivery!vars
<1>0. TypeOK /\ TypeOK' /\ Sound(c) /\ Calling(c)
    BY DEF IInv, Delivering
<1>1. \A d \in CPU \ {c} : Still(d)
    BY <1>0 DEF LoadPool, Goto, Process, shared, callRegs, poolRegs, procRegs, TypeOK, Still, Same
<1>2. /\ UNCHANGED <<queue, body, ran, calls, kind, to, batch>>
      /\ msg'[c] = msg[c] \/ pc'[c] = "fill"
      /\ pc[c] \notin {"enqueue", "fill"} /\ pc'[c] # "enqueue"
    BY <1>0 DEF LoadPool, Goto, Process, shared, callRegs, poolRegs, procRegs, history, TypeOK
<1>3. (Asking(c)' => Asking(c)) /\ Calling(c)' /\ (kind[c] = "none" \/ left'[c] = left[c])
    BY <1>0 DEF LoadPool, Goto, Process, shared, callRegs, poolRegs, procRegs, TypeOK, Sound, Calling, Asking, Waiting,
        Serving, LastOfAsync
<1> QED BY <1>0, <1>1, <1>2, <1>3, Moved

LEMMA ReadNextUnseen ==
    ASSUME IInv, IInv', Delivering, NEW c \in CPU, ReadNext(c)
    PROVE  Delivering' /\ UNCHANGED Delivery!vars
<1>0. TypeOK /\ TypeOK' /\ Sound(c) /\ Calling(c)
    BY DEF IInv, Delivering
<1>1. \A d \in CPU \ {c} : Still(d)
    BY <1>0 DEF ReadNext, Goto, shared, callRegs, poolRegs, procRegs, TypeOK, Still, Same
<1>2. /\ UNCHANGED <<queue, body, ran, calls, kind, to, batch>>
      /\ msg'[c] = msg[c] \/ pc'[c] = "fill"
      /\ pc[c] \notin {"enqueue", "fill"} /\ pc'[c] # "enqueue"
    BY <1>0 DEF ReadNext, Goto, shared, callRegs, poolRegs, procRegs, history, TypeOK
<1>3. (Asking(c)' => Asking(c)) /\ Calling(c)' /\ (kind[c] = "none" \/ left'[c] = left[c])
    BY <1>0 DEF ReadNext, Goto, shared, callRegs, poolRegs, procRegs, TypeOK, Sound, Calling, Asking, Waiting,
        Serving, LastOfAsync
<1> QED BY <1>0, <1>1, <1>2, <1>3, Moved

LEMMA LinkUnseen ==
    ASSUME IInv, IInv', Delivering, NEW c \in CPU, Link(c)
    PROVE  Delivering' /\ UNCHANGED Delivery!vars
<1>0. TypeOK /\ TypeOK' /\ Sound(c) /\ Calling(c)
    BY DEF IInv, Delivering
<1>1. \A d \in CPU \ {c} : Still(d)
    BY <1>0 DEF Link, Goto, shared, callRegs, poolRegs, procRegs, TypeOK, Still, Same
<1>2. /\ UNCHANGED <<queue, body, ran, calls, kind, to, batch>>
      /\ msg'[c] = msg[c] \/ pc'[c] = "fill"
      /\ pc[c] \notin {"enqueue", "fill"} /\ pc'[c] # "enqueue"
    BY <1>0 DEF Link, Goto, shared, callRegs, poolRegs, procRegs, history, TypeOK
<1>3. (Asking(c)' => Asking(c)) /\ Calling(c)' /\ (kind[c] = "none" \/ left'[c] = left[c])
    BY <1>0 DEF Link, Goto, shared, callRegs, poolRegs, procRegs, TypeOK, Sound, Calling, Asking, Waiting,
        Serving, LastOfAsync
<1> QED BY <1>0, <1>1, <1>2, <1>3, Moved

LEMMA DropUnseen ==
    ASSUME IInv, IInv', Delivering, NEW c \in CPU, Drop(c)
    PROVE  Delivering' /\ UNCHANGED Delivery!vars
<1>0. TypeOK /\ TypeOK' /\ Sound(c) /\ Calling(c)
    BY DEF IInv, Delivering
<1>1. \A d \in CPU \ {c} : Still(d)
    BY <1>0 DEF Drop, Goto, shared, callRegs, poolRegs, procRegs, TypeOK, Still, Same
<1>2. /\ UNCHANGED <<queue, body, ran, calls, kind, to, batch>>
      /\ msg'[c] = msg[c] \/ pc'[c] = "fill"
      /\ pc[c] \notin {"enqueue", "fill"} /\ pc'[c] # "enqueue"
    BY <1>0 DEF Drop, Goto, shared, callRegs, poolRegs, procRegs, history, TypeOK
<1>3. (Asking(c)' => Asking(c)) /\ Calling(c)' /\ (kind[c] = "none" \/ left'[c] = left[c])
    BY <1>0 DEF Drop, Goto, shared, callRegs, poolRegs, procRegs, TypeOK, Sound, Calling, Asking, Waiting,
        Serving, LastOfAsync
<1> QED BY <1>0, <1>1, <1>2, <1>3, Moved

LEMMA CheckUnseen ==
    ASSUME IInv, IInv', Delivering, NEW c \in CPU, Check(c)
    PROVE  Delivering' /\ UNCHANGED Delivery!vars
<1>0. TypeOK /\ TypeOK' /\ Sound(c) /\ Calling(c)
    BY DEF IInv, Delivering
<1>1. \A d \in CPU \ {c} : Still(d)
    BY <1>0 DEF Check, Goto, shared, callRegs, poolRegs, procRegs, TypeOK, Still, Same
<1>2. /\ UNCHANGED <<queue, body, ran, calls, kind, to, batch>>
      /\ msg'[c] = msg[c] \/ pc'[c] = "fill"
      /\ pc[c] \notin {"enqueue", "fill"} /\ pc'[c] # "enqueue"
    BY <1>0 DEF Check, Goto, shared, callRegs, poolRegs, procRegs, history, TypeOK
<1>3. (Asking(c)' => Asking(c)) /\ Calling(c)' /\ (kind[c] = "none" \/ left'[c] = left[c])
    BY SMTT(20), <1>0 DEF Check, Goto, shared, callRegs, poolRegs, procRegs, TypeOK, Sound, Calling, Asking, Waiting,
        Serving, LastOfAsync
<1> QED BY <1>0, <1>1, <1>2, <1>3, Moved

LEMMA TakeIpiUnseen ==
    ASSUME IInv, IInv', Delivering, NEW c \in CPU, TakeIpi(c)
    PROVE  Delivering' /\ UNCHANGED Delivery!vars
<1>0. TypeOK /\ TypeOK' /\ Sound(c) /\ Calling(c)
    BY DEF IInv, Delivering
<1>1. \A d \in CPU \ {c} : Still(d)
    BY <1>0 DEF TakeIpi, Goto, Process, shared, callRegs, poolRegs, procRegs, TypeOK, Still, Same
<1>2. /\ UNCHANGED <<queue, body, ran, calls, kind, to, batch>>
      /\ msg'[c] = msg[c] \/ pc'[c] = "fill"
      /\ pc[c] \notin {"enqueue", "fill"} /\ pc'[c] # "enqueue"
    BY <1>0 DEF TakeIpi, Goto, Process, shared, callRegs, poolRegs, procRegs, history, TypeOK
<1>3. (Asking(c)' => Asking(c)) /\ Calling(c)' /\ (kind[c] = "none" \/ left'[c] = left[c])
    BY <1>0 DEF TakeIpi, Goto, Process, shared, callRegs, poolRegs, procRegs, TypeOK, Sound, Calling, Asking, Waiting,
        Serving, LastOfAsync
<1> QED BY <1>0, <1>1, <1>2, <1>3, Moved

LEMMA OtherTrapUnseen ==
    ASSUME IInv, IInv', Delivering, NEW c \in CPU, OtherTrap(c)
    PROVE  Delivering' /\ UNCHANGED Delivery!vars
<1>0. TypeOK /\ TypeOK' /\ Sound(c) /\ Calling(c)
    BY DEF IInv, Delivering
<1>1. \A d \in CPU \ {c} : Still(d)
    BY <1>0 DEF OtherTrap, Goto, Process, shared, callRegs, poolRegs, procRegs, TypeOK, Still, Same
<1>2. /\ UNCHANGED <<queue, body, ran, calls, kind, to, batch>>
      /\ msg'[c] = msg[c] \/ pc'[c] = "fill"
      /\ pc[c] \notin {"enqueue", "fill"} /\ pc'[c] # "enqueue"
    BY <1>0 DEF OtherTrap, Goto, Process, shared, callRegs, poolRegs, procRegs, history, TypeOK
<1>3. (Asking(c)' => Asking(c)) /\ Calling(c)' /\ (kind[c] = "none" \/ left'[c] = left[c])
    BY <1>0 DEF OtherTrap, Goto, Process, shared, callRegs, poolRegs, procRegs, TypeOK, Sound, Calling, Asking, Waiting,
        Serving, LastOfAsync
<1> QED BY <1>0, <1>1, <1>2, <1>3, Moved

LEMMA HaltUnseen ==
    ASSUME IInv, IInv', Delivering, NEW c \in CPU, Halt(c)
    PROVE  Delivering' /\ UNCHANGED Delivery!vars
<1>0. TypeOK /\ TypeOK' /\ Sound(c) /\ Calling(c)
    BY DEF IInv, Delivering
<1>1. \A d \in CPU \ {c} : Still(d)
    BY <1>0 DEF Halt, Goto, shared, callRegs, poolRegs, procRegs, TypeOK, Still, Same
<1>2. /\ UNCHANGED <<queue, body, ran, calls, kind, to, batch>>
      /\ msg'[c] = msg[c] \/ pc'[c] = "fill"
      /\ pc[c] \notin {"enqueue", "fill"} /\ pc'[c] # "enqueue"
    BY <1>0 DEF Halt, Goto, shared, callRegs, poolRegs, procRegs, history, TypeOK
<1>3. (Asking(c)' => Asking(c)) /\ Calling(c)' /\ (kind[c] = "none" \/ left'[c] = left[c])
    BY <1>0 DEF Halt, Goto, shared, callRegs, poolRegs, procRegs, TypeOK, Sound, Calling, Asking, Waiting,
        Serving, LastOfAsync
<1> QED BY <1>0, <1>1, <1>2, <1>3, Moved

LEMMA HaltIpiUnseen ==
    ASSUME IInv, IInv', Delivering, NEW c \in CPU, HaltIpi(c)
    PROVE  Delivering' /\ UNCHANGED Delivery!vars
<1>0. TypeOK /\ TypeOK' /\ Sound(c) /\ Calling(c)
    BY DEF IInv, Delivering
<1>1. \A d \in CPU \ {c} : Still(d)
    BY <1>0 DEF HaltIpi, Goto, shared, callRegs, poolRegs, procRegs, TypeOK, Still, Same
<1>2. /\ UNCHANGED <<queue, body, ran, calls, kind, to, batch>>
      /\ msg'[c] = msg[c] \/ pc'[c] = "fill"
      /\ pc[c] \notin {"enqueue", "fill"} /\ pc'[c] # "enqueue"
    BY <1>0 DEF HaltIpi, Goto, shared, callRegs, poolRegs, procRegs, history, TypeOK
<1>3. (Asking(c)' => Asking(c)) /\ Calling(c)' /\ (kind[c] = "none" \/ left'[c] = left[c])
    BY <1>0 DEF HaltIpi, Goto, shared, callRegs, poolRegs, procRegs, TypeOK, Sound, Calling, Asking, Waiting,
        Serving, LastOfAsync
<1> QED BY <1>0, <1>1, <1>2, <1>3, Moved

LEMMA PopUnseen ==
    ASSUME IInv, IInv', Delivering, NEW c \in CPU, Pop(c)
    PROVE  Delivering' /\ UNCHANGED Delivery!vars
<1>0. TypeOK /\ TypeOK' /\ Sound(c) /\ Calling(c)
    BY DEF IInv, Delivering
<1>1. /\ UNCHANGED <<queue, body, ran, calls, back, kind, to, left, batch, cur, isAsync>>
      /\ pc[c] = "pop" /\ cur[c] = Null
      /\ \/ pc'[c] = "fill" /\ \A d \in CPU \ {c} : pc'[d] = pc[d] /\ msg'[d] = msg[d]
         \/ pc'[c] = "load" /\ msg' = msg /\ \A d \in CPU \ {c} : pc'[d] = pc[d]
    <2>1. /\ UNCHANGED <<queue, body, ran, calls, back, kind, to, left, batch, cur, isAsync>>
          /\ pc[c] = "pop" /\ cur[c] = Null
        BY <1>0 DEF Pop, procRegs, history, Sound
    <2>2. CASE pool = snap[c]
        <3>1. pc' = [pc EXCEPT ![c] = "fill"] /\ msg' = [msg EXCEPT ![c] = snap[c]]
            BY <2>2 DEF Pop, Goto
        <3> QED BY <1>0, <2>1, <3>1 DEF TypeOK
    <2>3. CASE pool # snap[c]
        <3>1. pc' = [pc EXCEPT ![c] = "load"] /\ msg' = msg
            BY <2>3 DEF Pop, Goto
        <3> QED BY <1>0, <2>1, <3>1 DEF TypeOK
    <2> QED BY <2>2, <2>3
<1>2. \A d \in CPU \ {c} : Still(d)
    <2>1. \A d \in CPU \ {c} : snap'[d] = snap[d] /\ nxt'[d] = nxt[d]
        BY <1>0 DEF Pop, TypeOK
    <2> QED BY <1>1, <2>1 DEF Still, Same
<1>3. (Asking(c)' => Asking(c)) /\ Calling(c)'
    BY <1>0, <1>1 DEF Calling, Asking, Waiting, Serving
<1> QED BY <1>0, <1>1, <1>2, <1>3, Moved

LEMMA WaitUnseen ==
    ASSUME IInv, IInv', Delivering, NEW c \in CPU, Wait(c)
    PROVE  Delivering' /\ UNCHANGED Delivery!vars
<1>0. TypeOK /\ TypeOK' /\ Sound(c) /\ Calling(c)
    BY DEF IInv, Delivering
<1>1. \A d \in CPU \ {c} : Still(d)
    BY <1>0 DEF Wait, Goto, Process, shared, callRegs, poolRegs, procRegs, TypeOK, Still, Same
<1>2. /\ UNCHANGED <<queue, body, ran, calls, kind, to, left, msg, batch, cur>>
      /\ pc[c] = "wait" /\ cur[c] = Null
      /\ pc'[c] = "link" \/ (pc'[c] = "exchange" /\ back'[c] = "wait")
    BY <1>0 DEF Wait, Goto, Process, shared, callRegs, poolRegs, procRegs, history, TypeOK, Sound
<1>3. (Asking(c)' => Asking(c)) /\ Calling(c)'
    BY <1>0, <1>2 DEF Calling, Asking, Waiting, Serving
<1> QED BY <1>0, <1>1, <1>2, <1>3, Moved

LEMMA HaltStoreUnseen ==
    ASSUME IInv, IInv', Delivering, NEW c \in CPU, HaltStore(c)
    PROVE  Delivering' /\ UNCHANGED Delivery!vars
<1>0. TypeOK /\ TypeOK' /\ Sound(c) /\ Calling(c)
    BY DEF IInv, Delivering
<1>1. /\ UNCHANGED <<queue, body, ran, calls, back, kind, to, msg, snap, nxt, batch, cur, isAsync>>
      /\ pc[c] = "haltStore" /\ pc'[c] \in {"haltStore", "haltIpi"} /\ cur[c] = Null
      /\ \A d \in CPU \ {c} : pc'[d] = pc[d] /\ left'[d] = left[d]
    BY SMTT(20), <1>0 DEF HaltStore, Goto, poolRegs, procRegs, history, TypeOK, Sound
<1>2. \A d \in CPU \ {c} : Still(d)
    BY <1>1 DEF Still, Same
<1>3. (Asking(c)' => Asking(c)) /\ Calling(c)' /\ kind[c] = "none"
    BY <1>0, <1>1 DEF Calling, Asking, Waiting, Serving
<1> QED BY <1>0, <1>1, <1>2, <1>3, Moved

\* A push that begins again, or that returns a message served for another.
LEMMA PushUnseen ==
    ASSUME IInv, IInv', Delivering, NEW c \in CPU, Push(c), pool # snap[c] \/ cur[c] # Null
    PROVE  Delivering' /\ UNCHANGED Delivery!vars
<1>0. TypeOK /\ TypeOK' /\ Sound(c) /\ Calling(c)
    BY DEF IInv, Delivering
<1>1. /\ UNCHANGED <<queue, body, ran, calls, back, kind, to, left, msg, nxt, batch, cur, isAsync>>
      /\ pc[c] = "push" /\ \A d \in CPU \ {c} : pc'[d] = pc[d] /\ snap'[d] = snap[d]
      /\ pc'[c] = "link" \/ (pc'[c] = "check" /\ cur[c] # Null)
    BY <1>0 DEF Push, Goto, procRegs, history, TypeOK
<1>2. \A d \in CPU \ {c} : Still(d)
    BY <1>1 DEF Still, Same
<1>3. (Asking(c)' => Asking(c)) /\ Calling(c)'
    BY <1>0, <1>1 DEF Calling, Asking, Waiting, Serving
<1> QED BY <1>0, <1>1, <1>2, <1>3, Moved

LEMMA NothingToDoUnseen ==
    ASSUME IInv, IInv', Delivering, NEW c \in CPU, Exchange(c), queue[c] = <<>>
    PROVE  Delivering' /\ UNCHANGED Delivery!vars
<1>0. TypeOK /\ TypeOK' /\ Sound(c) /\ Calling(c)
    BY DEF IInv, Delivering
<1>1. /\ UNCHANGED <<queue, body, ran, calls, back, kind, to, left, msg, snap, nxt, batch, cur, isAsync>>
      /\ pc[c] = "exchange" /\ \A d \in CPU \ {c} : pc'[d] = pc[d]
      /\ pc'[c] \in {"halted", back[c]} /\ back[c] \in {"idle", "load", "wait"} /\ cur[c] = Null
    BY <1>0 DEF Exchange, Goto, callRegs, poolRegs, history, TypeOK, Sound
<1>2. \A d \in CPU \ {c} : Still(d)
    BY <1>1 DEF Still, Same
<1>3. (Asking(c)' => Asking(c)) /\ Calling(c)'
    BY <1>0, <1>1 DEF Calling, Asking, Waiting, Serving
<1> QED BY <1>0, <1>1, <1>2, <1>3, Moved

\* The queue becomes the batch, in the order of arrival.
LEMMA ExchangeUnseen ==
    ASSUME IInv, IInv', Ownership, Delivering, NEW c \in CPU, Exchange(c), queue[c] # <<>>
    PROVE  Delivering' /\ UNCHANGED Delivery!vars
<1>0. TypeOK /\ TypeOK' /\ Sound(c) /\ Calling(c) /\ Registers(c)
    BY DEF IInv, Delivering, Ownership, PerProcessor
<1>1. \A d \in CPU \ {c} : Still(d)
    BY <1>0 DEF Exchange, Goto, callRegs, poolRegs, TypeOK, Still, Same
<1>2. /\ UNCHANGED <<body, ran, calls, kind, to, left, msg, cur, back>>
      /\ pc[c] = "exchange" /\ pc'[c] = "run" /\ queue[c] \in Seq(Msg) /\ cur[c] = Null
      /\ queue'[c] = <<>> /\ batch'[c] = InOrder(queue[c]) /\ batch[c] = <<>>
      /\ \A d \in CPU \ {c} : queue'[d] = queue[d] /\ batch'[d] = batch[d]
    BY <1>0 DEF Exchange, Goto, callRegs, poolRegs, history, TypeOK, Registers, Sound
<1>3. ASSUME NEW d \in CPU PROVE Box(d)' = Box(d)
    <2>1. ToSet(InOrder(queue[c])) = ToSet(queue[c])
        BY <1>2, Reversed
    <2>2. ToSet(<<>>) = {}
        BY DEF ToSet
    <2> QED BY <1>2, <2>1, <2>2 DEF Box
<1>4. ASSUME NEW d \in CPU PROVE Inbox(d)' = Inbox(d)
    <2>1. CASE d # c
        BY <1>0, <1>2, <2>1, InboxKept
    <2>2. CASE d = c
        <3>1. Arrived(c)' = Arrived(c)
            BY <1>2, ExchangedSame DEF Arrived
        <3> QED BY <1>2, <2>2, <3>1 DEF Inbox
    <2> QED BY <2>1, <2>2
<1>5. (Asking(c)' => Asking(c)) /\ Calling(c)'
    BY <1>0, <1>2 DEF Calling, Asking, Waiting, Serving
<1>6. Delivering'
    BY <1>0, <1>1, <1>2, <1>3, <1>5, Kept
<1> QED BY <1>0, <1>1, <1>2, <1>4, <1>6, Unseen

-----------------------------------------------------------------------------
(* The steps it sees.                                                       *)

\* A call to all the others begins.
LEMMA BeginDelivers ==
    ASSUME IInv, IInv', Ownership, Delivering, NEW c \in CPU, NEW k \in Kinds, Begin(c, k, CPU \ {c})
    PROVE  Delivering' /\ Delivery!Begin(c)
<1>0. TypeOK /\ TypeOK' /\ Sound(c) /\ Calling(c)
    BY DEF IInv, Delivering
<1>1. /\ UNCHANGED <<queue, body, ran, batch, msg, cur, back>> /\ pc[c] = "idle" /\ cur[c] = Null
      /\ calls[c] < MaxCalls /\ calls' = [calls EXCEPT ![c] = @ + 1]
      /\ pc' = [pc EXCEPT ![c] = "load"] /\ kind' = [kind EXCEPT ![c] = k]
      /\ to' = [to EXCEPT ![c] = CPU \ {c}] /\ left' = [left EXCEPT ![c] = CPU \ {c}]
    BY <1>0 DEF Begin, Goto, shared, procRegs, history, Sound
<1>i. msg[c] = Null
    BY <1>1 DEF Ownership, PerProcessor, Registers
<1>2. \A d \in CPU \ {c} : Still(d)
    BY <1>0 DEF Begin, Goto, shared, callRegs, poolRegs, procRegs, TypeOK, Still, Same
<1>3. /\ calls'[c] = calls[c] + 1 /\ calls[c] \in Nat
      /\ \A d \in CPU \ {c} : calls'[d] = calls[d]
      /\ pc'[c] = "load" /\ kind'[c] = k /\ to'[c] = CPU \ {c} /\ left'[c] = CPU \ {c}
    BY <1>0, <1>1 DEF TypeOK
<1>4. k # "none" /\ kind[c] = "none" /\ to[c] = {}
    BY <1>0, <1>1, SmpAssumption DEF Calling
<1>5. Calling(c)'
    BY <1>1, <1>3, <1>4 DEF Calling, Asking, Waiting, Serving
<1>6. ASSUME NEW d \in CPU PROVE Box(d)' = Box(d) /\ Seen(d)' = Seen(d) /\ Inbox(d)' = Inbox(d)
    BY <1>0, <1>1, InboxKept DEF Box, Seen
<1>7. ASSUME NEW d \in CPU PROVE Requests(d)'
    <2>1. Requests(d)
        BY DEF Delivering
    <2>3. \A r \in Seen(d) : r[2] <= calls'[r[1]] /\ r # Request(c)'
        <3> TAKE r \in Seen(d)
        <3>1. r[2] <= calls[r[1]] /\ r[1] \in CPU /\ r[2] \in Nat
            BY <1>0, <2>1, SeenIs DEF Requests
        <3>2. CASE r[1] = c
            <4>1. r[2] <= calls[c] /\ r[2] # calls'[c]
                BY <1>3, <3>1, <3>2
            <4> QED BY <1>3, <3>1, <3>2, <4>1 DEF Request
        <3>3. CASE r[1] # c
            BY <1>3, <3>1, <3>3 DEF Request
        <3> QED BY <3>2, <3>3
    <2>4. ASSUME NEW s \in CPU \ {d}, Asking(s)' \/ (pc'[s] = "enqueue" /\ d \in left'[s])
          PROVE  Request(s)' \notin Seen(d)
        <3>1. CASE s = c
            BY <2>3, <3>1
        <3>2. CASE s # c
            <4>1. Asking(s) \/ (pc[s] = "enqueue" /\ d \in left[s])
                BY <1>2, <2>4, <3>2, OtherCalls DEF Still, Same
            <4>2. Request(s)' = Request(s)
                BY <1>3, <3>2 DEF Request
            <4> QED BY <2>1, <4>1, <4>2 DEF Requests
        <3> QED BY <3>1, <3>2
    <2> QED BY <1>1, <1>6, <2>1, <2>3, <2>4 DEF Requests
<1>8. ASSUME NEW s \in CPU PROVE Carried(s)'
    <2>1. Carried(s) /\ to[s] \subseteq CPU
        BY <1>0 DEF Delivering, TypeOK
    <2>2. CASE s = c
        BY <1>1, <1>i, <2>2, NotNull DEF Carried
    <2>3. CASE s # c
        BY <1>1, <1>2, <1>3, <1>6, <2>1, <2>3 DEF Carried, Still, Same, Request
    <2> QED BY <2>2, <2>3
<1>9. Delivery!Begin(c)
    <2>1. Inboxes' = Inboxes /\ Served' = Served
        BY <1>1, <1>6 DEF Inboxes, Served
    <2>2. ToPost' = [ToPost EXCEPT ![c] = CPU \ {c}]
        BY <1>0, <1>1, <1>4 DEF ToPost, TypeOK
    <2>3. Waits' = [Waits EXCEPT ![c] = (k \in {"flush", "sync"})]
        BY <1>0, <1>1 DEF Waits, TypeOK
    <2>4. CPU \ {c} \in (SUBSET (CPU \ {c})) \ {{}}
        <3>1. 0 \in CPU /\ 1 \in CPU
            BY SmpAssumption DEF CPU
        <3>2. CPU \ {c} # {}
            BY <3>1
        <3>3. \A S : S # {} => S \in (SUBSET S) \ {{}}
            OBVIOUS
        <3> QED BY <3>2, <3>3
    <2>5. (k \in {"flush", "sync"}) \in BOOLEAN
        OBVIOUS
    <2> QED BY <1>1, <1>4, <2>1, <2>2, <2>3, <2>4, <2>5 DEF Delivery!Begin
<1> QED BY <1>2, <1>5, <1>7, <1>8, <1>9, OtherCalls DEF Delivering

\* A message is filled while it is in no box.
LEMMA FillUnseen ==
    ASSUME IInv, IInv', Ownership, Delivering, NEW c \in CPU, Fill(c)
    PROVE  Delivering' /\ UNCHANGED Delivery!vars
<1>0. TypeOK /\ TypeOK' /\ Sound(c) /\ Calling(c) /\ Registers(c)
    BY DEF IInv, Delivering, Ownership, PerProcessor
<1>n. PICK n \in Msg : n = msg[c]
    BY <1>0 DEF Fill, TypeOK, Sound
<1>1. \A d \in CPU \ {c} : Still(d)
    BY <1>0 DEF Fill, Goto, callRegs, poolRegs, procRegs, TypeOK, Still, Same
<1>2. /\ UNCHANGED <<queue, ran, calls, kind, to, left, msg, batch, cur, back>>
      /\ pc[c] = "fill" /\ pc'[c] = "enqueue" /\ cur[c] = Null
      /\ body'[n] = Request(c) /\ \A m \in Msg \ {n} : body'[m] = body[m]
      /\ left[c] = to[c]
    BY <1>0, <1>n DEF Fill, Goto, callRegs, poolRegs, procRegs, history, TypeOK, Registers, Sound, AllOthers
<1>3. (\A d \in CPU : n \notin Box(d)) /\ \A d \in CPU \ {c} : msg[d] # n
    <2>1. Filling(c, n) /\ Owned(n)
        BY <1>n, <1>2 DEF Filling, Ownership
    <2>2. Outstanding(n) = {} /\ \A d \in CPU \ {c} : msg[d] # n
        BY <1>n, <2>1 DEF Owned
    <2> QED BY <2>2, BoxOutstanding
<1>4. ASSUME NEW d \in CPU PROVE Box(d)' = Box(d) /\ \A m \in Box(d) : body'[m] = body[m]
    BY <1>0, <1>2, <1>3, BoxIs DEF Box
<1>5. ASSUME NEW d \in CPU PROVE Inbox(d)' = Inbox(d) /\ Request(d)' = Request(d) /\ Seen(d)' = Seen(d)
    <2>1. Inbox(d)' = Inbox(d)
        BY <1>0, <1>2, <1>4, InboxKept
    <2> QED BY <1>2, <1>4, <2>1 DEF Request, Seen
<1>6. Calling(c)'
    BY <1>0, <1>2 DEF Calling, Asking, Waiting, Serving
<1>7. ASSUME NEW d \in CPU PROVE Requests(d)'
    <2>1. Requests(d)
        BY DEF Delivering
    <2>2. ASSUME NEW s \in CPU \ {d}, Asking(s)' \/ (pc'[s] = "enqueue" /\ d \in left'[s])
          PROVE  Asking(s) \/ (pc[s] = "enqueue" /\ d \in left[s])
        <3>1. CASE s = c
            BY <1>2, <3>1 DEF Asking
        <3>2. CASE s # c
            BY <1>1, <2>2, <3>2, OtherCalls DEF Still, Same
        <3> QED BY <3>1, <3>2
    <2> QED BY <1>2, <1>4, <1>5, <2>1, <2>2 DEF Requests
<1>8. ASSUME NEW s \in CPU PROVE Carried(s)'
    <2>1. CASE s = c
        BY <1>n, <1>2, <1>5, <2>1 DEF Carried
    <2>2. CASE s # c
        <3>1. Carried(s) /\ to[s] \subseteq CPU /\ msg[s] # n
            BY <1>0, <1>3, <2>2 DEF Delivering, TypeOK
        <3> QED BY <1>1, <1>2, <1>4, <1>5, <2>2, <3>1 DEF Carried, Still, Same
    <2> QED BY <2>1, <2>2
<1>9. UNCHANGED Delivery!vars
    BY <1>0, <1>1, <1>2, <1>5, Unseen
<1> QED BY <1>1, <1>6, <1>7, <1>8, <1>9, OtherCalls DEF Delivering

\* A processor posts its message to the next target.
LEMMA EnqueueDelivers ==
    ASSUME IInv, IInv', Delivering, NEW c \in CPU, Enqueue(c)
    PROVE  Delivering' /\ \E d \in CPU : Delivery!Post(c, d)
<1>0. TypeOK /\ TypeOK' /\ Sound(c) /\ Calling(c) /\ Carried(c)
    BY DEF IInv, Delivering
<1>n. PICK n \in Msg : n = msg[c]
    BY <1>0 DEF Enqueue, TypeOK, Sound
<1>t. PICK t \in left[c] :
        /\ queue' = [queue EXCEPT ![t] = <<msg[c]>> \o @]
        /\ left' = [left EXCEPT ![c] = @ \ {t}]
        /\ IF left[c] = {t} THEN Goto(c, "ipi") ELSE UNCHANGED pc
        /\ msg' = [msg EXCEPT ![c] = IF left[c] = {t} /\ kind[c] = "async" THEN Null ELSE @]
    BY DEF Enqueue
<1>2. /\ UNCHANGED <<body, ran, calls, batch, cur, isAsync, to, back, kind, snap, nxt>>
      /\ pc[c] = "enqueue" /\ cur[c] = Null /\ kind[c] # "none" /\ to[c] = CPU \ {c}
      /\ left[c] \subseteq to[c]
    BY <1>0 DEF Enqueue, poolRegs, procRegs, history, Sound, Calling
<1>c. t \in CPU \ {c}
    BY <1>2
<1>3. /\ \A d \in CPU \ {t} : queue'[d] = queue[d]
      /\ queue'[t] = <<n>> \o queue[t] /\ queue[t] \in Seq(Msg) /\ batch[t] \in Seq(Msg)
      /\ left'[c] = left[c] \ {t} /\ (msg'[c] = n \/ msg'[c] = Null)
    <2>1. /\ \A d \in CPU \ {t} : queue'[d] = queue[d]
          /\ queue'[t] = <<n>> \o queue[t]
        <3>1. DOMAIN queue = CPU /\ queue' = [queue EXCEPT ![t] = <<n>> \o @]
            BY <1>0, <1>n, <1>t DEF TypeOK
        <3> QED BY <1>c, <3>1
    <2>2. queue[t] \in Seq(Msg) /\ batch[t] \in Seq(Msg)
        BY <1>0, <1>c DEF TypeOK
    <2>3. left'[c] = left[c] \ {t}
        BY <1>0, <1>t DEF TypeOK
    <2>4. msg'[c] = IF left[c] = {t} /\ kind[c] = "async" THEN Null ELSE n
        BY <1>0, <1>n, <1>t DEF TypeOK
    <2> QED BY <2>1, <2>2, <2>3, <2>4
<1>4. (left'[c] = {} /\ pc'[c] = "ipi") \/ pc'[c] = "enqueue"
    <2>1. CASE left[c] = {t}
        BY <1>0, <1>t, <1>3, <2>1 DEF TypeOK, Goto
    <2>2. CASE left[c] # {t}
        BY <1>t, <1>2, <2>2
    <2> QED BY <2>1, <2>2
<1>1. \A d \in CPU \ {c} : Still(d)
    <2>1. \A d \in CPU \ {c} : pc'[d] = pc[d]
        <3>1. pc' = pc \/ pc' = [pc EXCEPT ![c] = "ipi"]
            BY <1>t DEF Goto
        <3> QED BY <1>0, <3>1 DEF TypeOK
    <2>2. \A d \in CPU \ {c} : left'[d] = left[d] /\ msg'[d] = msg[d]
        BY <1>0, <1>t DEF TypeOK
    <2> QED BY <1>2, <2>1, <2>2 DEF Still, Same
<1>5. Calling(c)'
    BY <1>0, <1>2, <1>4 DEF Calling, Asking, Waiting, Serving
<1>6. body[n] = Request(c)
    BY <1>0, <1>n, <1>2 DEF Carried
<1>7. Box(t)' = Box(t) \union {n} /\ \A d \in CPU \ {t} : Box(d)' = Box(d)
    <2>1. ToSet(queue'[t]) = {n} \union ToSet(queue[t])
        BY <1>3, Posted
    <2> QED BY <1>2, <1>3, <2>1 DEF Box
<1>8. /\ Seen(t)' = Seen(t) \union {Request(c)}
      /\ \A d \in CPU \ {t} : Seen(d)' = Seen(d)
      /\ \A d \in CPU : Request(d)' = Request(d)
    BY <1>2, <1>6, <1>7 DEF Seen, Request
<1>9. Request(c) \notin Seen(t)
    BY <1>2, <1>c DEF Delivering, Requests
<1>10. ASSUME NEW d \in CPU PROVE Requests(d)'
    <2>1. Requests(d)
        BY DEF Delivering
    <2>2. ASSUME NEW s \in CPU \ {d}, Asking(s)' \/ (pc'[s] = "enqueue" /\ d \in left'[s])
          PROVE  /\ Asking(s) \/ (pc[s] = "enqueue" /\ d \in left[s])
                 /\ ~(s = c /\ d = t)
        <3>1. CASE s = c
            BY <1>2, <1>3, <1>4, <2>2, <3>1 DEF Asking, Serving
        <3>2. CASE s # c
            BY <1>1, <2>2, <3>2, OtherCalls DEF Still, Same
        <3> QED BY <3>1, <3>2
    <2>3. CASE d # t
        BY <1>2, <1>7, <1>8, <2>1, <2>2, <2>3 DEF Requests
    <2>4. CASE d = t
        <3>1. /\ \A m \in Box(t) : body[m] # Request(c)
              /\ Request(c) \notin ran[t]
            BY <1>9 DEF Seen
        <3>2. Request(c)[1] = c /\ Request(c)[2] = calls[c] /\ calls[c] \in Nat
            BY <1>0 DEF Request, TypeOK
        <3>3. \A m \in Box(t)' : body'[m][1] # t /\ body'[m] \notin ran'[t]
            BY <1>2, <1>c, <1>6, <1>7, <2>1, <2>4, <3>1, <3>2 DEF Requests
        <3>4. \A l, m \in Box(t)' : body'[l] = body'[m] => l = m
            BY <1>2, <1>6, <1>7, <2>1, <2>4, <3>1 DEF Requests
        <3>5. \A r \in Seen(t)' : r[2] <= calls'[r[1]]
            BY <1>2, <1>8, <2>1, <2>4, <3>2 DEF Requests
        <3>6. ASSUME NEW s \in CPU \ {t}, s # c PROVE Request(s) # Request(c)
            BY <3>6 DEF Request
        <3> QED BY <1>8, <2>1, <2>2, <2>4, <3>3, <3>4, <3>5, <3>6 DEF Requests
    <2> QED BY <2>3, <2>4
<1>11. ASSUME NEW s \in CPU PROVE Carried(s)'
    <2>1. Carried(s) /\ to[s] \subseteq CPU /\ \A d \in CPU : Box(d) \subseteq Box(d)'
        BY <1>0, <1>7 DEF Delivering, TypeOK
    <2>2. CASE s # c
        BY <1>1, <1>2, <1>8, <2>1, <2>2 DEF Carried, Still, Same
    <2>3. CASE s = c
        <3>1. \A m \in Msg : msg'[c] = m => m = n
            BY <1>3, NotNull
        <3>2. ASSUME NEW d \in to[c]
              PROVE  \/ pc'[c] = "enqueue" /\ d \in left'[c]
                     \/ n \in Box(d)'
                     \/ Request(c) \in ran[d]
            <4>1. (pc[c] = "enqueue" /\ d \in left[c]) \/ n \in Box(d) \/ Request(c) \in ran[d]
                BY <1>n, <1>2, <2>1, <2>3 DEF Carried
            <4>2. d \in left[c] => (pc'[c] = "enqueue" /\ d \in left'[c]) \/ d = t
                BY <1>3, <1>4
            <4> QED BY <1>7, <2>1, <2>3, <4>1, <4>2
        <3> QED BY <1>2, <1>6, <1>8, <2>3, <3>1, <3>2 DEF Carried
    <2> QED BY <2>2, <2>3
<1>12. Delivery!Post(c, t)
    <2>1. Served' = Served
        BY <1>2 DEF Served
    <2>2. ToPost' = [ToPost EXCEPT ![c] = @ \ {t}] /\ t \in ToPost[c]
        <3>1. left \in [CPU -> SUBSET CPU] /\ t \in ToPost[c]
            BY <1>0, <1>2 DEF ToPost, TypeOK
        <3>2. \A d \in CPU : left'[d] = IF d = c THEN left[c] \ {t} ELSE left[d]
            BY <1>t, <3>1
        <3> QED BY <1>2, <3>1, <3>2 DEF ToPost
    <2>3. Waits' = Waits
        BY <1>2 DEF Waits
    <2>4. ASSUME NEW d \in CPU, d # t PROVE Inbox(d)' = Inbox(d)
        BY <1>0, <1>2, <1>3, <2>4, InboxKept
    <2>5. Inbox(t)' = Append(Inbox(t), Request(c))
        <3>1. Arrived(t)' = Append(Arrived(t), n)
            <4>1. batch[t] \o Reverse(<<n>> \o queue[t]) = Append(batch[t] \o Reverse(queue[t]), n)
                BY <1>3, PostedLast
            <4> QED BY <1>2, <1>3, <4>1 DEF Arrived
        <3>2. Arrived(t) \in Seq(Msg)
            BY <1>3, ArrivedIs DEF Arrived
        <3>3. PICK a \in Seq(Msg) : a = Arrived(t)
            BY <3>2
        <3>4. /\ Len(a) \in Nat /\ Len(Append(a, n)) = Len(a) + 1
              /\ Append(a, n)[Len(a) + 1] = n /\ \A i \in 1..Len(a) : Append(a, n)[i] = a[i]
            OBVIOUS
        <3>5. Inbox(t)' = [i \in 1..(Len(a) + 1) |-> body[Append(a, n)[i]]]
            BY <1>2, <3>1, <3>3, <3>4 DEF Inbox
        <3>6. Inbox(t) = [i \in 1..Len(a) |-> body[a[i]]]
            BY <3>3 DEF Inbox
        <3>7. [i \in 1..(Len(a) + 1) |-> body[Append(a, n)[i]]]
                = Append([i \in 1..Len(a) |-> body[a[i]]], Request(c))
            BY <1>6, <3>4
        <3> QED BY <3>5, <3>6, <3>7
    <2>6. Inboxes' = [Inboxes EXCEPT ![t] = Append(@, Request(c))]
        BY <1>c, <2>4, <2>5 DEF Inboxes
    <2> QED BY <1>2, <2>1, <2>2, <2>3, <2>6 DEF Delivery!Post, Delivery!Request, Request
<1> QED BY <1>c, <1>1, <1>5, <1>10, <1>11, <1>12, OtherCalls DEF Delivering

\* The interrupt, with which an asynchronous call returns and a flush serves itself.
LEMMA SendIpiDelivers ==
    ASSUME IInv, IInv', Ownership, Delivering, NEW c \in CPU, SendIpi(c)
    PROVE  Delivering' /\ (UNCHANGED Delivery!vars \/ Delivery!Return(c))
<1>0. TypeOK /\ TypeOK' /\ Sound(c) /\ Calling(c) /\ Registers(c)
    BY DEF IInv, Delivering, Ownership, PerProcessor
<1>1. /\ UNCHANGED <<queue, body, calls, left, msg, snap, nxt, batch, cur, isAsync, back>>
      /\ pc[c] = "ipi" /\ cur[c] = Null /\ left[c] = {} /\ kind[c] # "none" /\ to[c] = CPU \ {c}
      /\ kind[c] = "async" => msg[c] = Null
      /\ \A d \in CPU \ {c} : ran'[d] = ran[d]
      /\ ran'[c] = IF kind[c] = "flush" THEN ran[c] \union {Request(c)} ELSE ran[c]
    BY <1>0 DEF SendIpi, poolRegs, procRegs, TypeOK, Sound, Calling, Registers
<1>2. \/ /\ kind[c] = "async" /\ pc' = [pc EXCEPT ![c] = "idle"]
         /\ kind' = [kind EXCEPT ![c] = "none"] /\ to' = [to EXCEPT ![c] = {}]
      \/ kind[c] # "async" /\ pc' = [pc EXCEPT ![c] = "wait"] /\ UNCHANGED <<kind, to>>
    BY DEF SendIpi, Goto
<1>3. \A d \in CPU \ {c} : Still(d)
    <2>1. \A d \in CPU \ {c} : pc'[d] = pc[d]
        BY <1>0, <1>2 DEF TypeOK
    <2>2. \A d \in CPU \ {c} : kind'[d] = kind[d] /\ to'[d] = to[d]
        BY <1>0, <1>2 DEF TypeOK
    <2> QED BY <1>1, <2>1, <2>2 DEF Still, Same
<1>4. \/ kind[c] = "async" /\ pc'[c] = "idle" /\ kind'[c] = "none" /\ to'[c] = {}
      \/ kind[c] # "async" /\ pc'[c] = "wait" /\ kind'[c] = kind[c] /\ to'[c] = to[c]
    BY <1>0, <1>2 DEF TypeOK
<1>5. kind[c] \in {"flush", "sync", "async"}
    BY <1>0, <1>1, SmpAssumption DEF TypeOK
<1>6. Calling(c)' /\ (Asking(c)' => Asking(c))
    BY <1>1, <1>4, <1>5 DEF Calling, Asking, Waiting, Serving
<1>7. \A d \in CPU : Box(d)' = Box(d) /\ Inbox(d)' = Inbox(d)
    BY <1>0, <1>1, InboxKept DEF Box
<1>8. Delivering'
    BY <1>0, <1>1, <1>3, <1>4, <1>6, <1>7, Kept
<1>9. Inboxes' = Inboxes /\ Served' = Served /\ ToPost' = ToPost
    <2>1. Inboxes' = Inboxes
        BY <1>7 DEF Inboxes
    <2>2. {r \in ran'[c] : r[1] # c} = {r \in ran[c] : r[1] # c}
        BY <1>1 DEF Request
    <2>3. Served' = Served
        BY <1>1, <2>2 DEF Served
    <2>4. \A d \in CPU : (IF kind'[d] = "none" THEN {} ELSE left'[d])
                            = (IF kind[d] = "none" THEN {} ELSE left[d])
        BY <1>1, <1>3 DEF Still, Same
    <2> QED BY <2>1, <2>3, <2>4 DEF ToPost
<1>10. CASE kind[c] = "async"
    <2>1. Waits' = [Waits EXCEPT ![c] = FALSE] /\ ~Waits[c]
        <3>1. Waits' = [Waits EXCEPT ![c] = ("none" \in {"flush", "sync"})]
            BY <1>0, <1>2, <1>10 DEF Waits, TypeOK
        <3>2. ("none" \in {"flush", "sync"}) = FALSE
            OBVIOUS
        <3>3. ~Waits[c]
            BY <1>10 DEF Waits
        <3> QED BY <3>1, <3>2, <3>3
    <2>2. to[c] # {} /\ ToPost[c] = {}
        <3>1. 0 \in CPU /\ 1 \in CPU
            BY SmpAssumption DEF CPU
        <3>2. CPU \ {c} # {}
            BY <3>1
        <3> QED BY <1>1, <3>2 DEF ToPost
    <2> QED BY <1>1, <1>2, <1>8, <1>9, <1>10, <2>1, <2>2 DEF Delivery!Return
<1>11. CASE kind[c] # "async"
    <2>1. kind' = kind /\ to' = to
        BY <1>2, <1>11
    <2> QED BY <1>1, <1>8, <1>9, <2>1 DEF Delivery!vars, Waits
<1> QED BY <1>10, <1>11

\* The sender returns its own message to the pool, and from the call.
LEMMA PushDelivers ==
    ASSUME IInv, IInv', Ownership, Delivering, NEW c \in CPU, Push(c), pool = snap[c], cur[c] = Null
    PROVE  Delivering' /\ Delivery!Return(c)
<1>0. TypeOK /\ TypeOK' /\ Sound(c) /\ Calling(c) /\ Carried(c)
    BY DEF IInv, Delivering
<1>1. /\ UNCHANGED <<queue, body, ran, calls, left, nxt, batch, cur, isAsync, back>>
      /\ pc[c] = "push" /\ pc' = [pc EXCEPT ![c] = "idle"] /\ snap' = [snap EXCEPT ![c] = Null]
      /\ kind' = [kind EXCEPT ![c] = "none"] /\ to' = [to EXCEPT ![c] = {}]
      /\ msg' = [msg EXCEPT ![c] = Null]
    BY DEF Push, Goto, procRegs, history
<1>2. \A d \in CPU \ {c} : Still(d)
    <2>1. \A d \in CPU \ {c} : pc'[d] = pc[d] /\ snap'[d] = snap[d] /\ msg'[d] = msg[d]
        BY <1>0, <1>1 DEF TypeOK
    <2>2. \A d \in CPU \ {c} : kind'[d] = kind[d] /\ to'[d] = to[d]
        BY <1>0, <1>1 DEF TypeOK
    <2> QED BY <1>1, <2>1, <2>2 DEF Still, Same
<1>3. /\ pc'[c] = "idle" /\ kind'[c] = "none" /\ to'[c] = {} /\ msg'[c] = Null
      /\ left[c] = {} /\ kind[c] \in {"flush", "sync"} /\ to[c] = CPU \ {c}
    BY <1>0, <1>1 DEF TypeOK, Calling, Waiting
<1>4. Calling(c)' /\ (Asking(c)' => Asking(c))
    BY <1>1, <1>3 DEF Calling, Asking, Waiting, Serving
<1>5. \A d \in CPU : Box(d)' = Box(d) /\ Inbox(d)' = Inbox(d)
    BY <1>0, <1>1, InboxKept DEF Box
<1>6. Delivering'
    BY <1>0, <1>1, <1>2, <1>3, <1>4, <1>5, Kept
<1>7. \A d \in to[c] : Request(c) \in Served[d]
    <2>1. msg[c] \in Msg
        BY <1>0, <1>1 DEF TypeOK, Sound, Returned
    <2>2. PICK n \in Msg : n = msg[c]
        BY <2>1
    <2>3. Outstanding(n) = {}
        BY <1>1, <2>2 DEF Ownership, Owned, Answered
    <2>4. ASSUME NEW d \in CPU, d # c PROVE Request(c) \in ran[d]
        <3>1. n \notin Box(d)
            BY <2>3, BoxOutstanding
        <3> QED BY <1>0, <1>1, <1>3, <2>2, <2>4, <3>1 DEF Carried
    <2> QED BY <1>3, <2>4 DEF Served, Request
<1>8. Inboxes' = Inboxes /\ Served' = Served /\ ToPost' = ToPost
    <2>1. \A d \in CPU : (IF kind'[d] = "none" THEN {} ELSE left'[d])
                            = (IF kind[d] = "none" THEN {} ELSE left[d])
        BY <1>1, <1>2, <1>3 DEF Still, Same
    <2> QED BY <1>1, <1>5, <2>1 DEF Inboxes, Served, ToPost
<1>9. Waits' = [Waits EXCEPT ![c] = FALSE]
    <2>1. Waits' = [Waits EXCEPT ![c] = ("none" \in {"flush", "sync"})]
        BY <1>0, <1>1 DEF Waits, TypeOK
    <2>2. ("none" \in {"flush", "sync"}) = FALSE
        OBVIOUS
    <2> QED BY <2>1, <2>2
<1>10. to[c] # {} /\ ToPost[c] = {}
    <2>1. 0 \in CPU /\ 1 \in CPU
        BY SmpAssumption DEF CPU
    <2>2. CPU \ {c} # {}
        BY <2>1
    <2> QED BY <1>3, <2>2 DEF ToPost
<1> QED BY <1>1, <1>6, <1>7, <1>8, <1>9, <1>10 DEF Delivery!Return, Delivery!Request, Request

\* A processor serves the first request that has come.
LEMMA RunDelivers ==
    ASSUME IInv, IInv', Ownership, Delivering, NEW c \in CPU, Run(c)
    PROVE  Delivering' /\ Delivery!Serve(c)
<1>0. TypeOK /\ TypeOK' /\ Sound(c) /\ Calling(c) /\ PerProcessor(c)
    BY DEF IInv, Delivering, Ownership
<1>b. batch[c] \in Seq(Msg) /\ batch[c] # <<>> /\ Head(batch[c]) \in Msg
    BY <1>0 DEF Run, TypeOK, Sound
<1>n. PICK n \in Msg : n = Head(batch[c])
    BY <1>b
<1>1. \A d \in CPU \ {c} : Still(d)
    BY <1>0 DEF Run, Goto, callRegs, poolRegs, TypeOK, Still, Same
<1>2. /\ UNCHANGED <<queue, body, calls, kind, to, left, msg, back>>
      /\ pc[c] = "run" /\ pc'[c] = "drop" /\ batch'[c] = Tail(batch[c])
      /\ ran' = [ran EXCEPT ![c] = @ \union {body[n]}]
      /\ \A d \in CPU \ {c} : ran'[d] = ran[d] /\ batch'[d] = batch[d]
      /\ ran'[c] = ran[c] \union {body[n]}
    BY <1>0, <1>n DEF Run, Goto, shared, callRegs, TypeOK
<1>3. Box(c) = {n} \union Box(c)' /\ n \notin Box(c)' /\ \A d \in CPU \ {c} : Box(d)' = Box(d)
    <2>1. /\ ToSet(batch[c]) = {n} \union ToSet(batch'[c]) /\ n \notin ToSet(batch'[c])
        BY <1>0, <1>b, <1>n, <1>2, FirstAndRest DEF PerProcessor, HandledOnce
    <2>2. n \notin ToSet(queue[c])
        BY <1>0, <2>1 DEF PerProcessor, HandledOnce
    <2> QED BY <1>2, <2>1, <2>2 DEF Box
<1>4. Calling(c)' /\ (Asking(c)' => Asking(c))
    BY <1>0, <1>2 DEF Calling, Asking, Waiting, Serving
<1>5. \A d \in CPU : Seen(d)' = Seen(d) /\ Request(d)' = Request(d)
    BY <1>2, <1>3 DEF Seen, Request
<1>6. ASSUME NEW d \in CPU PROVE Requests(d)'
    <2>1. Requests(d)
        BY DEF Delivering
    <2>2. ASSUME NEW s \in CPU \ {d}, Asking(s)' \/ (pc'[s] = "enqueue" /\ d \in left'[s])
          PROVE  Asking(s) \/ (pc[s] = "enqueue" /\ d \in left[s])
        <3>1. CASE s = c
            BY <1>2, <1>4, <2>2, <3>1
        <3>2. CASE s # c
            BY <1>1, <2>2, <3>2, OtherCalls DEF Still, Same
        <3> QED BY <3>1, <3>2
    <2>3. Box(d)' \subseteq Box(d)
        BY <1>3
    <2>4. \A m \in Box(d)' : body[m] \notin ran'[d]
        BY <1>2, <1>3, <2>1, <2>3 DEF Requests
    <2> QED BY <1>2, <1>5, <2>1, <2>2, <2>3, <2>4 DEF Requests
<1>7. ASSUME NEW s \in CPU PROVE Carried(s)'
    <2>1. Carried(s) /\ to[s] \subseteq CPU
        BY <1>0 DEF Delivering, TypeOK
    <2>2. ASSUME NEW m \in Msg, NEW d \in CPU, m \in Box(d), body[m] = Request(s)
          PROVE  m \in Box(d)' \/ Request(s) \in ran'[d]
        BY <1>2, <1>3, <2>2
    <2>3. /\ pc'[s] = "enqueue" <=> pc[s] = "enqueue"
          /\ pc'[s] = "fill" <=> pc[s] = "fill"
        BY <1>1, <1>2 DEF Still, Same
    <2>4. \A d \in CPU : ran[d] \subseteq ran'[d]
        BY <1>2
    <2> QED BY <1>2, <1>5, <2>1, <2>2, <2>3, <2>4 DEF Carried
<1>8. Delivery!Serve(c)
    <2>1. to' = to /\ ToPost' = ToPost /\ Waits' = Waits /\ calls' = calls
        BY <1>2 DEF ToPost, Waits
    <2>2. n \in Box(c) /\ body[n] \notin ran[c] /\ body[n][1] # c
        BY <1>3 DEF Delivering, Requests
    <2>3. Served' = [Served EXCEPT ![c] = @ \union {body[n]}]
        <3>1. \A d \in CPU \ {c} : {r \in ran'[d] : r[1] # d} = {r \in ran[d] : r[1] # d}
            BY <1>2
        <3>2. {r \in ran'[c] : r[1] # c} = {r \in ran[c] : r[1] # c} \union {body[n]}
            BY <1>2, <2>2
        <3> QED BY <3>1, <3>2 DEF Served
    <2>4. body[n] \notin Served[c]
        BY <2>2 DEF Served
    <2>5. ASSUME NEW d \in CPU, d # c PROVE Inbox(d)' = Inbox(d)
        BY <1>0, <1>2, <2>5, InboxKept
    <2>6. Inbox(c) # <<>> /\ Head(Inbox(c)) = body[n] /\ Inbox(c)' = Tail(Inbox(c))
        <3>1. queue[c] \in Seq(Msg)
            BY <1>0 DEF TypeOK
        <3>2. /\ Arrived(c)' = Tail(Arrived(c))
              /\ Arrived(c) \in Seq(Msg) /\ Arrived(c) # <<>> /\ Arrived(c)[1] = n
            <4>1. /\ Tail(batch[c]) \o Reverse(queue[c]) = Tail(batch[c] \o Reverse(queue[c]))
                  /\ batch[c] \o Reverse(queue[c]) \in Seq(Msg) /\ batch[c] \o Reverse(queue[c]) # <<>>
                  /\ (batch[c] \o Reverse(queue[c]))[1] = Head(batch[c])
                BY <1>b, <3>1, FirstOfBatch
            <4>2. Head(batch[c]) = n /\ batch'[c] = Tail(batch[c]) /\ queue'[c] = queue[c]
                BY <1>b, <1>n, <1>2
            <4> QED BY <4>1, <4>2 DEF Arrived
        <3>3. PICK a \in Seq(Msg) : a = Arrived(c)
            BY <3>2
        <3>4. /\ Len(a) \in Nat \ {0} /\ Len(Tail(a)) = Len(a) - 1
              /\ \A i \in 1..(Len(a) - 1) : Tail(a)[i] = a[i + 1]
            BY <3>2, <3>3
        <3>5. Inbox(c)' = [i \in 1..(Len(a) - 1) |-> body[Tail(a)[i]]]
            BY <1>2, <3>2, <3>3, <3>4 DEF Inbox
        <3>6. Inbox(c) = [i \in 1..Len(a) |-> body[a[i]]]
            BY <3>3 DEF Inbox
        <3>7. ASSUME NEW x, x = [i \in 1..Len(a) |-> body[a[i]]]
              PROVE  x # <<>> /\ Head(x) = body[n] /\ Tail(x) = [i \in 1..(Len(a) - 1) |-> body[a[i + 1]]]
            <4>1. \A i \in 1..Len(a) : body[a[i]] \in CPU \X (0..MaxCalls)
                <5>1. \A i \in 1..Len(a) : a[i] \in Msg
                    OBVIOUS
                <5> QED BY <1>0, <5>1 DEF TypeOK
            <4>2. x \in Seq(CPU \X (0..MaxCalls)) /\ Len(x) = Len(a)
                BY <3>4, <3>7, <4>1
            <4>3. x # <<>> /\ Head(x) = x[1] /\ x[1] = body[n]
                BY <3>2, <3>3, <3>4, <3>7, <4>2
            <4>4. Tail(x) = [i \in 1..(Len(a) - 1) |-> x[i + 1]]
                BY <3>4, <4>2, <4>3, TailIs
            <4>5. \A i \in 1..(Len(a) - 1) : x[i + 1] = body[a[i + 1]]
                BY <3>4, <3>7
            <4> QED BY <4>3, <4>4, <4>5
        <3>8. [i \in 1..(Len(a) - 1) |-> body[Tail(a)[i]]] = [i \in 1..(Len(a) - 1) |-> body[a[i + 1]]]
            BY <3>4
        <3> QED BY <3>5, <3>6, <3>7, <3>8
    <2>7. Inboxes' = [Inboxes EXCEPT ![c] = Tail(@)] /\ Inboxes[c] = Inbox(c)
        BY <2>5, <2>6 DEF Inboxes
    <2> QED BY <2>1, <2>3, <2>4, <2>6, <2>7 DEF Delivery!Serve
<1> QED BY <1>1, <1>4, <1>6, <1>7, <1>8, OtherCalls DEF Delivering

-----------------------------------------------------------------------------
(* The steps together.                                                      *)

\* No call, and nothing in any inbox.
LEMMA InitDelivers == Init => Delivering /\ Delivery!Init
<1> SUFFICES ASSUME Init PROVE Delivering /\ Delivery!Init
    OBVIOUS
<1>1. ToSet(<<>>) = {}
    BY DEF ToSet
<1>2. \A c \in CPU : /\ pc[c] = "idle" /\ queue[c] = <<>> /\ batch[c] = <<>> /\ cur[c] = Null
                     /\ msg[c] = Null /\ kind[c] = "none" /\ to[c] = {} /\ ran[c] = {}
    BY DEF Init
<1>3. ASSUME NEW c \in CPU PROVE Calling(c) /\ Requests(c) /\ Carried(c)
    <2>1. Calling(c)
        BY <1>2 DEF Calling, Asking, Waiting, Serving
    <2>2. Box(c) = {} /\ Seen(c) = {}
        BY <1>1, <1>2 DEF Box, Seen
    <2>3. Requests(c)
        BY <1>2, <2>2 DEF Requests
    <2>4. Carried(c)
        BY <1>2, NotNull DEF Carried
    <2> QED BY <2>1, <2>3, <2>4
<1>4. Delivery!Init
    <2>1. Inboxes = [c \in CPU |-> <<>>]
        <3>1. Reverse(<<>>) = <<>> /\ <<>> \o <<>> = <<>>
            BY DEF Reverse
        <3>2. \A c \in CPU : Arrived(c) = <<>>
            BY <1>2, <3>1 DEF Arrived
        <3>3. \A c \in CPU : Inbox(c) = <<>>
            BY <3>2 DEF Inbox
        <3> QED BY <3>3 DEF Inboxes
    <2>2. Served = [c \in CPU |-> {}] /\ ToPost = [c \in CPU |-> {}]
        BY <1>2 DEF Served, ToPost
    <2>3. Waits = [c \in CPU |-> FALSE]
        <3>1. \A c \in CPU : (kind[c] \in {"flush", "sync"}) = FALSE
            BY <1>2
        <3> QED BY <3>1 DEF Waits
    <2> QED BY <2>1, <2>2, <2>3 DEF Init, Delivery!Init
<1> QED BY <1>3, <1>4 DEF Delivering

LEMMA StutterUnseen ==
    ASSUME TypeOK, Delivering, UNCHANGED vars
    PROVE  Delivering' /\ UNCHANGED Delivery!vars
<1>1. UNCHANGED <<body, queue, pc, back, kind, to, left, msg, batch, cur, ran, calls>>
    BY DEF vars, shared, callRegs, poolRegs, procRegs, history
<1>2. ASSUME NEW c \in CPU PROVE Calling(c)' /\ Requests(c)' /\ Carried(c)'
    <2>1. Calling(c) /\ Requests(c) /\ Carried(c)
        BY DEF Delivering
    <2>2. Calling(c)'
        BY <1>1, <2>1 DEF Calling, Asking, Waiting, Serving
    <2>3. \A d \in CPU : Box(d)' = Box(d) /\ Seen(d)' = Seen(d) /\ Asking(d)' = Asking(d) /\ Request(d)' = Request(d)
        BY <1>1 DEF Box, Seen, Asking, Serving, Request
    <2>4. Requests(c)'
        BY <1>1, <2>1, <2>3 DEF Requests
    <2>5. to[c] \subseteq CPU
        BY DEF TypeOK
    <2>6. Carried(c)'
        BY <1>1, <2>1, <2>3, <2>5 DEF Carried
    <2> QED BY <2>2, <2>4, <2>6
<1>3. UNCHANGED Delivery!vars
    <2>1. \A c \in CPU : Inbox(c)' = Inbox(c)
        BY <1>1, InboxKept
    <2> QED BY <1>1, <2>1 DEF Delivery!vars, Inboxes, Served, ToPost, Waits
<1> QED BY <1>2, <1>3 DEF Delivering

LEMMA StepDelivers ==
    ASSUME ToAllOthers, IInv, IInv', Ownership, Delivering, [Next]_vars
    PROVE  Delivering' /\ [Delivery!Next]_(Delivery!vars)
<1> DEFINE Goal == Delivering' /\ [Delivery!Next]_(Delivery!vars)
<1>1. ASSUME NEW c \in CPU, FlushTlb(c) \/ Unicast(c) PROVE Goal
    <2>1. PICK k \in Kinds : Begin(c, k, CPU \ {c})
        BY <1>1, CallsGoToAllOthers
    <2>2. Delivering' /\ Delivery!Begin(c)
        BY <2>1, BeginDelivers
    <2> QED BY <2>2 DEF Delivery!Next
<1>2. ASSUME NEW c \in CPU, Halt(c) \/ TakeIpi(c) \/ OtherTrap(c) PROVE Goal
    BY <1>2, HaltUnseen, TakeIpiUnseen, OtherTrapUnseen
<1>3. ASSUME NEW c \in CPU, Exchange(c) PROVE Goal
    BY <1>3, ExchangeUnseen, NothingToDoUnseen
<1>4. ASSUME NEW c \in CPU, Push(c) PROVE Goal
    <2>1. Delivering' /\ (UNCHANGED Delivery!vars \/ Delivery!Return(c))
        BY <1>4, PushUnseen, PushDelivers
    <2> QED BY <2>1 DEF Delivery!Next
<1>5. ASSUME NEW c \in CPU, SendIpi(c) PROVE Goal
    <2>1. Delivering' /\ (UNCHANGED Delivery!vars \/ Delivery!Return(c))
        BY <1>5, SendIpiDelivers
    <2> QED BY <2>1 DEF Delivery!Next
<1>6. ASSUME NEW c \in CPU, Enqueue(c) PROVE Goal
    <2>1. Delivering' /\ \E d \in CPU : Delivery!Post(c, d)
        BY <1>6, EnqueueDelivers
    <2> QED BY <2>1 DEF Delivery!Next
<1>7. ASSUME NEW c \in CPU, Run(c) PROVE Goal
    <2>1. Delivering' /\ Delivery!Serve(c)
        BY <1>7, RunDelivers
    <2> QED BY <2>1 DEF Delivery!Next
<1>8. ASSUME NEW c \in CPU, Step(c) PROVE Goal
    <2>1. CASE Exchange(c) \/ Push(c) \/ SendIpi(c) \/ Enqueue(c) \/ Run(c)
        BY <1>3, <1>4, <1>5, <1>6, <1>7, <2>1
    <2>2. CASE ~(Exchange(c) \/ Push(c) \/ SendIpi(c) \/ Enqueue(c) \/ Run(c))
        <3>1. Delivering' /\ UNCHANGED Delivery!vars
            BY <1>8, <2>2, LoadPoolUnseen, ReadNextUnseen, PopUnseen, FillUnseen, WaitUnseen, LinkUnseen,
                DropUnseen, CheckUnseen, HaltStoreUnseen, HaltIpiUnseen DEF Step
        <3> QED BY <3>1
    <2> QED BY <2>1, <2>2
<1>9. CASE UNCHANGED vars
    BY <1>9, StutterUnseen DEF IInv
<1> QED BY <1>1, <1>2, <1>8, <1>9 DEF Next

\* smp_broadcast and smp_unicast, with their pool, their queues and their counts,
\* deliver as if each processor had an inbox: every request comes once to each
\* target, is served in the order it came, and a call that waits returns when all
\* its targets have served it, also when the machine is being halted.
THEOREM Delivers == ASSUME ToAllOthers PROVE Spec => DeliverySpec
<1>1. Init => Delivering /\ Delivery!Init
    BY InitDelivers
<1>2. IInv /\ IInv' /\ Ownership /\ Delivering /\ [Next]_vars
            => Delivering' /\ [Delivery!Next]_(Delivery!vars)
    BY StepDelivers
<1> QED BY <1>1, <1>2, Inductive, OwnershipInductive, PTL DEF Spec, DeliverySpec, Delivery!Spec
=============================================================================
