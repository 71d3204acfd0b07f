--------------------------- MODULE SpinlocksProofs ---------------------------
(***************************************************************************)
(* For any set of processors and any nesting, the two spinlocks exclude,   *)
(* are never held by interrupted code, and leave the interrupt flag and    *)
(* the critical section as they found them.                                *)
(*                                                                         *)
(* The invariant ties three things together: a processor that has IF set,  *)
(* or runs a handler, has a thread that owns no lock (ThreadOpen); what a  *)
(* context has on its stack is what it holds and is doing (StackMatches);  *)
(* and the flags on that stack are those of its outermost lock, then off   *)
(* (ThreadFlags, HandlerFlags).                                            *)
(***************************************************************************)
EXTENDS Spinlocks, TLAPS

OneP(x) == IF holdsP[x] THEN 1 ELSE 0
OneOp(x) == IF pc[x] = "out" THEN 0 ELSE 1

\* Every prev_flags belongs to a lock held or an operation under way.
StackMatches ==
    \A x \in Ctx :
        /\ depth[x] = OneP(x) + holdsR[x] + OneOp(x)
        /\ pc[x] \in {"p_enter", "p_cli", "p_exchange"} => depth[x] = 1

\* A thread that has not reached cli: it holds nothing.
Open(x) ==
    /\ pc[x] \in {"out", "p_enter", "p_cli", "r_cli"}
    /\ ~holdsP[x] /\ holdsR[x] = 0

ThreadOpen == \A c \in CPU : inIrq[c] \/ intr[c] => Open(Thread(c))

\* No handler: nothing of it is left.
HandlerQuiet ==
    \A c \in CPU : ~inIrq[c] =>
        /\ pc[Handler(c)] = "out" /\ depth[Handler(c)] = 0
        /\ ~holdsP[Handler(c)] /\ holdsR[Handler(c)] = 0

HandlerFlags ==
    \A c \in CPU :
        /\ inIrq[c] => ~intr[c]
        /\ \A d \in 1..depth[Handler(c)] : ~saved[Handler(c)][d]

ThreadFlags ==
    \A c \in CPU :
        /\ ~inIrq[c] /\ ~intr[c] => depth[Thread(c)] > 0
        /\ \A d \in 1..depth[Thread(c)] : saved[Thread(c)][d] <=> d = 1

OwnerP ==
    /\ \A x \in Ctx : holdsP[x] => lockP = 1
    /\ \A x, y \in Ctx : holdsP[x] /\ holdsP[y] => x = y

OwnerR ==
    /\ lockR = NoCPU => recursions = 0
    /\ lockR # NoCPU => \E x \in Ctx : holdsR[x] > 0
    /\ \A x \in Ctx : holdsR[x] > 0 => lockR = Cpu(x) /\ recursions = holdsR[x]
    /\ \A x, y \in Ctx : holdsR[x] > 0 /\ holdsR[y] > 0 => x = y

Balanced == \A c \in CPU : crit[c] = Sections(Thread(c)) + Sections(Handler(c))

FlagsInv == StackMatches /\ ThreadOpen /\ HandlerQuiet /\ HandlerFlags /\ ThreadFlags

IInv == TypeOK /\ FlagsInv /\ OwnerP /\ OwnerR /\ Balanced

-----------------------------------------------------------------------------

\* A context is the thread or the handler of its processor.
LEMMA CtxCases ==
    ASSUME NEW x \in Ctx
    PROVE  /\ Cpu(x) \in CPU
           /\ x = Thread(Cpu(x)) \/ x = Handler(Cpu(x))
           /\ x = Thread(Cpu(x)) <=> x[2] = "thread"
           /\ x = Handler(Cpu(x)) <=> x[2] = "irq"
BY DEF Ctx, Cpu, Thread, Handler

LEMMA ThreadHandler ==
    ASSUME NEW c \in CPU
    PROVE  /\ Thread(c) \in Ctx /\ Handler(c) \in Ctx /\ Thread(c) # Handler(c)
           /\ Cpu(Thread(c)) = c /\ Cpu(Handler(c)) = c
           /\ Thread(c)[2] = "thread" /\ Handler(c)[2] = "irq"
BY DEF Ctx, Cpu, Thread, Handler

\* What the invariant says of the depth of a context and of its sections.
LEMMA DepthFacts ==
    ASSUME IInv, NEW x \in Ctx
    PROVE  /\ pc[x] # "out" => depth[x] \in 1..MaxNesting
           /\ holdsR[x] > 0 => depth[x] > 0
           /\ Sections(x) \in Nat
           /\ pc[x] = "leave" => Sections(x) > 0
BY SpinlocksAssumption DEF IInv, TypeOK, FlagsInv, StackMatches, OneP, OneOp, Sections

\* A context that changes its sections by as much as its processor's counter
\* changes, everything else being equal, keeps the counter balanced.
LEMMA StaysBalanced ==
    ASSUME Balanced, NEW x \in Ctx, NEW n \in Int,
           \A y \in Ctx : Sections(y) \in Int,
           \A y \in Ctx \ {x} : Sections(y)' = Sections(y),
           Sections(x)' = Sections(x) + n,
           \A c \in CPU : crit'[c] = IF c = Cpu(x) THEN crit[c] + n ELSE crit[c]
    PROVE  Balanced'
<1> SUFFICES ASSUME NEW c \in CPU
             PROVE  crit'[c] = Sections(Thread(c))' + Sections(Handler(c))'
    BY DEF Balanced
<1>1. crit[c] = Sections(Thread(c)) + Sections(Handler(c))
    BY DEF Balanced
<1>2. CASE c # Cpu(x)
    <2>1. Thread(c) # x /\ Handler(c) # x
        BY <1>2, ThreadHandler
    <2> QED BY <1>1, <1>2, <2>1, ThreadHandler
<1>3. CASE x = Thread(c)
    BY <1>1, <1>3, ThreadHandler
<1>4. CASE x = Handler(c)
    BY <1>1, <1>4, ThreadHandler
<1> QED BY <1>2, <1>3, <1>4, CtxCases


\* Pushing prev_flags on the stack of x changes nothing else.
LEMMA SaveFacts ==
    ASSUME TypeOK, NEW x \in Ctx, SaveFlags(x)
    PROVE  /\ depth' \in [Ctx -> 0..MaxNesting]
           /\ saved' \in [Ctx -> [1..MaxNesting -> BOOLEAN]]
           /\ depth'[x] = depth[x] + 1
           /\ saved'[x][depth[x] + 1] = intr[Cpu(x)]
           /\ \A d \in 1..depth[x] : saved'[x][d] = saved[x][d]
           /\ \A y \in Ctx \ {x} : depth'[y] = depth[y] /\ saved'[y] = saved[y]
<1> USE DEF TypeOK, SaveFlags
<1>1. depth[x] + 1 \in 1..MaxNesting
    BY SpinlocksAssumption
<1>2. depth' = [depth EXCEPT ![x] = depth[x] + 1]
    OBVIOUS
<1>3. saved' = [saved EXCEPT ![x] = [saved[x] EXCEPT ![depth[x] + 1] = intr[Cpu(x)]]]
    OBVIOUS
<1>4. [saved[x] EXCEPT ![depth[x] + 1] = intr[Cpu(x)]] \in [1..MaxNesting -> BOOLEAN]
    BY <1>1, CtxCases
<1>5. depth' \in [Ctx -> 0..MaxNesting] /\ depth'[x] = depth[x] + 1
    BY <1>1, <1>2
<1>6. /\ saved' \in [Ctx -> [1..MaxNesting -> BOOLEAN]]
      /\ saved'[x] = [saved[x] EXCEPT ![depth[x] + 1] = intr[Cpu(x)]]
    BY <1>3, <1>4
<1>7. saved[x] \in [1..MaxNesting -> BOOLEAN] /\ depth[x] \in 0..MaxNesting
    OBVIOUS
<1>8. saved'[x][depth[x] + 1] = intr[Cpu(x)]
    BY <1>1, <1>6, <1>7
<1>9. \A d \in 1..depth[x] : saved'[x][d] = saved[x][d]
    BY <1>1, <1>6, <1>7, SpinlocksAssumption
<1>10. \A y \in Ctx \ {x} : depth'[y] = depth[y] /\ saved'[y] = saved[y]
    BY <1>2, <1>3
<1> QED BY <1>5, <1>6, <1>8, <1>9, <1>10

\* A spin that fails changes nothing.
LEMMA StutterStep == ASSUME IInv, UNCHANGED vars PROVE IInv'
BY DEF vars, IInv, TypeOK, FlagsInv, StackMatches, ThreadOpen, Open, HandlerQuiet,
    HandlerFlags, ThreadFlags, OwnerP, OwnerR, Balanced, Sections, OneP, OneOp
LEMMA InitIInv == Init => IInv
<1> SUFFICES ASSUME Init PROVE IInv
    OBVIOUS
<1>1. TypeOK
    BY SpinlocksAssumption DEF Init, TypeOK, Labels
<1>2. FlagsInv
    BY ThreadHandler DEF Init, FlagsInv, StackMatches, ThreadOpen, Open, HandlerQuiet,
        HandlerFlags, ThreadFlags, OneP, OneOp
<1>3. OwnerP /\ OwnerR
    BY DEF Init, OwnerP, OwnerR
<1>4. Balanced
    BY ThreadHandler DEF Init, Balanced, Sections
<1> QED BY <1>1, <1>2, <1>3, <1>4 DEF IInv

LEMMA LockPStep ==
    ASSUME IInv, NEW x \in Ctx, LockP(x) PROVE IInv'
<1> USE DEF IInv, FlagsInv, LockP, At, Active, Goto, locks
<1>1. TypeOK'
    BY SaveFacts DEF TypeOK, Labels
<1>2. StackMatches'
    BY SaveFacts DEF TypeOK, StackMatches, OneP, OneOp
<1>3. ThreadOpen'
    BY CtxCases, ThreadHandler, SaveFacts DEF TypeOK, ThreadOpen, Open, HandlerQuiet
<1>4. HandlerQuiet'
    BY CtxCases, ThreadHandler, SaveFacts DEF TypeOK, HandlerQuiet
<1>5. HandlerFlags'
    <2> SUFFICES ASSUME NEW c \in CPU
                 PROVE  (inIrq[c] => ~intr[c]) /\ \A d \in 1..depth'[Handler(c)] : ~saved'[Handler(c)][d]
        BY DEF HandlerFlags
    <2>1. CASE x = Handler(c)
        <3>1. ~intr[c]
            BY <2>1, ThreadHandler DEF HandlerFlags
        <3>2. 1..depth'[x] = 1..depth[x] \union {depth[x] + 1}
            BY SaveFacts DEF TypeOK
        <3> QED BY <2>1, <3>1, <3>2, SaveFacts, ThreadHandler DEF HandlerFlags
    <2>2. CASE x # Handler(c)
        BY <2>2, SaveFacts, ThreadHandler DEF HandlerFlags
    <2> QED BY <2>1, <2>2
<1>6. ThreadFlags'
    <2> SUFFICES ASSUME NEW c \in CPU
                 PROVE  /\ ~inIrq[c] /\ ~intr[c] => depth'[Thread(c)] > 0
                        /\ \A d \in 1..depth'[Thread(c)] : saved'[Thread(c)][d] <=> d = 1
        BY DEF ThreadFlags
    <2>1. CASE x = Thread(c)
        <3>1. intr[c] <=> depth[x] = 0
            BY <2>1, ThreadHandler DEF ThreadFlags, ThreadOpen, Open, StackMatches, OneP, OneOp, TypeOK
        <3>2. 1..depth'[x] = 1..depth[x] \union {depth[x] + 1} /\ depth[x] \in Nat
            BY SaveFacts DEF TypeOK
        <3>3. saved'[x][depth[x] + 1] = intr[c]
            BY <2>1, SaveFacts, ThreadHandler
        <3>4. \A d \in 1..depth[x] : saved'[x][d] <=> d = 1
            BY <2>1, SaveFacts DEF ThreadFlags
        <3>5. \A d \in 1..depth'[x] : saved'[x][d] <=> d = 1
            BY <3>1, <3>2, <3>3, <3>4
        <3> QED BY <2>1, <3>2, <3>5, SaveFacts
    <2>2. CASE x # Thread(c)
        BY <2>2, SaveFacts, ThreadHandler DEF ThreadFlags
    <2> QED BY <2>1, <2>2
<1>7. OwnerP'
    BY DEF OwnerP
<1>8. OwnerR'
    BY DEF OwnerR
<1>9. Balanced'
    <2>1. Sections(x)' = Sections(x) + (0)
        BY DepthFacts, SaveFacts DEF TypeOK, Sections
    <2>2. \A y \in Ctx \ {x} : Sections(y)' = Sections(y)
        BY SaveFacts DEF TypeOK, Sections
    <2>3. \A c \in CPU : crit'[c] = IF c = Cpu(x) THEN crit[c] + (0) ELSE crit[c]
        BY CtxCases DEF TypeOK
    <2> QED BY <2>1, <2>2, <2>3, DepthFacts, StaysBalanced
<1> QED BY <1>1, <1>2, <1>3, <1>4, <1>5, <1>6, <1>7, <1>8, <1>9

LEMMA EnterPStep ==
    ASSUME IInv, NEW x \in Ctx, EnterP(x) PROVE IInv'
<1> USE DEF IInv, FlagsInv, EnterP, At, Active, Goto, locks
<1>1. TypeOK'
    BY DepthFacts, CtxCases, SpinlocksAssumption DEF TypeOK, Labels
<1>2. StackMatches'
    BY DEF TypeOK, StackMatches, OneP, OneOp
<1>3. ThreadOpen'
    BY CtxCases, ThreadHandler DEF TypeOK, ThreadOpen, Open, HandlerQuiet
<1>4. HandlerQuiet'
    BY CtxCases, ThreadHandler DEF TypeOK, HandlerQuiet
<1>5. HandlerFlags'
    BY DEF HandlerFlags
<1>6. ThreadFlags'
    BY DEF ThreadFlags
<1>7. OwnerP'
    BY DEF OwnerP
<1>8. OwnerR'
    BY DEF OwnerR
<1>9. Balanced'
    <2>1. Sections(x)' = Sections(x) + (1)
        BY DepthFacts DEF TypeOK, Sections
    <2>2. \A y \in Ctx \ {x} : Sections(y)' = Sections(y)
        BY DEF TypeOK, Sections
    <2>3. \A c \in CPU : crit'[c] = IF c = Cpu(x) THEN crit[c] + (1) ELSE crit[c]
        BY DEF TypeOK
    <2> QED BY <2>1, <2>2, <2>3, DepthFacts, StaysBalanced
<1> QED BY <1>1, <1>2, <1>3, <1>4, <1>5, <1>6, <1>7, <1>8, <1>9

LEMMA CliPStep ==
    ASSUME IInv, NEW x \in Ctx, CliP(x) PROVE IInv'
<1> USE DEF IInv, FlagsInv, CliP, At, Active, Goto, locks, SetIF
<1>1. TypeOK'
    BY DepthFacts, CtxCases, SpinlocksAssumption DEF TypeOK, Labels
<1>2. StackMatches'
    BY DEF TypeOK, StackMatches, OneP, OneOp
<1>3. ThreadOpen'
    BY CtxCases, ThreadHandler DEF TypeOK, ThreadOpen, Open, HandlerQuiet
<1>4. HandlerQuiet'
    BY CtxCases, ThreadHandler DEF TypeOK, HandlerQuiet
<1>5. HandlerFlags'
    BY CtxCases, ThreadHandler DEF TypeOK, HandlerFlags, HandlerQuiet
<1>6. ThreadFlags'
    <2> SUFFICES ASSUME NEW c \in CPU, ~inIrq[c], ~intr'[c] PROVE depth[Thread(c)] > 0
        BY DEF ThreadFlags
    <2>1. CASE x = Thread(c)
        BY <2>1, DepthFacts
    <2>2. CASE c # Cpu(x)
        BY <2>2 DEF TypeOK, ThreadFlags
    <2> QED BY <2>1, <2>2, CtxCases
<1>7. OwnerP'
    BY DEF OwnerP
<1>8. OwnerR'
    BY DEF OwnerR
<1>9. Balanced'
    <2>1. Sections(x)' = Sections(x) + (0)
        BY DepthFacts DEF TypeOK, Sections
    <2>2. \A y \in Ctx \ {x} : Sections(y)' = Sections(y)
        BY DEF TypeOK, Sections
    <2>3. \A c \in CPU : crit'[c] = IF c = Cpu(x) THEN crit[c] + (0) ELSE crit[c]
        BY DEF TypeOK
    <2> QED BY <2>1, <2>2, <2>3, DepthFacts, StaysBalanced
<1> QED BY <1>1, <1>2, <1>3, <1>4, <1>5, <1>6, <1>7, <1>8, <1>9

LEMMA ExchangePStep ==
    ASSUME IInv, NEW x \in Ctx, ExchangeP(x) PROVE IInv'
<1> USE DEF IInv, FlagsInv, ExchangeP, At, Active, Goto, locks
<1>a. CASE lockP # 0
    <2>1. UNCHANGED vars
        BY <1>a DEF vars, TypeOK
    <2> QED BY <2>1, StutterStep
<1> SUFFICES ASSUME lockP = 0 PROVE IInv'
    BY <1>a
<1>1. TypeOK'
    BY DepthFacts, CtxCases, SpinlocksAssumption DEF TypeOK, Labels
<1>2. StackMatches'
    <2>1. OneOp(x) = 1 /\ OneP(x) \in {0, 1} /\ holdsR[x] \in Nat /\ depth[x] = 1
        BY DEF TypeOK, StackMatches, OneP, OneOp
    <2>4. OneP(x) = 0 /\ holdsR[x] = 0
        BY <2>1 DEF StackMatches
    <2>5. OneP(x)' = 1 /\ OneOp(x)' = 0
        BY DEF TypeOK, OneP, OneOp
    <2>6. depth'[x] = OneP(x)' + holdsR'[x] + OneOp(x)'
        BY <2>1, <2>4, <2>5
    <2>2. \A y \in Ctx \ {x} : OneP(y)' = OneP(y) /\ OneOp(y)' = OneOp(y) /\ pc'[y] = pc[y]
        BY DEF TypeOK, OneP, OneOp
    <2>3. pc'[x] = "out"
        BY DEF TypeOK
    <2> QED BY <2>2, <2>3, <2>6 DEF StackMatches
<1>3. ThreadOpen'
    BY CtxCases, ThreadHandler DEF TypeOK, ThreadOpen, Open, HandlerQuiet
<1>4. HandlerQuiet'
    BY CtxCases, ThreadHandler DEF TypeOK, HandlerQuiet
<1>5. HandlerFlags'
    BY DEF HandlerFlags
<1>6. ThreadFlags'
    BY DEF ThreadFlags
<1>7. OwnerP'
    <2>1. \A y \in Ctx : ~holdsP[y]
        BY DEF OwnerP
    <2> QED BY <2>1 DEF TypeOK, OwnerP
<1>8. OwnerR'
    BY DEF OwnerR
<1>9. Balanced'
    <2>1. Sections(x)' = Sections(x) + (0)
        BY DepthFacts DEF TypeOK, Sections
    <2>2. \A y \in Ctx \ {x} : Sections(y)' = Sections(y)
        BY DEF TypeOK, Sections
    <2>3. \A c \in CPU : crit'[c] = IF c = Cpu(x) THEN crit[c] + (0) ELSE crit[c]
        BY DEF TypeOK
    <2> QED BY <2>1, <2>2, <2>3, DepthFacts, StaysBalanced
<1> QED BY <1>1, <1>2, <1>3, <1>4, <1>5, <1>6, <1>7, <1>8, <1>9

LEMMA UnlockPStep ==
    ASSUME IInv, NEW x \in Ctx, UnlockP(x) PROVE IInv'
<1> USE DEF IInv, FlagsInv, UnlockP, At, Active, Goto, locks
<1>1. TypeOK'
    BY DepthFacts, CtxCases, SpinlocksAssumption DEF TypeOK, Labels
<1>2. StackMatches'
    BY DEF TypeOK, StackMatches, OneP, OneOp
<1>3. ThreadOpen'
    BY CtxCases, ThreadHandler DEF TypeOK, ThreadOpen, Open, HandlerQuiet
<1>4. HandlerQuiet'
    BY CtxCases, ThreadHandler DEF TypeOK, HandlerQuiet
<1>5. HandlerFlags'
    BY DEF HandlerFlags
<1>6. ThreadFlags'
    BY DEF ThreadFlags
<1>7. OwnerP'
    BY CtxCases DEF TypeOK, OwnerP
<1>8. OwnerR'
    BY DEF OwnerR
<1>9. Balanced'
    <2>1. Sections(x)' = Sections(x) + (0)
        BY DepthFacts DEF TypeOK, Sections
    <2>2. \A y \in Ctx \ {x} : Sections(y)' = Sections(y)
        BY DEF TypeOK, Sections
    <2>3. \A c \in CPU : crit'[c] = IF c = Cpu(x) THEN crit[c] + (0) ELSE crit[c]
        BY DEF TypeOK
    <2> QED BY <2>1, <2>2, <2>3, DepthFacts, StaysBalanced
<1> QED BY <1>1, <1>2, <1>3, <1>4, <1>5, <1>6, <1>7, <1>8, <1>9

LEMMA LockRStep ==
    ASSUME IInv, NEW x \in Ctx, LockR(x) PROVE IInv'
<1> USE DEF IInv, FlagsInv, LockR, At, Active, Goto, locks
<1>1. TypeOK'
    BY SaveFacts DEF TypeOK, Labels
<1>2. StackMatches'
    BY SaveFacts DEF TypeOK, StackMatches, OneP, OneOp
<1>3. ThreadOpen'
    BY CtxCases, ThreadHandler, SaveFacts DEF TypeOK, ThreadOpen, Open, HandlerQuiet
<1>4. HandlerQuiet'
    BY CtxCases, ThreadHandler, SaveFacts DEF TypeOK, HandlerQuiet
<1>5. HandlerFlags'
    <2> SUFFICES ASSUME NEW c \in CPU
                 PROVE  (inIrq[c] => ~intr[c]) /\ \A d \in 1..depth'[Handler(c)] : ~saved'[Handler(c)][d]
        BY DEF HandlerFlags
    <2>1. CASE x = Handler(c)
        <3>1. ~intr[c]
            BY <2>1, ThreadHandler DEF HandlerFlags
        <3>2. 1..depth'[x] = 1..depth[x] \union {depth[x] + 1}
            BY SaveFacts DEF TypeOK
        <3> QED BY <2>1, <3>1, <3>2, SaveFacts, ThreadHandler DEF HandlerFlags
    <2>2. CASE x # Handler(c)
        BY <2>2, SaveFacts, ThreadHandler DEF HandlerFlags
    <2> QED BY <2>1, <2>2
<1>6. ThreadFlags'
    <2> SUFFICES ASSUME NEW c \in CPU
                 PROVE  /\ ~inIrq[c] /\ ~intr[c] => depth'[Thread(c)] > 0
                        /\ \A d \in 1..depth'[Thread(c)] : saved'[Thread(c)][d] <=> d = 1
        BY DEF ThreadFlags
    <2>1. CASE x = Thread(c)
        <3>1. intr[c] <=> depth[x] = 0
            BY <2>1, ThreadHandler DEF ThreadFlags, ThreadOpen, Open, StackMatches, OneP, OneOp, TypeOK
        <3>2. 1..depth'[x] = 1..depth[x] \union {depth[x] + 1} /\ depth[x] \in Nat
            BY SaveFacts DEF TypeOK
        <3>3. saved'[x][depth[x] + 1] = intr[c]
            BY <2>1, SaveFacts, ThreadHandler
        <3>4. \A d \in 1..depth[x] : saved'[x][d] <=> d = 1
            BY <2>1, SaveFacts DEF ThreadFlags
        <3>5. \A d \in 1..depth'[x] : saved'[x][d] <=> d = 1
            BY <3>1, <3>2, <3>3, <3>4
        <3> QED BY <2>1, <3>2, <3>5, SaveFacts
    <2>2. CASE x # Thread(c)
        BY <2>2, SaveFacts, ThreadHandler DEF ThreadFlags
    <2> QED BY <2>1, <2>2
<1>7. OwnerP'
    BY DEF OwnerP
<1>8. OwnerR'
    BY DEF OwnerR
<1>9. Balanced'
    <2>1. Sections(x)' = Sections(x) + (0)
        BY DepthFacts, SaveFacts DEF TypeOK, Sections
    <2>2. \A y \in Ctx \ {x} : Sections(y)' = Sections(y)
        BY SaveFacts DEF TypeOK, Sections
    <2>3. \A c \in CPU : crit'[c] = IF c = Cpu(x) THEN crit[c] + (0) ELSE crit[c]
        BY DEF TypeOK
    <2> QED BY <2>1, <2>2, <2>3, DepthFacts, StaysBalanced
<1> QED BY <1>1, <1>2, <1>3, <1>4, <1>5, <1>6, <1>7, <1>8, <1>9

LEMMA CliRStep ==
    ASSUME IInv, NEW x \in Ctx, CliR(x) PROVE IInv'
<1> USE DEF IInv, FlagsInv, CliR, At, Active, Goto, locks, SetIF
<1>1. TypeOK'
    BY DepthFacts, CtxCases, SpinlocksAssumption DEF TypeOK, Labels
<1>2. StackMatches'
    BY DEF TypeOK, StackMatches, OneP, OneOp
<1>3. ThreadOpen'
    BY CtxCases, ThreadHandler DEF TypeOK, ThreadOpen, Open, HandlerQuiet
<1>4. HandlerQuiet'
    BY CtxCases, ThreadHandler DEF TypeOK, HandlerQuiet
<1>5. HandlerFlags'
    BY CtxCases, ThreadHandler DEF TypeOK, HandlerFlags, HandlerQuiet
<1>6. ThreadFlags'
    <2> SUFFICES ASSUME NEW c \in CPU, ~inIrq[c], ~intr'[c] PROVE depth[Thread(c)] > 0
        BY DEF ThreadFlags
    <2>1. CASE x = Thread(c)
        BY <2>1, DepthFacts
    <2>2. CASE c # Cpu(x)
        BY <2>2 DEF TypeOK, ThreadFlags
    <2> QED BY <2>1, <2>2, CtxCases
<1>7. OwnerP'
    BY DEF OwnerP
<1>8. OwnerR'
    BY DEF OwnerR
<1>9. Balanced'
    <2>1. Sections(x)' = Sections(x) + (0)
        BY DepthFacts DEF TypeOK, Sections
    <2>2. \A y \in Ctx \ {x} : Sections(y)' = Sections(y)
        BY DEF TypeOK, Sections
    <2>3. \A c \in CPU : crit'[c] = IF c = Cpu(x) THEN crit[c] + (0) ELSE crit[c]
        BY DEF TypeOK
    <2> QED BY <2>1, <2>2, <2>3, DepthFacts, StaysBalanced
<1> QED BY <1>1, <1>2, <1>3, <1>4, <1>5, <1>6, <1>7, <1>8, <1>9

LEMMA EnterRStep ==
    ASSUME IInv, NEW x \in Ctx, EnterR(x) PROVE IInv'
<1> USE DEF IInv, FlagsInv, EnterR, At, Active, Goto, locks
<1>1. TypeOK'
    BY DepthFacts, CtxCases, SpinlocksAssumption DEF TypeOK, Labels
<1>2. StackMatches'
    BY DEF TypeOK, StackMatches, OneP, OneOp
<1>3. ThreadOpen'
    BY CtxCases, ThreadHandler DEF TypeOK, ThreadOpen, Open, HandlerQuiet
<1>4. HandlerQuiet'
    BY CtxCases, ThreadHandler DEF TypeOK, HandlerQuiet
<1>5. HandlerFlags'
    BY DEF HandlerFlags
<1>6. ThreadFlags'
    BY DEF ThreadFlags
<1>7. OwnerP'
    BY DEF OwnerP
<1>8. OwnerR'
    BY DEF OwnerR
<1>9. Balanced'
    <2>1. Sections(x)' = Sections(x) + (1)
        BY DepthFacts DEF TypeOK, Sections
    <2>2. \A y \in Ctx \ {x} : Sections(y)' = Sections(y)
        BY DEF TypeOK, Sections
    <2>3. \A c \in CPU : crit'[c] = IF c = Cpu(x) THEN crit[c] + (1) ELSE crit[c]
        BY DEF TypeOK
    <2> QED BY <2>1, <2>2, <2>3, DepthFacts, StaysBalanced
<1> QED BY <1>1, <1>2, <1>3, <1>4, <1>5, <1>6, <1>7, <1>8, <1>9

LEMMA CasRStep ==
    ASSUME IInv, NEW x \in Ctx, CasR(x) PROVE IInv'
<1> USE DEF IInv, FlagsInv, CasR, At, Active, Goto, locks
<1>a. CASE lockR \notin {NoCPU, Cpu(x)}
    <2>1. UNCHANGED vars
        BY <1>a DEF vars
    <2> QED BY <2>1, StutterStep
<1> SUFFICES ASSUME lockR \in {NoCPU, Cpu(x)} PROVE IInv'
    BY <1>a
<1>1. TypeOK'
    <2>1. holdsR' \in [Ctx -> Nat] /\ recursions' \in Nat
        BY DEF TypeOK
    <2>2. pc' \in [Ctx -> Labels] /\ lockR' \in CPU \union {NoCPU}
        BY CtxCases DEF TypeOK, Labels
    <2> QED BY <2>1, <2>2 DEF TypeOK
<1>2. StackMatches'
    <2>1. OneOp(x) = 1 /\ OneOp(x)' = 0 /\ OneP(x)' = OneP(x) /\ OneP(x) \in {0, 1}
        BY DEF TypeOK, OneP, OneOp
    <2>2. holdsR'[x] = holdsR[x] + 1 /\ holdsR[x] \in Nat /\ pc'[x] = "out"
        BY DEF TypeOK
    <2>3. \A y \in Ctx \ {x} : /\ OneP(y)' = OneP(y) /\ OneOp(y)' = OneOp(y)
                               /\ pc'[y] = pc[y] /\ holdsR'[y] = holdsR[y]
        BY DEF TypeOK, OneP, OneOp
    <2>4. depth[x] = OneP(x) + holdsR[x] + OneOp(x)
        BY DEF StackMatches
    <2>5. depth'[x] = OneP(x)' + holdsR'[x] + OneOp(x)'
        BY <2>1, <2>2, <2>4
    <2> QED BY <2>2, <2>3, <2>5 DEF StackMatches
<1>3. ThreadOpen'
    BY CtxCases, ThreadHandler DEF TypeOK, ThreadOpen, Open, HandlerQuiet
<1>4. HandlerQuiet'
    BY CtxCases, ThreadHandler DEF TypeOK, HandlerQuiet
<1>5. HandlerFlags'
    BY DEF HandlerFlags
<1>6. ThreadFlags'
    BY DEF ThreadFlags
<1>7. OwnerP'
    BY DEF OwnerP
<1>8. OwnerR'
    <2>1. \A y \in Ctx \ {x} : holdsR[y] = 0
        <3> SUFFICES ASSUME NEW y \in Ctx, y # x, holdsR[y] > 0 PROVE FALSE
            BY DEF TypeOK
        <3>1. Cpu(y) = Cpu(x)
            BY CtxCases DEF OwnerR
        <3>2. Active(y)
            BY CtxCases, ThreadHandler DEF TypeOK, ThreadOpen, Open, HandlerQuiet
        <3> QED BY <3>1, <3>2, CtxCases DEF TypeOK
    <2>2. recursions = holdsR[x]
        BY <2>1 DEF TypeOK, OwnerR
    <2>3. /\ lockR' = Cpu(x) /\ recursions' = holdsR'[x] /\ holdsR'[x] > 0
          /\ \A y \in Ctx \ {x} : holdsR'[y] = 0
        BY <2>1, <2>2 DEF TypeOK
    <2>4. Cpu(x) # NoCPU
        BY CtxCases, SpinlocksAssumption
    <2> QED BY <2>3, <2>4 DEF OwnerR
<1>9. Balanced'
    <2>1. Sections(x)' = Sections(x) + (0)
        BY DepthFacts DEF TypeOK, Sections
    <2>2. \A y \in Ctx \ {x} : Sections(y)' = Sections(y)
        BY DEF TypeOK, Sections
    <2>3. \A c \in CPU : crit'[c] = IF c = Cpu(x) THEN crit[c] + (0) ELSE crit[c]
        BY DEF TypeOK
    <2> QED BY <2>1, <2>2, <2>3, DepthFacts, StaysBalanced
<1> QED BY <1>1, <1>2, <1>3, <1>4, <1>5, <1>6, <1>7, <1>8, <1>9

LEMMA UnlockRStep ==
    ASSUME IInv, NEW x \in Ctx, UnlockR(x) PROVE IInv'
<1> USE DEF IInv, FlagsInv, UnlockR, At, Active, Goto, locks
<1>1. TypeOK'
    BY CtxCases DEF TypeOK, Labels, OwnerR
<1>2. StackMatches'
    BY DEF TypeOK, StackMatches, OneP, OneOp
<1>3. ThreadOpen'
    BY CtxCases, ThreadHandler DEF TypeOK, ThreadOpen, Open, HandlerQuiet
<1>4. HandlerQuiet'
    BY CtxCases, ThreadHandler DEF TypeOK, HandlerQuiet
<1>5. HandlerFlags'
    BY DEF HandlerFlags
<1>6. ThreadFlags'
    BY DEF ThreadFlags
<1>7. OwnerP'
    BY DEF OwnerP
<1>8. OwnerR'
    <2>1. /\ lockR = Cpu(x) /\ recursions = holdsR[x] /\ holdsR[x] \in Nat
          /\ \A y \in Ctx \ {x} : holdsR[y] = 0
        BY DEF TypeOK, OwnerR
    <2>2. /\ recursions' = holdsR'[x] /\ holdsR'[x] = holdsR[x] - 1
          /\ \A y \in Ctx \ {x} : holdsR'[y] = 0
        BY <2>1 DEF TypeOK
    <2>3. CASE holdsR[x] = 1
        <3>1. holdsR'[x] = 0 /\ lockR' = NoCPU
            BY <2>1, <2>2, <2>3
        <3> QED BY <2>2, <3>1 DEF OwnerR
    <2>4. CASE holdsR[x] > 1
        <3>1. holdsR'[x] > 0 /\ lockR' = Cpu(x)
            BY <2>1, <2>2, <2>4
        <3>2. Cpu(x) # NoCPU
            BY CtxCases, SpinlocksAssumption
        <3> QED BY <2>2, <3>1, <3>2 DEF OwnerR
    <2> QED BY <2>1, <2>3, <2>4
<1>9. Balanced'
    <2>1. Sections(x)' = Sections(x) + (0)
        BY DepthFacts DEF TypeOK, Sections
    <2>2. \A y \in Ctx \ {x} : Sections(y)' = Sections(y)
        BY DEF TypeOK, Sections
    <2>3. \A c \in CPU : crit'[c] = IF c = Cpu(x) THEN crit[c] + (0) ELSE crit[c]
        BY DEF TypeOK
    <2> QED BY <2>1, <2>2, <2>3, DepthFacts, StaysBalanced
<1> QED BY <1>1, <1>2, <1>3, <1>4, <1>5, <1>6, <1>7, <1>8, <1>9

LEMMA LeaveStep ==
    ASSUME IInv, NEW x \in Ctx, Leave(x) PROVE IInv'
<1> USE DEF IInv, FlagsInv, Leave, At, Active, Goto, locks
<1>1. TypeOK'
    <2>1. crit[Cpu(x)] > 0
        <3>1. \A y \in Ctx : Sections(y) \in Nat
            BY DepthFacts
        <3>2. Sections(x) > 0
            BY DepthFacts
        <3>3. crit[Cpu(x)] = Sections(Thread(Cpu(x))) + Sections(Handler(Cpu(x)))
            BY CtxCases DEF Balanced
        <3> QED BY <3>1, <3>2, <3>3, CtxCases, ThreadHandler
    <2>2. crit' \in [CPU -> Nat]
        BY <2>1, CtxCases DEF TypeOK
    <2> QED BY <2>2 DEF TypeOK, Labels
<1>2. StackMatches'
    BY DEF TypeOK, StackMatches, OneP, OneOp
<1>3. ThreadOpen'
    BY CtxCases, ThreadHandler DEF TypeOK, ThreadOpen, Open, HandlerQuiet
<1>4. HandlerQuiet'
    BY CtxCases, ThreadHandler DEF TypeOK, HandlerQuiet
<1>5. HandlerFlags'
    BY DEF HandlerFlags
<1>6. ThreadFlags'
    BY DEF ThreadFlags
<1>7. OwnerP'
    BY DEF OwnerP
<1>8. OwnerR'
    BY DEF OwnerR
<1>9. Balanced'
    <2>1. Sections(x)' = Sections(x) + (-1)
        BY DepthFacts DEF TypeOK, Sections
    <2>2. \A y \in Ctx \ {x} : Sections(y)' = Sections(y)
        BY DEF TypeOK, Sections
    <2>3. \A c \in CPU : crit'[c] = IF c = Cpu(x) THEN crit[c] + (-1) ELSE crit[c]
        BY DEF TypeOK
    <2> QED BY <2>1, <2>2, <2>3, DepthFacts, StaysBalanced
<1> QED BY <1>1, <1>2, <1>3, <1>4, <1>5, <1>6, <1>7, <1>8, <1>9

LEMMA RestoreStep ==
    ASSUME IInv, NEW x \in Ctx, Restore(x) PROVE IInv'
<1> USE DEF IInv, FlagsInv, Restore, At, Active, Goto, locks, SetIF
<1>1. TypeOK'
    <2>1. depth[x] \in 1..MaxNesting
        BY DepthFacts
    <2>2. depth' \in [Ctx -> 0..MaxNesting]
        BY <2>1, SpinlocksAssumption DEF TypeOK
    <2>3. saved[x][depth[x]] \in BOOLEAN
        BY <2>1 DEF TypeOK
    <2> QED BY <2>2, <2>3, CtxCases DEF TypeOK, Labels
<1>2. StackMatches'
    BY DEF TypeOK, StackMatches, OneP, OneOp
<1>3. ThreadOpen'
    BY CtxCases, ThreadHandler, DepthFacts DEF TypeOK, ThreadOpen, Open, StackMatches, HandlerFlags, OneP, OneOp, ThreadFlags
<1>4. HandlerQuiet'
    BY CtxCases, ThreadHandler DEF TypeOK, HandlerQuiet
<1>5. HandlerFlags'
    <2>1. depth[x] \in 1..MaxNesting /\ depth'[x] = depth[x] - 1
        BY DepthFacts DEF TypeOK
    <2>2. 1..depth'[x] \subseteq 1..depth[x] /\ depth[x] \in 1..depth[x]
        BY <2>1, SpinlocksAssumption
    <2> SUFFICES ASSUME NEW c \in CPU
                 PROVE  (inIrq[c] => ~intr'[c]) /\ \A d \in 1..depth'[Handler(c)] : ~saved[Handler(c)][d]
        BY DEF HandlerFlags
    <2>3. CASE x = Handler(c)
        <3>1. ~saved[x][depth[x]] /\ ~intr'[c]
            BY <2>2, <2>3, ThreadHandler DEF HandlerFlags, TypeOK
        <3> QED BY <2>2, <2>3, <3>1 DEF HandlerFlags
    <2>4. CASE x # Handler(c)
        <3>1. c = Cpu(x) => ~inIrq[c]
            BY <2>4, CtxCases, ThreadHandler
        <3>2. depth'[Handler(c)] = depth[Handler(c)] /\ (c # Cpu(x) => intr'[c] = intr[c])
            BY <2>4, ThreadHandler DEF TypeOK
        <3> QED BY <3>1, <3>2 DEF HandlerFlags
    <2> QED BY <2>3, <2>4
<1>6. ThreadFlags'
    <2>1. depth[x] \in 1..MaxNesting /\ depth'[x] = depth[x] - 1
        BY DepthFacts DEF TypeOK
    <2>2. 1..depth'[x] \subseteq 1..depth[x] /\ depth[x] \in 1..depth[x]
        BY <2>1, SpinlocksAssumption
    <2> SUFFICES ASSUME NEW c \in CPU
                 PROVE  /\ ~inIrq[c] /\ ~intr'[c] => depth'[Thread(c)] > 0
                        /\ \A d \in 1..depth'[Thread(c)] : saved[Thread(c)][d] <=> d = 1
        BY DEF ThreadFlags
    <2>3. CASE x = Thread(c)
        <3>1. intr'[c] <=> depth[x] = 1
            BY <2>2, <2>3, ThreadHandler DEF ThreadFlags, TypeOK
        <3> QED BY <2>1, <2>2, <2>3, <3>1, SpinlocksAssumption DEF ThreadFlags
    <2>4. CASE x # Thread(c)
        <3>1. c = Cpu(x) => inIrq[c]
            BY <2>4, CtxCases, ThreadHandler
        <3>2. depth'[Thread(c)] = depth[Thread(c)] /\ (c # Cpu(x) => intr'[c] = intr[c])
            BY <2>4, ThreadHandler DEF TypeOK
        <3> QED BY <3>1, <3>2 DEF ThreadFlags
    <2> QED BY <2>3, <2>4
<1>7. OwnerP'
    BY DEF OwnerP
<1>8. OwnerR'
    BY DEF OwnerR
<1>9. Balanced'
    <2>1. Sections(x)' = Sections(x) + (0)
        BY DepthFacts DEF TypeOK, Sections
    <2>2. \A y \in Ctx \ {x} : Sections(y)' = Sections(y)
        BY DEF TypeOK, Sections
    <2>3. \A c \in CPU : crit'[c] = IF c = Cpu(x) THEN crit[c] + (0) ELSE crit[c]
        BY DEF TypeOK
    <2> QED BY <2>1, <2>2, <2>3, DepthFacts, StaysBalanced
<1> QED BY <1>1, <1>2, <1>3, <1>4, <1>5, <1>6, <1>7, <1>8, <1>9

-----------------------------------------------------------------------------
(* The interrupt comes only over an open thread, and returns to it.         *)

LEMMA InterruptStep ==
    ASSUME IInv, NEW c \in CPU, Interrupt(c) PROVE IInv'
<1> USE DEF IInv, FlagsInv, Interrupt, locks
<1>1. TypeOK'
    BY DEF TypeOK
<1>2. StackMatches'
    BY DEF StackMatches, OneP, OneOp
<1>3. ThreadOpen'
    BY DEF TypeOK, ThreadOpen, Open
<1>4. HandlerQuiet'
    BY DEF TypeOK, HandlerQuiet
<1>5. HandlerFlags'
    BY DEF TypeOK, HandlerFlags
<1>6. ThreadFlags'
    BY DEF TypeOK, ThreadFlags
<1>7. OwnerP' /\ OwnerR' /\ Balanced'
    BY DEF OwnerP, OwnerR, Balanced, Sections
<1> QED BY <1>1, <1>2, <1>3, <1>4, <1>5, <1>6, <1>7

LEMMA InterruptReturnStep ==
    ASSUME IInv, NEW c \in CPU, InterruptReturn(c) PROVE IInv'
<1> USE DEF IInv, FlagsInv, InterruptReturn, locks
<1>1. TypeOK'
    BY DEF TypeOK
<1>2. StackMatches'
    BY DEF StackMatches, OneP, OneOp
<1>3. ThreadOpen'
    BY DEF TypeOK, ThreadOpen, Open
<1>4. HandlerQuiet'
    <2>1. ~holdsP[Handler(c)] /\ holdsR[Handler(c)] = 0
        BY ThreadHandler DEF TypeOK, StackMatches, OneP, OneOp
    <2> QED BY <2>1 DEF TypeOK, HandlerQuiet
<1>5. HandlerFlags'
    BY DEF TypeOK, HandlerFlags
<1>6. ThreadFlags'
    BY DEF TypeOK, ThreadFlags
<1>7. OwnerP' /\ OwnerR' /\ Balanced'
    BY DEF OwnerP, OwnerR, Balanced, Sections
<1> QED BY <1>1, <1>2, <1>3, <1>4, <1>5, <1>6, <1>7

-----------------------------------------------------------------------------

\* The invariant holds initially, and every step of lock, unlock and the
\* interrupts keeps it.
THEOREM Inductive == Spec => []IInv
<1>1. Init => IInv
    BY InitIInv
<1>2. IInv /\ [Next]_vars => IInv'
    <2> SUFFICES ASSUME IInv, [Next]_vars PROVE IInv'
        OBVIOUS
    <2>1. ASSUME NEW x \in Ctx, LockP(x) \/ UnlockP(x) \/ LockR(x) \/ UnlockR(x) PROVE IInv'
        BY <2>1, LockPStep, UnlockPStep, LockRStep, UnlockRStep
    <2>2. ASSUME NEW x \in Ctx, Inside(x) PROVE IInv'
        BY <2>2, EnterPStep, CliPStep, ExchangePStep, CliRStep, EnterRStep, CasRStep,
            LeaveStep, RestoreStep DEF Inside
    <2>3. ASSUME NEW c \in CPU, Interrupt(c) \/ InterruptReturn(c) PROVE IInv'
        BY <2>3, InterruptStep, InterruptReturnStep
    <2>4. CASE UNCHANGED vars
        BY <2>4, StutterStep
    <2> QED BY <2>1, <2>2, <2>3, <2>4 DEF Next
<1> QED BY <1>1, <1>2, PTL DEF Spec

\* Every variable keeps its type, m_in_critical and m_recursions among them never
\* below zero.
THEOREM TypeCorrect == Spec => []TypeOK
<1>1. IInv => TypeOK
    BY DEF IInv
<1> QED BY <1>1, Inductive, PTL

\* SpinLock.cpp excludes for any number of processors and any depth of nesting.
THEOREM Exclusion == Spec => []MutualExclusion
<1>1. IInv => MutualExclusion
    BY DEF IInv, OwnerP, OwnerR, MutualExclusion
<1> QED BY <1>1, Inductive, PTL

\* A context that holds a lock, or spins on one, is the one its processor runs,
\* and its processor takes no interrupt: no handler waits for its own thread.
THEOREM NoInterruptWhileHolding == Spec => []NotInterruptedWhileHolding
<1>1. IInv => NotInterruptedWhileHolding
    <2> SUFFICES ASSUME IInv, NEW x \in Ctx,
                        holdsP[x] \/ holdsR[x] > 0 \/ pc[x] \in {"p_exchange", "r_cas"}
                 PROVE  Active(x) /\ ~intr[Cpu(x)]
        BY DEF NotInterruptedWhileHolding
    <2>1. CASE x = Thread(Cpu(x))
        <3>1. ~Open(x)
            BY DEF Open
        <3>2. ~inIrq[Cpu(x)] /\ ~intr[Cpu(x)]
            BY <2>1, <3>1, CtxCases DEF IInv, FlagsInv, ThreadOpen
        <3>3. x[2] = "thread"
            BY <2>1 DEF Thread
        <3> QED BY <3>2, <3>3 DEF Active
    <2>2. CASE x = Handler(Cpu(x))
        <3>1. inIrq[Cpu(x)]
            BY <2>2, CtxCases DEF IInv, FlagsInv, HandlerQuiet
        <3>2. ~intr[Cpu(x)]
            BY <3>1, CtxCases DEF IInv, FlagsInv, HandlerFlags
        <3>3. x[2] = "irq"
            BY <2>2 DEF Handler
        <3> QED BY <3>1, <3>2, <3>3, CtxCases DEF Active, IInv, TypeOK
    <2> QED BY <2>1, <2>2, CtxCases
<1> QED BY <1>1, Inductive, PTL

\* Lock and unlock restore the interrupt flag and balance m_in_critical.
THEOREM RestoresProcessor == Spec => []LeavesAsFound
<1>1. IInv => LeavesAsFound
    <2> SUFFICES ASSUME IInv, NEW x \in Ctx, At(x, "out"), depth[x] = 0
                 PROVE  intr[Cpu(x)] <=> x[2] = "thread"
        BY DEF LeavesAsFound, IInv, Balanced
    <2>1. CASE x = Thread(Cpu(x))
        BY <2>1, CtxCases DEF IInv, FlagsInv, TypeOK, ThreadFlags, At, Active
    <2>2. CASE x = Handler(Cpu(x))
        BY <2>2, CtxCases DEF IInv, FlagsInv, TypeOK, HandlerFlags, At, Active
    <2> QED BY <2>1, <2>2, CtxCases
<1> QED BY <1>1, Inductive, PTL

\* The VERIFYs of both unlocks never fail.
THEOREM VerifiesHold == Spec => []UnlockVerifies
<1>1. IInv => UnlockVerifies
    BY DEF IInv, TypeOK, OwnerP, OwnerR, UnlockVerifies
<1> QED BY <1>1, Inductive, PTL
=============================================================================
