--------------------------- MODULE IdleProcessors ---------------------------
(***************************************************************************)
(* Processor::smp_wake_n_idle_processors: processors claim the bits of     *)
(* idle ones in s_idle_cpu_mask and send each a message to wake it.  What  *)
(* sets and clears a processor's own bit (its idle loop) is not under src/ *)
(* and is modelled from that use.  Bit operations are set operations; the  *)
(* load and the fetch_and of one turn are separate steps.                  *)
(***************************************************************************)
EXTENDS Integers, FiniteSets

CONSTANTS Processor, \* every processor of s_processors
          Waker,     \* bound: the ones that call it
          MaxIdles   \* bound: how often one goes idle

VARIABLE idle \* [mask, call, begun, sent, asleep]

NoCall == [at |-> "none", want |-> 0, did |-> 0, found |-> {}]

Init == idle = [mask |-> {}, asleep |-> {}, call |-> [p \in Processor |-> NoCall],
                begun |-> [p \in Processor |-> 0], sent |-> [p \in Processor |-> 0]]

-----------------------------------------------------------------------------
(* The idle loop, as far as s_idle_cpu_mask shows it                       *)

IdleBegin(p) ==
    /\ p \notin idle.asleep /\ idle.begun[p] < MaxIdles /\ idle.call[p] = NoCall
    /\ idle' = [idle EXCEPT !.mask = @ \cup {p}, !.asleep = @ \cup {p}, !.begun[p] = @ + 1]
\* Woken by a message, or by its timer at any time.
IdleEnd(p) ==
    /\ p \in idle.asleep
    /\ idle' = [idle EXCEPT !.mask = @ \ {p}, !.asleep = @ \ {p}]

-----------------------------------------------------------------------------
(* smp_wake_n_idle_processors, called by p                                 *)

\* "Wake at most N - 1 processors".
WakeCount(count) == IF count >= Cardinality(Processor) THEN Cardinality(Processor) - 1 ELSE count
Call(p) ==
    /\ p \in Waker \ idle.asleep /\ idle.call[p] = NoCall
    /\ \E count \in 1 .. Cardinality(Processor) :
           idle' = [idle EXCEPT !.call[p] = [@ EXCEPT !.at = "load", !.want = WakeCount(count)]]

\* Mutant: one turn more.
OneMore(call) == call.did <= call.want
StillWanted(call) == call.did < call.want
Load(p) ==
    LET call == idle.call[p]
        found == idle.mask \ {p}
    IN  /\ call.at = "load" /\ StillWanted(call)
        /\ idle' = [idle EXCEPT !.call[p] = IF found = {} THEN [@ EXCEPT !.at = "return"]
                                            ELSE [@ EXCEPT !.at = "claim", !.found = found]]

\* The fetch_and: what it clears and what is p's to wake.
\* Mutant: what the load had found is woken, claimed by another or not.
AllFound(found, mask) == found
Claimed(found, mask) == found \cap mask
Claim(p) ==
    LET call == idle.call[p]
        claimed == Claimed(call.found, idle.mask)
    IN  /\ call.at = "claim"
        /\ idle' = [idle EXCEPT !.mask = @ \ call.found,
                                !.call[p] = [@ EXCEPT !.at = IF claimed = {} THEN "load" ELSE "send", !.found = claimed]]
\* apic.send_ipi to the lowest claimed bit; the order is any order here.
Send(p) ==
    LET call == idle.call[p]
    IN  /\ call.at = "send"
        /\ \E q \in call.found :
               idle' = [idle EXCEPT !.sent[q] = @ + 1,
                                    !.call[p] = [call EXCEPT !.did = @ + 1, !.found = @ \ {q},
                                                             !.at = IF call.found = {q} THEN "load" ELSE "send"]]
Return(p) ==
    LET call == idle.call[p]
    IN  /\ call.at = "return" \/ (call.at = "load" /\ ~StillWanted(call))
        /\ idle' = [idle EXCEPT !.call[p] = NoCall]

Next == \E p \in Processor :
    IdleBegin(p) \/ IdleEnd(p) \/ Call(p) \/ Load(p) \/ Claim(p) \/ Send(p) \/ Return(p)
Spec == Init /\ [][Next]_idle

-----------------------------------------------------------------------------
(* Properties                                                              *)

\* The processors whose bit is cleared and whose message is not sent yet.
Owed(q) == Cardinality({p \in Processor : idle.call[p].at = "send" /\ q \in idle.call[p].found})
\* A processor is sent at most one message for each time it went idle: two wakers never claim the
\* same bit, and a bit still set has not been claimed (Processor.cpp:1088).
OneMessageEach ==
    \A q \in Processor :
        idle.sent[q] + Owed(q) + (IF q \in idle.mask THEN 1 ELSE 0) <= idle.begun[q]
\* A call wakes no more than it was asked for but for its last turn, and never its own processor.
OverwakesOneTurn ==
    \A p \in Processor :
        LET call == idle.call[p]
        IN  call.at # "none" => /\ call.did < call.want + Cardinality(Processor) - 1
                                /\ call.at \in {"claim", "send"} => p \notin call.found
=============================================================================
