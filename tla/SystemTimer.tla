---------------------------- MODULE SystemTimer ----------------------------
(***************************************************************************)
(* Kernel/Arch/aarch64/RPi/Timer.cpp: the free running counter read in two *)
(* halves, and the interrupt each interval.  The device counts, and raises *)
(* its interrupt when the low half reaches the compare register, between   *)
(* any two steps of the driver.                                            *)
(***************************************************************************)
EXTENDS Integers

CONSTANTS Half,     \* the values of one half of the counter, 2 ^ 32 in the code
          Interval, \* m_interrupt_interval
          MaxDelay, \* bound: ticks from the start of a call, or from an interrupt, to its end
          MaxCount  \* bound: the counter

VARIABLE timer

High(n) == n \div Half
Low(n) == n % Half
Idle == [at |-> "idle", high |-> 0, low |-> 0, begun |-> 0]

Init == timer = [count |-> 0, compare |-> 0, matched |-> FALSE, delay |-> 0, current |-> 0,
                 running |-> FALSE, call |-> Idle]

-----------------------------------------------------------------------------
\* The device.  A tick may come at any time, but a call or an interrupt is done within MaxDelay ticks.
InTime == (timer.matched \/ timer.call # Idle) => timer.delay < MaxDelay
Tick ==
    /\ timer.count < MaxCount /\ InTime
    /\ timer' = [timer EXCEPT !.count = @ + 1,
                              !.matched = @ \/ (timer.running /\ Low(timer.count + 1) = timer.compare),
                              !.delay = IF timer.matched \/ timer.call # Idle THEN @ + 1 ELSE 0]

-----------------------------------------------------------------------------
(* microseconds_since_boot                                                 *)

Step(at, to) == timer.call.at = at /\ timer' = [timer EXCEPT !.call = to]
StartReading ==
    /\ timer.call = Idle /\ ~timer.matched
    /\ timer' = [timer EXCEPT !.delay = 0, !.call = [at |-> "low", high |-> High(timer.count), low |-> 0, begun |-> timer.count]]
ReadLow == Step("low", [timer.call EXCEPT !.at = "check", !.low = Low(timer.count)])
\* Mutant: the low half is kept when the high half changed.
LowKept(call) == [call EXCEPT !.at = "done", !.high = High(timer.count)]
BothAgain(call) == [call EXCEPT !.at = "low_again", !.high = High(timer.count)]
CheckHigh == Step("check", [timer.call EXCEPT !.at = IF timer.call.high # High(timer.count) THEN "high_again" ELSE "done"])
ReadHighAgain == Step("high_again", BothAgain(timer.call))
ReadLowAgain == Step("low_again", [timer.call EXCEPT !.at = "done", !.low = Low(timer.count)])
Microseconds == timer.call.high * Half + timer.call.low
Return == Step("done", Idle)

-----------------------------------------------------------------------------
(* The interrupt                                                           *)

\* enable_interrupt_mode, from the time it read; m_current_timer_value is a u32.
EnableInterruptMode ==
    /\ timer.call.at = "done" /\ ~timer.running
    /\ timer' = [timer EXCEPT !.current = Low(Microseconds + Interval), !.compare = Low(Microseconds + Interval),
                              !.running = TRUE, !.call = Idle]
\* handle_irq.  Mutant: the next match is counted from what is in the register when it is late.
FromBefore == Low(timer.current)
NextMatch == Low(timer.current + Interval)
SetCompare ==
    /\ timer.matched /\ timer.call = Idle
    /\ timer' = [timer EXCEPT !.current = NextMatch, !.compare = NextMatch, !.call = [Idle EXCEPT !.at = "clear"]]
ClearInterrupt ==
    /\ timer.call.at = "clear"
    /\ timer' = [timer EXCEPT !.matched = FALSE, !.call = Idle]

Next == \/ Tick \/ StartReading \/ ReadLow \/ CheckHigh \/ ReadHighAgain \/ ReadLowAgain \/ Return
        \/ EnableInterruptMode \/ SetCompare \/ ClearInterrupt
Spec == Init /\ [][Next]_timer

-----------------------------------------------------------------------------
(* Properties                                                              *)

\* The time read from the two halves lies between the start and the end of the call, though either
\* half may have changed in between (Timer.cpp:35-43).
TimeIsNow == timer.call.at = "done" => timer.call.begun <= Microseconds /\ Microseconds <= timer.count
\* While no interrupt is pending the next match lies ahead, no farther than one interval: a compare
\* set behind the counter would not match before the counter wraps (Timer.cpp:48).
NextMatchAhead ==
    timer.running /\ ~timer.matched => (timer.compare - timer.count) % Half \in 1 .. Interval
=============================================================================
