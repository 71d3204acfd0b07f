----------------------------- MODULE TimeValues -----------------------------
(***************************************************************************)
(* AK/Time.h and Time.cpp: a time is seconds in a signed integer and       *)
(* nanoseconds that are never negative.  The integer has SecondBits bits   *)
(* (64 in the code), a second Nano nanoseconds (10^9), Micro microseconds  *)
(* (10^6) and Milli milliseconds (1000).  An action is a call and its      *)
(* result, or Stops where a VERIFY does not hold.                          *)
(***************************************************************************)
EXTENDS Integers, FiniteSets, Sequences, SequencesExt

CONSTANTS SecondBits, Nano, Micro, Milli,
          MaxRaw,  \* bound: units of a value that is not yet in order
          Year     \* the years of the dates

VARIABLE call

MinSecond == -(2 ^ (SecondBits - 1))
MaxSecond == 2 ^ (SecondBits - 1) - 1
Second == MinSecond .. MaxSecond
Time == [seconds : Second, nanoseconds : 0 .. Nano - 1]
T(s, ns) == [seconds |-> s, nanoseconds |-> ns]
MinTime == T(MinSecond, 0)
MaxTime == T(MaxSecond, Nano - 1)

-----------------------------------------------------------------------------
(* Values                                                                  *)

\* '/' and '%' of C++, and sane_mod over them, which VERIFYs that the denominator is less than 10^9.
Truncated(a, b) == IF a < 0 THEN -((-a) \div b) ELSE a \div b
Stops == [stops |-> TRUE]
Divides(d) == 2 <= d /\ d < Nano
\* Mutant: what '%' leaves is taken as it is.
TowardsZero(n, d) == [dividend |-> Truncated(n, d), rest |-> n - d * Truncated(n, d)]
SaneMod(n, d) ==
    LET rest == n - d * Truncated(n, d)
    IN  IF rest < 0 THEN [dividend |-> Truncated(n, d) - 1, rest |-> rest + d]
        ELSE [dividend |-> Truncated(n, d), rest |-> rest]

\* from_nanoseconds, from_microseconds and from_milliseconds
FromUnits(n, unit) ==
    LET m == SaneMod(n, unit)
    IN  IF Divides(unit) THEN T(m.dividend, m.rest * (Nano \div unit)) ELSE Stops

FromHalfSanitized(seconds, extra, nanoseconds) ==
    LET opposite == (seconds <= 0 /\ extra > 0) \/ (seconds >= 0 /\ extra < 0)
        s == IF opposite THEN seconds + extra ELSE seconds
        e == IF opposite THEN 0 ELSE extra
    IN  CASE s + e \in Second -> T(s + e, nanoseconds)
          [] s + e \notin Second /\ s < 0 -> MinTime
          [] OTHER -> MaxTime
\* from_timespec and from_timeval
FromPair(seconds, raw, unit) ==
    LET m == SaneMod(raw, unit)
    IN  IF Divides(unit) THEN FromHalfSanitized(seconds, m.dividend, m.rest * (Nano \div unit)) ELSE Stops
FromTicks(ticks, perSecond) ==
    LET seconds == ticks % perSecond
        nsecs == Truncated(Nano * (ticks - perSecond * seconds), perSecond)
    IN  FromPair(seconds, nsecs, Nano)

\* operator+: the extra second goes where it does not overflow.
\* Mutant: it always goes to the first of the two.
AlwaysToFirst(a, b, extra) == IF extra = 0 \/ a < MaxSecond THEN <<a + extra, b>> ELSE <<>>
WithExtra(a, b, extra) ==
    CASE extra = 0 -> <<a, b>>
      [] extra = 1 /\ a # MaxSecond -> <<a + 1, b>>
      [] extra = 1 /\ a = MaxSecond /\ b # MaxSecond -> <<a, b + 1>>
      [] OTHER -> <<>>
Plus(x, y) ==
    LET nsecs == x.nanoseconds + y.nanoseconds
        s == WithExtra(x.seconds, y.seconds, nsecs \div Nano)
    IN  CASE s = <<>> -> MaxTime
          [] s # <<>> /\ s[1] + s[2] \in Second -> T(s[1] + s[2], nsecs % Nano)
          [] OTHER -> IF s[2] > 0 THEN MaxTime ELSE MinTime
\* operator-: ~seconds is -seconds - 1, which always fits.
Minus(x, y) ==
    CASE y.nanoseconds # 0 -> Plus(x, T(-y.seconds - 1, Nano - y.nanoseconds))
      [] y.nanoseconds = 0 /\ y.seconds # MinSecond -> Plus(x, T(-y.seconds, 0))
      [] OTHER -> IF x.seconds >= 0 THEN MaxTime ELSE T(x.seconds - MinSecond, x.nanoseconds)

\* operator<, operator<=, operator>= and operator>, which asks for fewer seconds as operator< does.
SameSecond(x, y, ns) == x.seconds = y.seconds /\ ns
Before(x, y) == x.seconds < y.seconds \/ SameSecond(x, y, x.nanoseconds < y.nanoseconds)
AtMost(x, y) == x.seconds < y.seconds \/ SameSecond(x, y, x.nanoseconds <= y.nanoseconds)
AtLeast(x, y) == x.seconds > y.seconds \/ SameSecond(x, y, x.nanoseconds >= y.nanoseconds)
After(x, y) == x.seconds < y.seconds \/ SameSecond(x, y, x.nanoseconds > y.nanoseconds)

\* Checked<i64>: a step adds a number, or is x++, which leaves a 1 whatever was there and forgets an overflow
\* (Numbers.Count); the bound of its sign if it has overflowed.
PlusPlus == <<>>
Step(c, step) == IF step = PlusPlus THEN [value |-> 1, overflow |-> FALSE]
                 ELSE [value |-> c.value + step[1], overflow |-> c.overflow \/ c.value + step[1] \notin Second]
Bounded(x, steps) ==
    LET c == FoldLeft(Step, [value |-> 0, overflow |-> FALSE], steps)
    IN  IF ~c.overflow THEN c.value ELSE IF x.seconds < 0 THEN MinSecond ELSE MaxSecond
Start(x) == IF x.seconds < 0 THEN x.seconds + 1 ELSE x.seconds
If(b, steps) == IF b THEN steps ELSE <<>>

ToTruncatedSeconds(x) == IF x.seconds < 0 /\ x.nanoseconds # 0 THEN x.seconds + 1 ELSE x.seconds
ToSeconds(x) == IF x.seconds >= 0 /\ x.nanoseconds # 0 THEN Bounded(x, <<<<x.seconds>>, PlusPlus>>) ELSE x.seconds
\* to_truncated_milliseconds and to_truncated_microseconds
ToTruncatedUnits(x, unit) ==
    LET part == Nano \div unit
    IN  Bounded(x, <<<<Start(x) * unit>>, <<x.nanoseconds \div part>>>>
                   \o If(x.seconds < 0 /\ x.nanoseconds % part # 0, <<PlusPlus>>)
                   \o If(x.seconds < 0, <<<<-unit>>>>))
ToMilliseconds(x) ==
    LET part == Nano \div Milli
    IN  Bounded(x, <<<<Start(x) * Milli>>, <<x.nanoseconds \div part>>>>
                   \o If(x.seconds >= 0 /\ x.nanoseconds % part # 0, <<PlusPlus>>)
                   \o If(x.seconds < 0, <<<<-Milli>>>>))
\* The nanoseconds are asked whether they are negative, which they never are.
ToNanoseconds(x) == Bounded(x, <<<<Start(x) * Nano>>, <<x.nanoseconds>>>>)

-----------------------------------------------------------------------------
(* Dates                                                                   *)

\* Mutant: every fourth year.
FourthYear(y) == y % 4 = 0
IsLeapYear(y) == y % 4 = 0 /\ (y % 100 # 0 \/ y % 400 = 0)
DaysInMonth(y, m) ==
    CASE m = 2 -> IF IsLeapYear(y) THEN 29 ELSE 28
      [] m \in {1, 3, 5, 7, 8, 10, 12} -> 31
      [] OTHER -> 30
DayOfYear(y, m, d) ==
    <<0, 31, 59, 90, 120, 151, 181, 212, 243, 273, 304, 334>>[m] + d - 1 + (IF IsLeapYear(y) /\ m >= 3 THEN 1 ELSE 0)
DayOfWeek(year, m, d) ==
    LET y == IF m < 3 THEN year - 1 ELSE year
    IN  (y + Truncated(y, 4) - Truncated(y, 100) + Truncated(y, 400)
           + <<0, 3, 2, 5, 0, 3, 5, 1, 4, 6, 2, 4>>[m] + d) % 7
\* The sum of the days of the years between.
DaysOf(years) == 365 * Cardinality(years) + Cardinality({y \in years : IsLeapYear(y)})
YearsToDaysSinceEpoch(y) == IF y >= 1970 THEN DaysOf(1970 .. y - 1) ELSE -DaysOf(y .. 1969)
DaysSinceEpoch(y, m, d) == YearsToDaysSinceEpoch(y) + DayOfYear(y, m, d)

-----------------------------------------------------------------------------
Idle == [op |-> "none"]
Init == call = Idle
Make ==
    \E s \in Second, raw \in -MaxRaw .. MaxRaw :
        call' = [op |-> "make", seconds |-> s, raw |-> raw,
                 of |-> [unit \in {Nano, Micro, Milli} |-> FromUnits(raw, unit)],
                 timespec |-> FromPair(s, raw, Nano), timeval |-> FromPair(s, raw, Micro),
                 ticks |-> FromTicks(MaxRaw + raw, 2)]
Combine ==
    \E x, y \in Time :
        call' = [op |-> "combine", x |-> x, y |-> y, sum |-> Plus(x, y), difference |-> Minus(x, y),
                 compared |-> <<Before(x, y), AtMost(x, y), AtLeast(x, y), After(x, y)>>]
Measure ==
    \E x \in Time :
        call' = [op |-> "measure", x |-> x,
                 seconds |-> <<ToTruncatedSeconds(x), ToSeconds(x)>>,
                 milliseconds |-> <<ToTruncatedUnits(x, Milli), ToMilliseconds(x)>>,
                 microseconds |-> ToTruncatedUnits(x, Micro),
                 nanoseconds |-> ToNanoseconds(x)]
Date ==
    \E y \in Year, m \in 1 .. 12 :
        call' = [op |-> "date", year |-> y, month |-> m, first |-> DaysSinceEpoch(y, m, 1),
                 length |-> DaysInMonth(y, m), weekday |-> DayOfWeek(y, m, 1),
                 next |-> IF m = 12 THEN DaysSinceEpoch(y + 1, 1, 1) ELSE DaysSinceEpoch(y, m + 1, 1)]
Next == call = Idle /\ (Make \/ Combine \/ Measure \/ Date)
Spec == Init /\ [][Next]_call

-----------------------------------------------------------------------------
(* Properties                                                              *)

Exactly(x) == x.seconds * Nano + x.nanoseconds
\* The time of n nanoseconds, or the one nearest to it.
Nearest(n) == IF n > Exactly(MaxTime) THEN MaxTime ELSE IF n < Exactly(MinTime) THEN MinTime
              ELSE T(n \div Nano, n % Nano)
BoundedBy(n) == IF n > MaxSecond THEN MaxSecond ELSE IF n < MinSecond THEN MinSecond ELSE n
AwayFromZero(n, d) == IF n < 0 THEN -((-n + d - 1) \div d) ELSE (n + d - 1) \div d

\* A time is exactly the number of micro- or milliseconds it was made from, or added up to; where that is
\* out of range, it is the nearest there is, and no step on the way overflows.  It is told in seconds,
\* milliseconds and microseconds, as long as nothing has to be rounded.  What is made of nanoseconds
\* never comes to be: the VERIFY of Time.h:100 stops from_nanoseconds, from_timespec and from_ticks.
TimesExact ==
    /\ call.op = "make" =>
          /\ \A unit \in {Micro, Milli} : Exactly(call.of[unit]) = call.raw * (Nano \div unit)
          /\ call.timeval = Nearest(call.seconds * Nano + call.raw * (Nano \div Micro))
          /\ {call.of[Nano], call.timespec, call.ticks} = {Stops}
    /\ call.op = "combine" =>
          LET x == Exactly(call.x)
              y == Exactly(call.y)
          IN  /\ call.sum = Nearest(x + y) /\ call.difference = Nearest(x - y)
              /\ SubSeq(call.compared, 1, 3) = <<x < y, x <= y, x >= y>>
    /\ call.op = "measure" =>
          LET n == Exactly(call.x)
              Whole(unit) == n % (Nano \div unit) = 0
              In(unit) == BoundedBy(n \div (Nano \div unit))
          IN  /\ call.seconds[1] = Truncated(n, Nano)
              /\ call.x.nanoseconds = 0 => call.seconds[2] = call.x.seconds
              /\ Whole(Milli) => call.milliseconds = <<In(Milli), In(Milli)>>
              /\ Whole(Micro) => call.microseconds = In(Micro)
              /\ call.x.seconds >= 0 => call.nanoseconds = BoundedBy(n)
\* Not so of the code: a time can be made from nanoseconds (Time.h:100 and 141, Time.cpp:33 and 39), operator>
\* is the converse of operator< (Time.cpp:266), to_nanoseconds gives a negative time (Time.cpp:121), and what
\* is rounded is the number next to it: x++ forgets what was counted (Checked.h:93; Time.cpp:66, 82, 95, 107).
MadeFromNanoseconds == call.op = "make" => Stops \notin {call.of[Nano], call.timespec, call.ticks}
GreaterIsGreater == call.op = "combine" => call.compared[4] = (Exactly(call.x) > Exactly(call.y))
NanosecondsExact == call.op = "measure" => call.nanoseconds = BoundedBy(Exactly(call.x))
RoundedExact ==
    call.op = "measure" =>
        LET n == Exactly(call.x)
            part == Nano \div Milli
        IN  /\ call.seconds[2] = BoundedBy(AwayFromZero(n, Nano))
            /\ call.milliseconds = <<BoundedBy(Truncated(n, part)), BoundedBy(AwayFromZero(n, part))>>
            /\ call.microseconds = BoundedBy(Truncated(n, Nano \div Micro))

\* The months follow each other on the calendar: each begins where the one before it ends, on
\* the weekday that follows; 1 January 1970 was a Thursday.
CalendarAgrees ==
    call.op = "date" => /\ call.next = call.first + call.length
                        /\ call.weekday = (call.first + 4) % 7
=============================================================================
