------------------------------ MODULE Numbers ------------------------------
(***************************************************************************)
(* AK/Checked.h, IntegralMath.h, LEB128.h and the integer helpers of       *)
(* StdLibExtras.h, on integers of any width.  A type is a width in bits    *)
(* and a sign; the groups of LEB128 have GroupBits bits (7 in the code)    *)
(* and what is read ValueBits (64).  An action is a call: its arguments    *)
(* and what it returns.                                                    *)
(***************************************************************************)
EXTENDS Integers, Sequences, SequencesExt

CONSTANTS Widths,     \* the widths of the integer types
          GroupBits, ValueBits,
          MaxBytes    \* bound: bytes of an encoded number

VARIABLE call

None == [op |-> "none"]

-----------------------------------------------------------------------------
(* Integer types                                                           *)

Type == [bits : Widths, signed : BOOLEAN]
MinOf(t) == IF t.signed THEN -(2 ^ (t.bits - 1)) ELSE 0
MaxOf(t) == IF t.signed THEN 2 ^ (t.bits - 1) - 1 ELSE 2 ^ t.bits - 1
Values(t) == MinOf(t) .. MaxOf(t)
\* A conversion to the type.
Wrapped(t, n) == ((n - MinOf(t)) % (2 ^ t.bits)) + MinOf(t)
Absolute(n) == IF n < 0 THEN -n ELSE n
Quotient(a, b) == IF (a < 0) = (b < 0) THEN Absolute(a) \div Absolute(b)
                  ELSE -(Absolute(a) \div Absolute(b))

-----------------------------------------------------------------------------
(* Checked                                                                 *)

\* TypeBoundsChecker, by whether the destination is at least as wide, and by the two signs.
\* Mutant: a narrower unsigned destination takes what is below zero.
NoLowerBound(to, from, n) ==
    IF to.bits >= from.bits
    THEN (to.signed \/ ~from.signed \/ n >= 0)
         /\ (to.signed /\ ~from.signed /\ to.bits = from.bits => n <= MaxOf(to))
    ELSE n <= MaxOf(to)
IsWithinRange(to, from, n) ==
    IF to.bits >= from.bits
    THEN CASE to.signed = from.signed -> TRUE
           [] ~to.signed /\ from.signed -> n >= 0
           [] OTHER -> to.bits > from.bits \/ n <= MaxOf(to)
    ELSE CASE ~from.signed -> n <= MaxOf(to)
           [] ~to.signed /\ from.signed -> n >= 0 /\ n <= MaxOf(to)
           [] OTHER -> n <= MaxOf(to) /\ MinOf(to) <= n
Checked(to, from, n) == [value |-> Wrapped(to, n), overflow |-> ~IsWithinRange(to, from, n)]

\* __builtin_add_overflow and its kin: the wrapped result, and whether it was.
Set(t, c, n) == [value |-> Wrapped(t, n), overflow |-> c.overflow \/ n \notin Values(t)]
Add(t, c, n) == Set(t, c, c.value + n)
Sub(t, c, n) == Set(t, c, c.value - n)
Mul(t, c, n) == Set(t, c, c.value * n)
Lost(c) == [c EXCEPT !.overflow = TRUE]
\* Mutant: the smallest number is divided by -1.
DivWraps(t, c, n) == IF n = 0 THEN Lost(c) ELSE [c EXCEPT !.value = Wrapped(t, Quotient(c.value, n))]
Div(t, c, n) ==
    IF n = 0 \/ (t.signed /\ n = -1 /\ c.value = MinOf(t)) THEN Lost(c)
    ELSE [c EXCEPT !.value = Quotient(@, n)]
SaturatingSub(t, c, n) ==
    LET d == Sub(t, c, n)
    IN  [value |-> IF ~d.overflow THEN d.value ELSE IF n <= 0 THEN MaxOf(t) ELSE MinOf(t),
         overflow |-> FALSE]
\* Mutant: which way it went is not looked at.
AlwaysMax(t, c, n) ==
    LET d == Add(t, c, n)
    IN  [value |-> IF d.overflow THEN MaxOf(t) ELSE d.value, overflow |-> FALSE]
SaturatingAdd(t, c, n) ==
    LET d == Add(t, c, n)
    IN  [value |-> IF ~d.overflow THEN d.value ELSE IF n >= 0 THEN MaxOf(t) ELSE MinOf(t),
         overflow |-> FALSE]

Step(t, op, c, n) ==
    CASE op = "add" -> Add(t, c, n) [] op = "sub" -> Sub(t, c, n)
      [] op = "mul" -> Mul(t, c, n) [] op = "div" -> Div(t, c, n)
      [] op = "saturating_add" -> SaturatingAdd(t, c, n)
      [] op = "saturating_sub" -> SaturatingSub(t, c, n)
Steps == {"add", "sub", "mul", "div", "saturating_add", "saturating_sub"}

\* A value of one type is put in a Checked of another: T and U, and operator=.
Convert ==
    \E to, from \in Type : \E n \in Values(from) :
        call' = [op |-> "convert", to |-> to, n |-> n, result |-> Checked(to, from, n)]
\* Two operations, one after the other, as in multiplication_would_overflow.
Compute ==
    \E t \in Type : \E a, b, c \in Values(t), op1, op2 \in Steps :
        call' = [op |-> "compute", type |-> t, args |-> <<a, b, c>>, ops |-> <<op1, op2>>,
                 result |-> Step(t, op2, Step(t, op1, [value |-> a, overflow |-> FALSE], b), c)]
\* ++x and --x; x++ and x-- set aside `old { *this }`, which is the constructor that moves out of what it is
\* given (Checked.h:93): what is left to count up or down is zero.
Zero == [value |-> 0, overflow |-> FALSE]
Count ==
    \E t \in Type, overflow \in BOOLEAN, by \in {"add", "sub"} : \E n \in Values(t) :
        LET c == [value |-> n, overflow |-> overflow]
        IN  call' = [op |-> "count", type |-> t, by |-> by, from |-> c, prefix |-> Step(t, by, c, 1),
                     old |-> c, postfix |-> Step(t, by, Zero, 1)]
\* operator+, operator-, operator*, operator/ of two Checked: "-" adds, as "+" does.
Combine ==
    \E t \in Type : \E a, b \in Values(t), op \in {"+", "-", "*", "/"} :
        LET c == [value |-> a, overflow |-> FALSE]
        IN  call' = [op |-> "combine", type |-> t, args |-> <<a, b>>, sign |-> op,
                     result |-> CASE op \in {"+", "-"} -> Add(t, c, b)
                                  [] op = "*" -> Mul(t, c, b) [] op = "/" -> Div(t, c, b)]

-----------------------------------------------------------------------------
(* IntegralMath and StdLibExtras                                           *)

Unsigned(w) == [bits |-> w, signed |-> FALSE]
LeadingZeroes(w, x) == CHOOSE k \in 0 .. w - 1 : 2 ^ (w - 1 - k) <= x /\ x < 2 ^ (w - k)
Log2(w, x) == IF x = 0 THEN 0 ELSE w - 1 - LeadingZeroes(w, x)
\* pow, by squaring.  Mutant: the last bit of the exponent is not used.
RECURSIVE SquaredDown(_, _, _, _)
SquaredDown(t, res, base, exponent) ==
    IF exponent <= 1 THEN res
    ELSE SquaredDown(t, IF exponent % 2 = 1 THEN Wrapped(t, res * base) ELSE res,
                     Wrapped(t, base * base), exponent \div 2)
RECURSIVE Squared(_, _, _, _)
Squared(t, res, base, exponent) ==
    IF exponent = 0 THEN res
    ELSE Squared(t, IF exponent % 2 = 1 THEN Wrapped(t, res * base) ELSE res,
                 Wrapped(t, base * base), exponent \div 2)
Pow(t, base, exponent) == IF exponent < 0 THEN 0 ELSE Squared(t, 1, base, exponent)

\* (value - 1) & ~(power - 1): the value less one, without its low bits.
RoundUp(t, value, power) == Wrapped(t, (Wrapped(t, value - 1) \div power) * power + power)
CeilDiv(a, b) == (a \div b) + (IF a % b # 0 THEN 1 ELSE 0)

Power ==
    \E t \in Type : \E base, exponent \in Values(t) :
        call' = [op |-> "pow", type |-> t, args |-> <<base, exponent>>, result |-> Pow(t, base, exponent)]
Round ==
    \E w \in Widths : \E value \in Values(Unsigned(w)), k \in 0 .. w - 1 :
        call' = [op |-> "round", width |-> w, args |-> <<value, 2 ^ k>>, log |-> Log2(w, value),
                 result |-> RoundUp(Unsigned(w), value, 2 ^ k), div |-> CeilDiv(value, 2 ^ k)]

-----------------------------------------------------------------------------
(* LEB128                                                                  *)

Byte == 0 .. 2 ^ (GroupBits + 1) - 1
Group(byte) == byte % 2 ^ GroupBits
More(byte) == byte >= 2 ^ GroupBits
Failed == [end |-> "failed"]

\* read_unsigned: whether a group still fits is asked of the group shifted up and down again.
\* Mutant: what is shifted out is not missed.
AnyGroupFits(group, shift) == TRUE
GroupFits(group, shift) == (group * 2 ^ shift) % 2 ^ ValueBits = group * 2 ^ shift
RECURSIVE ReadUnsigned(_, _, _)
ReadUnsigned(bytes, n, result) ==
    LET shift == n * GroupBits
        group == Group(bytes[n + 1])
        sum == result + ((group * 2 ^ shift) % (2 ^ ValueBits))
    IN  IF n = Len(bytes) \/ shift > ValueBits THEN Failed
        ELSE IF ~GroupFits(group, shift) THEN Failed
        ELSE IF More(bytes[n + 1]) THEN ReadUnsigned(bytes, n + 1, sum)
        ELSE [end |-> "read", value |-> sum]

\* read_signed: the loop that extends the sign does not count: it is left at once or never.
Signed == [bits |-> ValueBits, signed |-> TRUE]
NegativeGroup(byte) == Group(byte) >= 2 ^ (GroupBits - 1)
LastShift == (ValueBits \div GroupBits) * GroupBits
RECURSIVE ReadSigned(_, _, _)
ReadSigned(bytes, n, temp) ==
    LET shift == n * GroupBits
        group == Group(bytes[n + 1])
        sum == temp + group * 2 ^ shift
    IN  IF n = Len(bytes) \/ shift >= ValueBits THEN Failed
        ELSE IF shift = LastShift /\ group \notin {0, 2 ^ GroupBits - 1} THEN Failed
        ELSE IF More(bytes[n + 1]) THEN ReadSigned(bytes, n + 1, sum)
        ELSE IF (n + 1) * GroupBits < ValueBits /\ NegativeGroup(bytes[n + 1]) THEN [end |-> "never"]
        ELSE [end |-> "read", value |-> Wrapped(Signed, sum)]

DecodeUnsigned ==
    \E bytes \in BoundedSeq(Byte, MaxBytes) :
        call' = [op |-> "unsigned", bytes |-> bytes, result |-> ReadUnsigned(bytes, 0, 0)]
DecodeSigned ==
    \E bytes \in BoundedSeq(Byte, MaxBytes) :
        call' = [op |-> "signed", bytes |-> bytes, result |-> ReadSigned(bytes, 0, 0)]

-----------------------------------------------------------------------------
Init == call = None
Next == call = None /\ (Convert \/ Compute \/ Count \/ Combine \/ Power \/ Round \/ DecodeUnsigned \/ DecodeSigned)
Spec == Init /\ [][Next]_call

-----------------------------------------------------------------------------
(* Properties                                                              *)

Exact(op, a, b) ==
    CASE op \in {"add", "saturating_add", "+"} -> a + b
      [] op \in {"sub", "saturating_sub", "-"} -> a - b
      [] op \in {"mul", "*"} -> a * b
      [] op \in {"div", "/"} -> Quotient(a, b)
DividesByZero(op, b) == op \in {"div", "/"} /\ b = 0
Saturates(op) == op \in {"saturating_add", "saturating_sub"}
Clamped(t, n) == IF n > MaxOf(t) THEN MaxOf(t) ELSE IF n < MinOf(t) THEN MinOf(t) ELSE n

\* What a Checked holds is what arithmetic without bounds gives, and it says it has overflowed exactly if that
\* was not, at any step, a value of its type; what saturates is the nearest value of the type, and is taken
\* for a bound of it after an overflow, which it forgets.  (Nothing is claimed of the difference of two
\* Checked, nor of what x++ leaves: see below.)
ArithmeticExact ==
    /\ call.op = "convert" =>
          /\ call.result.overflow = (call.n \notin Values(call.to))
          /\ ~call.result.overflow => call.result.value = call.n
    /\ call.op = "combine" /\ call.sign # "-" =>
          LET a == call.args[1]  b == call.args[2]
              fits == ~DividesByZero(call.sign, b) /\ Exact(call.sign, a, b) \in Values(call.type)
          IN  /\ call.result.overflow = ~fits
              /\ fits => call.result.value = Exact(call.sign, a, b)
    /\ call.op = "count" =>
          LET n == Exact(call.by, call.from.value, 1)
          IN  /\ call.old = call.from
              /\ call.prefix.overflow = (call.from.overflow \/ n \notin Values(call.type))
              /\ ~call.prefix.overflow => call.prefix.value = n
    /\ call.op = "compute" =>
          LET t == call.type  a == call.args[1]  b == call.args[2]  c == call.args[3]
              op1 == call.ops[1]  op2 == call.ops[2]
              Fits(op, x, y) == ~DividesByZero(op, y) /\ Exact(op, x, y) \in Values(t)
              first == IF Saturates(op1) THEN Clamped(t, Exact(op1, a, b)) ELSE Exact(op1, a, b)
              known == Saturates(op1) \/ Fits(op1, a, b)
              fits == known /\ Fits(op2, first, c)
          IN  IF Saturates(op2)
              THEN call.result.value \in IF known THEN {Clamped(t, Exact(op2, first, c))} ELSE {MinOf(t), MaxOf(t)}
              ELSE call.result.overflow = ~fits /\ (fits => call.result.value = Exact(op2, first, c))
\* Not so of Checked.h: an overflow is remembered (153-169), x++ and x-- count (93, 215-229), and the difference
\* of two Checked is one (265-269).
OverflowRemembered ==
    call.op = "compute" =>
        LET a == call.args[1]  b == call.args[2]  op == call.ops[1]
        IN  ~Saturates(op) /\ (DividesByZero(op, b) \/ Exact(op, a, b) \notin Values(call.type)) => call.result.overflow
PostfixCounts == call.op = "count" => call.postfix = call.prefix
DifferencesExact ==
    call.op = "combine" /\ call.sign = "-" /\ ~call.result.overflow =>
        call.result.value = Exact("-", call.args[1], call.args[2])

\* A power is the product taken step by step, a rounded value the least multiple at or above
\* (unless it wraps), and a logarithm the greatest power at or below.
PowersExact ==
    /\ call.op = "pow" /\ call.args[2] >= 0 =>
          call.result = IF call.args[2] = 0 THEN 1 ELSE Wrapped(call.type, call.args[1] ^ call.args[2])
    /\ call.op = "round" =>
          LET v == call.args[1]  p == call.args[2]
          IN  /\ v > 0 => (call.result = CeilDiv(v, p) * p \/ CeilDiv(v, p) * p >= 2 ^ call.width)
              /\ v > 0 => 2 ^ call.log <= v /\ v < 2 ^ (call.log + 1)
              /\ p * call.div >= v /\ p * (call.div - 1) < v

\* A number that is read is the one its groups spell, none of its bits lost; a shorter
\* sequence than the code needs is refused.
Spelled(bytes) ==
    LET n == CHOOSE k \in 1 .. Len(bytes) : ~More(bytes[k]) /\ \A j \in 1 .. k - 1 : More(bytes[j])
        sum == FoldLeft(LAMBDA total, k : total + Group(bytes[k]) * 2 ^ ((k - 1) * GroupBits), 0,
                        [k \in 1 .. n |-> k])
    IN  [value |-> sum, negative |-> NegativeGroup(bytes[n]), bits |-> n * GroupBits]
NumbersRead ==
    /\ call.op = "unsigned" =>
          IF call.result.end = "read" THEN call.result.value = Spelled(call.bytes).value
          ELSE (\E k \in DOMAIN call.bytes : ~More(call.bytes[k])) =>
                  \/ Spelled(call.bytes).value >= 2 ^ ValueBits
                  \/ Spelled(call.bytes).bits > ValueBits + GroupBits
    /\ call.op = "signed" /\ call.result.end = "read" =>
          LET s == Spelled(call.bytes)
          IN  call.result.value = IF s.negative THEN s.value - 2 ^ s.bits ELSE s.value
\* Not so of LEB128.h:84-87: reading a signed number ends.
SignedReadsEnd == call.op = "signed" => call.result.end # "never"
=============================================================================
