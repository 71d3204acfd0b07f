---------------------------- MODULE WideIntegers ----------------------------
(***************************************************************************)
(* AK/UFixedBigInt.h: unsigned integers of two halves, each a machine word *)
(* or an integer of two halves itself.  An integer of level k is           *)
(* LimbBits * 2^k bits wide; the word, of level 0, has 64 bits in the code.*)
(* An operation on halves is the one of the level below: where the code    *)
(* uses an operator of the half, the half is a number that wraps.          *)
(***************************************************************************)
EXTENDS Integers, Sequences

CONSTANTS LimbBits,
          Level,   \* the levels of the integers that are called
          Sample,  \* the values that are tried, where they fit
          MaxExponent

VARIABLE call

Bits(k) == LimbBits * 2 ^ k
Modulus(k) == 2 ^ Bits(k)
Wrap(k, n) == n % Modulus(k)
Low(k, n) == n % Modulus(k - 1)
High(k, n) == n \div Modulus(k - 1)
Join(k, low, high) == low + high * Modulus(k - 1)
Bool(b) == IF b THEN 1 ELSE 0
With(sum, carry) == [sum |-> sum, carry |-> carry]

-----------------------------------------------------------------------------
(* Bits                                                                    *)

RECURSIVE Clz(_, _), Ctz(_, _), Popcnt(_, _)
Clz(k, n) ==
    IF k = 0 THEN CHOOSE z \in 0 .. LimbBits : 2 ^ (LimbBits - z) > n /\ (z < LimbBits => 2 ^ (LimbBits - 1 - z) <= n)
    ELSE IF High(k, n) # 0 THEN Clz(k - 1, High(k, n)) ELSE Bits(k - 1) + Clz(k - 1, Low(k, n))
Ctz(k, n) ==
    IF k = 0 THEN CHOOSE z \in 0 .. LimbBits : (n % 2 ^ z = 0) /\ (z < LimbBits => (n \div 2 ^ z) % 2 = 1)
    ELSE IF Low(k, n) # 0 THEN Ctz(k - 1, Low(k, n)) ELSE Bits(k - 1) + Ctz(k - 1, High(k, n))
Popcnt(k, n) ==
    IF k = 0 THEN IF n = 0 THEN 0 ELSE (n % 2) + Popcnt(0, n \div 2)
    ELSE Popcnt(k - 1, Low(k, n)) + Popcnt(k - 1, High(k, n))

Greater(k, a, b) == High(k, a) > High(k, b) \/ (High(k, a) = High(k, b) /\ Low(k, a) > Low(k, b))

ShiftLeft(k, n, s) ==
    LET half == Bits(k - 1)
        overflow == Low(k, n) \div 2 ^ (half - s)
    IN  CASE s >= Bits(k) -> 0
          [] s >= half /\ s < Bits(k) -> Join(k, 0, Wrap(k - 1, Low(k, n) * 2 ^ (s - half)))
          [] s = 0 -> n
          [] OTHER -> Join(k, Wrap(k - 1, Low(k, n) * 2 ^ s), Wrap(k - 1, High(k, n) * 2 ^ s) + overflow)
\* Mutant: what leaves the high half does not come to the low one.
UnderflowLost(k, n, s) == Join(k, Low(k, n) \div 2 ^ s, High(k, n) \div 2 ^ s)
Lowered(k, n, s) ==
    LET underflow == Wrap(k - 1, High(k, n) * 2 ^ (Bits(k - 1) - s))
    IN  Join(k, (Low(k, n) \div 2 ^ s) + underflow, High(k, n) \div 2 ^ s)
ShiftRight(k, n, s) ==
    LET half == Bits(k - 1)
    IN  CASE s >= Bits(k) -> 0
          [] s >= half /\ s < Bits(k) -> High(k, n) \div 2 ^ (s - half)
          [] s = 0 -> n
          [] OTHER -> Lowered(k, n, s)

-----------------------------------------------------------------------------
(* Sums and differences                                                    *)

Overflows(a, b) == a + b >= Modulus(0)
\* addc of two u128.  Mutant: a carry into the high word is not carried on.
CarryStops(a, b, carry) ==
    LET low == Low(1, a) + Low(1, b)
        lowCarry == low >= Modulus(0) \/ Overflows(Wrap(0, low), Bool(carry))
    IN  With(Wrap(1, a + b + Bool(carry)), Overflows(High(1, a), High(1, b)))
AddWords(a, b, carry) ==
    LET lower == Wrap(0, Low(1, a) + Low(1, b))
        higher == Wrap(0, High(1, a) + High(1, b))
        lowCarry == Overflows(Low(1, a), Low(1, b)) \/ Overflows(lower, Bool(carry))
        highCarry == Overflows(High(1, a), High(1, b)) \/ Overflows(higher, Bool(lowCarry))
    IN  With(Join(1, Wrap(0, lower + Bool(carry)), Wrap(0, higher + Bool(lowCarry))), highCarry)
RECURSIVE AddC(_, _, _, _)
AddC(k, a, b, carry) ==
    LET l == AddC(k - 1, Low(k, a), Low(k, b), carry)
        h == AddC(k - 1, High(k, a), High(k, b), l.carry)
    IN  IF k = 1 THEN AddWords(a, b, carry) ELSE With(Join(k, l.sum, h.sum), h.carry)
\* addc of an integer and a word: the carry is added to the low word, not to its sum, to see
\* whether it overflows.
RECURSIVE AddWord(_, _, _, _)
AddWord(k, a, word, carry) ==
    LET lowCarry == Overflows(Low(1, a), word) \/ Overflows(Low(1, a), Bool(carry))
        l == AddWord(k - 1, Low(k, a), word, carry)
        h == AddWord(k - 1, High(k, a), 0, l.carry)
    IN  IF k = 1
        THEN With(Join(1, Wrap(0, Low(1, a) + word + Bool(carry)), Wrap(0, High(1, a) + Bool(lowCarry))),
                  Overflows(High(1, a), Bool(lowCarry)))
        ELSE With(Join(k, l.sum, h.sum), h.carry)
\* subc
SubC(k, a, b, carry) ==
    LET below(x, y, c) == (x = 0 /\ c) \/ Wrap(k - 1, x - Bool(c)) < y
        lowCarry == below(Low(k, a), Low(k, b), carry)
        highCarry == below(High(k, a), High(k, b), lowCarry)
    IN  With(Join(k, Wrap(k - 1, Low(k, a) - Low(k, b) - Bool(carry)),
                     Wrap(k - 1, High(k, a) - High(k, b) - Bool(lowCarry))), highCarry)
Plus(k, a, b) == AddC(k, a, b, FALSE).sum

-----------------------------------------------------------------------------
(* Products, quotients and roots                                           *)

RECURSIVE Product(_, _, _, _)
Product(k, res, that, other) ==
    IF other = 0 THEN res
    ELSE Product(k, IF other % 2 = 1 THEN Plus(k, res, that) ELSE res, ShiftLeft(k, that, 1), other \div 2)
Times(k, a, b) == Product(k, 0, a, b)

\* wide_multiply: an integer of twice the width.  Mutant: one of the products is added twice.
RECURSIVE TwiceLowHigh(_, _, _), WideMultiply(_, _, _)
TwiceLowHigh(k, a, b) == Wrap(k + 1, a * b + Low(k, a) * High(k, b))
WideMultiply(k, a, b) ==
    LET half == Modulus(k - 1)
        ll == WideMultiply(k - 1, Low(k, a), Low(k, b))
        lh == WideMultiply(k - 1, Low(k, a), High(k, b)) * half
        hl == WideMultiply(k - 1, High(k, a), Low(k, b)) * half
        hh == WideMultiply(k - 1, High(k, a), High(k, b)) * half * half
    IN  IF k = 0 THEN a * b ELSE Plus(k + 1, Plus(k + 1, Plus(k + 1, ll, lh), hl), hh)

\* div_mod: the remainder is as wide as the divisor, w bits.
RECURSIVE Divide(_, _, _, _, _, _, _)
Divide(k, w, n, divisor, i, remainder, quotient) ==
    LET r == ((remainder * 2) % 2 ^ w) + (ShiftRight(k, n, i) % 2)
    IN  IF i < 0 THEN [quotient |-> quotient, remainder |-> remainder]
        ELSE IF r >= divisor THEN Divide(k, w, n, divisor, i - 1, r - divisor, quotient + ShiftLeft(k, 1, i))
        ELSE Divide(k, w, n, divisor, i - 1, r, quotient)
DivMod(k, w, n, divisor) ==
    CASE n < divisor -> [quotient |-> 0, remainder |-> n]
      [] n = divisor -> [quotient |-> 1, remainder |-> 0]
      [] divisor = 1 -> [quotient |-> n, remainder |-> 0]
      [] OTHER -> Divide(k, w, n, divisor, Bits(k) - Clz(k, n) - 1, 0, 0)

RECURSIVE Root(_, _, _, _)
Root(k, n, shift, res) ==
    LET candidate == ShiftLeft(k, res, 1) + 1
    IN  IF shift < 0 THEN res
        ELSE Root(k, n, shift - 2,
                  IF ShiftRight(k, n, shift) >= Times(k, candidate, candidate) THEN candidate
                  ELSE candidate - 1)
Sqrt(k, n) == IF n = 1 THEN 1 ELSE Root(k, n, ((Bits(k) - Clz(k, n)) \div 2) * 2, 0)

\* pow: the bits of the exponent are taken from the last to the first but one.
RECURSIVE Ladder(_, _, _, _, _)
Ladder(k, x1, x2, exponent, steps) ==
    IF steps = 0 THEN x1
    ELSE IF exponent % 2 = 1
    THEN Ladder(k, Times(k, x1, x1), Times(k, x2, x1), exponent \div 2, steps - 1)
    ELSE LET x == Times(k, x1, x2) IN Ladder(k, x, Times(k, x2, x2), exponent \div 2, steps - 1)
Log(n) == CHOOSE l \in 0 .. n : 2 ^ l <= n /\ n < 2 ^ (l + 1)
Pow(k, n, exponent) == Ladder(k, n, Times(k, n, n), exponent, Log(exponent))

-----------------------------------------------------------------------------
Fits(k) == {n \in Sample : n < Modulus(k)}
Idle == [op |-> "none"]
Init == call = Idle

Pair ==
    \E k \in Level : \E a, b \in Fits(k), carry \in BOOLEAN :
        call' = [op |-> "pair", level |-> k, args |-> <<a, b>>, carry |-> carry,
                 sum |-> AddC(k, a, b, carry), difference |-> SubC(k, a, b, carry),
                 greater |-> Greater(k, a, b),
                 product |-> Times(k, a, b), wide |-> WideMultiply(k, a, b),
                 division |-> IF b = 0 THEN Idle ELSE DivMod(k, Bits(k), a, b)]
WithWord ==
    \E k \in Level : \E a \in Fits(k), word \in Fits(0), carry \in BOOLEAN :
        call' = [op |-> "word", level |-> k, args |-> <<a, word>>, carry |-> carry,
                 sum |-> AddWord(k, a, word, carry),
                 division |-> IF word = 0 THEN Idle ELSE DivMod(k, LimbBits, a, word)]
Alone ==
    \E k \in Level : \E a \in Fits(k) \ {0} :
        call' = [op |-> "alone", level |-> k, args |-> <<a>>, clz |-> Clz(k, a), ctz |-> Ctz(k, a),
                 popcnt |-> Popcnt(k, a), sqrt |-> Sqrt(k, a),
                 left |-> [s \in 0 .. Bits(k) |-> ShiftLeft(k, a, s)],
                 right |-> [s \in 0 .. Bits(k) |-> ShiftRight(k, a, s)],
                 pow |-> [e \in 1 .. MaxExponent |-> Pow(k, a, e)]]
Next == call = Idle /\ (Pair \/ WithWord \/ Alone)
Spec == Init /\ [][Next]_call

-----------------------------------------------------------------------------
(* Properties                                                              *)

Divides(d, a, b) == a = d.quotient * b + d.remainder /\ d.remainder < b

\* An operation on halves is the operation on the whole, and its carry is the whole's.  With a
\* word that is excepted where a carry comes in too, and the quotient by a word whose first bit
\* is set: the remainder, doubled, does not fit it.
WideExact ==
    LET k == call.level  a == call.args[1]  b == call.args[2]  c == Bool(call.carry)
    IN  /\ call.op = "pair" =>
              /\ call.sum = With(Wrap(k, a + b + c), a + b + c >= Modulus(k))
              /\ call.difference = With(Wrap(k, a - b - c), a - b - c < 0)
              /\ call.greater = (a > b)
              /\ call.product = Wrap(k, a * b) /\ call.wide = a * b
              /\ b # 0 => Divides(call.division, a, b)
        /\ call.op = "word" =>
              /\ ~call.carry \/ b = 0 => call.sum = With(Wrap(k, a + b + c), a + b + c >= Modulus(k))
              /\ b # 0 /\ b < 2 ^ (LimbBits - 1) => Divides(call.division, a, b)

\* Not so of UFixedBigInt.h:328, which asks of m_low and not of its sum with the word, and of 481-510: a carry that
\* comes in with a word is added, and any word divides.
WordsExact ==
    LET k == call.level  a == call.args[1]  b == call.args[2]  c == Bool(call.carry)
    IN  call.op = "word" =>
            /\ call.sum = With(Wrap(k, a + b + c), a + b + c >= Modulus(k))
            /\ b # 0 => Divides(call.division, a, b)

\* Shifts bring across the halves what leaves one of them; counts and roots are the whole's.
BitsExact ==
    LET k == call.level  a == call.args[1]
    IN  call.op = "alone" =>
            /\ \A s \in 0 .. Bits(k) : /\ call.left[s] = Wrap(k, a * 2 ^ s)
                                       /\ call.right[s] = a \div 2 ^ s
            /\ 2 ^ (Bits(k) - 1 - call.clz) <= a /\ a < 2 ^ (Bits(k) - call.clz)
            /\ a % 2 ^ call.ctz = 0 /\ (a \div 2 ^ call.ctz) % 2 = 1
            /\ call.popcnt = Popcnt(0, a)
            /\ call.sqrt * call.sqrt <= a /\ a < (call.sqrt + 1) * (call.sqrt + 1)

\* UFixedBigInt.h:662: "Montgomery's Ladder Technique", the power by squaring.
PowIsPower ==
    call.op = "alone" =>
        \A e \in 1 .. MaxExponent : call.pow[e] = Wrap(call.level, call.args[1] ^ e)
=============================================================================
