------------------------------- MODULE Doubles --------------------------------
(***************************************************************************)
(* Double cell arithmetic where the platform has no integer of that width  *)
(* (FICL_PLATFORM_HAS_2INTEGER 0, every 64 bit platform).                  *)
(* Source: double.c, between the #else and the end.                        *)
(*                                                                         *)
(* A double is a pair of cells.  A cell is its unsigned value; where the   *)
(* code reads it as a ficlInteger it is Signed.  Signed arithmetic wraps,  *)
(* as the compilers ficl is built with let it.                             *)
(***************************************************************************)
EXTENDS Powers

CONSTANT Bits  \* FICL_BITS_PER_CELL

DoublesAssumption == Bits \in Nat /\ Bits >= 2 /\ Bits % 2 = 0

Span == Pow2[Bits]
HighBit == Pow2[Bits - 1]

CellValues == 0..(Span - 1)
Double == [high : CellValues, low : CellValues]

Wrap(n) == n % Span
Signed(u) == IF u >= HighBit THEN u - Span ELSE u
Minus(u) == Wrap(- u)
HasHighBit(u) == u >= HighBit

Pair(high, low) == [high |-> high, low |-> low]
Zero == Pair(0, 0)
One == Pair(0, 1)

(* FICL_INTEGER_TO_2INTEGER *)
Extended(u) == Pair(IF HasHighBit(u) THEN Span - 1 ELSE 0, u)

IsNegative(x) == HasHighBit(x.high)

Negate(x) ==
  LET low == Wrap(Span - x.low)
  IN  Pair(Wrap(Span - 1 - x.high + (IF low = 0 THEN 1 ELSE 0)), low)

(* Mutant of Add: two low halves that both have the high bit carry not.    *)
AddHalfCarry(x, y) ==
  LET low == Wrap(x.low + y.low)
      carry == (HasHighBit(x.low) \/ HasHighBit(y.low)) /\ ~ HasHighBit(low)
  IN  Pair(Wrap(x.high + y.high + (IF carry THEN 1 ELSE 0)), low)

Add(x, y) ==
  LET low == Wrap(x.low + y.low)
      carry == \/ (HasHighBit(x.low) \/ HasHighBit(y.low)) /\ ~ HasHighBit(low)
               \/ HasHighBit(x.low) /\ HasHighBit(y.low)
  IN  Pair(Wrap(x.high + y.high + (IF carry THEN 1 ELSE 0)), low)

Subtract(x, y) ==
  Pair(Wrap(x.high - y.high - (IF x.low < y.low THEN 1 ELSE 0)), Wrap(x.low - y.low))

ShiftLeft(x) ==
  Pair(Wrap(2 * x.high) + (IF HasHighBit(x.low) THEN 1 ELSE 0), Wrap(2 * x.low))

ShiftRight(x) ==
  Pair(x.high \div 2, (x.low \div 2) + (IF x.high % 2 = 1 THEN HighBit ELSE 0))

(* The bits of either, from the highest on. *)
BitOr(a, b) ==
  LET Bit(i) == IF (a \div Pow2[Bits - i]) % 2 = 1 \/ (b \div Pow2[Bits - i]) % 2 = 1 THEN 1 ELSE 0
      bits[i \in 0..Bits] == IF i = 0 THEN 0 ELSE 2 * bits[i - 1] + Bit(i)
  IN  bits[Bits]

DoubleOr(x, y) == Pair(BitOr(x.high, y.high), BitOr(x.low, y.low))

(* ficl2UnsignedCompare(x, y) < 0 *)
Below(x, y) == x.high < y.high \/ (x.high = y.high /\ x.low < y.low)

(* A loop is as many rounds as a cell or a double has bits, of which those *)
(* after its end change nothing.                                           *)
ShiftRound(r) ==
  IF r.x = 0 THEN r
  ELSE [x |-> r.x \div 2, addend |-> ShiftLeft(r.addend),
        result |-> IF r.x % 2 = 1 THEN Add(r.result, r.addend) ELSE r.result]

Multiply(x, y) ==
  LET rounds[i \in 0..Bits] ==
        IF i = 0 THEN [x |-> x, addend |-> Pair(0, y), result |-> Zero]
        ELSE ShiftRound(rounds[i - 1])
  IN  rounds[Bits].result

MultiplyAccumulate(u, mul, add) ==
  LET lo == Multiply(u.low, mul)
      hi == Multiply(u.high, mul)
      low == Wrap(lo.low + add)
  IN  Pair(Wrap(lo.high + hi.low + (IF low < lo.low THEN 1 ELSE 0)), low)

SignedMultiply(x, y) ==
  LET magnitude(u) == IF HasHighBit(u) THEN Minus(u) ELSE u
      product == Multiply(magnitude(x), magnitude(y))
  IN  IF HasHighBit(x) = HasHighBit(y) THEN product ELSE Negate(product)

(* The first loop of the division, which ends because y is not zero.       *)
ScaleRound(q, by) ==
  IF Below(by.subtrahend, q) /\ ~ HasHighBit(by.subtrahend.high)
  THEN [mask |-> ShiftLeft(by.mask), subtrahend |-> ShiftLeft(by.subtrahend)]
  ELSE by

Scaled(q, y) ==
  LET rounds[i \in 0..(2 * Bits)] ==
        IF i = 0 THEN [mask |-> One, subtrahend |-> Pair(0, y)]
        ELSE ScaleRound(q, rounds[i - 1])
  IN  rounds[2 * Bits]

(* The second, as long as there is a mask. *)
ReduceRound(r) ==
  IF r.mask = Zero THEN r
  ELSE LET less == Below(r.q, r.subtrahend)
       IN  [mask |-> ShiftRight(r.mask), subtrahend |-> ShiftRight(r.subtrahend),
            q |-> IF less THEN r.q ELSE Subtract(r.q, r.subtrahend),
            quotient |-> IF less THEN r.quotient ELSE DoubleOr(r.quotient, r.mask)]

Reduced(q, by) ==
  LET rounds[i \in 0..(2 * Bits)] ==
        IF i = 0 THEN [mask |-> by.mask, subtrahend |-> by.subtrahend, q |-> q, quotient |-> Zero]
        ELSE ReduceRound(rounds[i - 1])
  IN  [quotient |-> rounds[2 * Bits].quotient, remainder |-> rounds[2 * Bits].q.low]

(* Mutant of Divide: the divisor is not brought up to the dividend.        *)
DivideUnscaled(q, y) == Reduced(q, [mask |-> One, subtrahend |-> Pair(0, y)])

Divide(q, y) == Reduced(q, Scaled(q, y))

(* The borrow is taken when the low cell is INT_MIN, which in a wider cell *)
(* is the negative number of that value, not when it is zero.              *)
IntMin == Minus(Pow2[(Bits \div 2) - 1])

Decrement(x) ==
  Pair(IF x.low = IntMin THEN Wrap(x.high - 1) ELSE x.high, Wrap(x.low - 1))

(* What the two signed divisions begin with: magnitudes.                   *)
Magnitudes(num, den) ==
  Divide(IF IsNegative(num) THEN Negate(num) ELSE num,
         IF HasHighBit(den) THEN Minus(den) ELSE den)

(* Mutant of DivideFloored: the remainder is left as the magnitude.        *)
DivideFlooredSymmetric(num, den) ==
  LET qr == Magnitudes(num, den)
      opposite == IsNegative(num) # HasHighBit(den)
  IN  [quotient |-> IF opposite THEN Negate(qr.quotient) ELSE qr.quotient,
       remainder |-> IF HasHighBit(den) THEN Minus(qr.remainder) ELSE qr.remainder]

DivideFloored(num, den) ==
  LET qr == Magnitudes(num, den)
      magnitude == IF HasHighBit(den) THEN Minus(den) ELSE den
      opposite == IsNegative(num) # HasHighBit(den)
      uneven == opposite /\ qr.remainder # 0
      remainder == IF uneven THEN Wrap(magnitude - qr.remainder) ELSE qr.remainder
  IN  [quotient |-> IF uneven THEN Decrement(Negate(qr.quotient))
                    ELSE IF opposite THEN Negate(qr.quotient) ELSE qr.quotient,
       remainder |-> IF HasHighBit(den) THEN Minus(remainder) ELSE remainder]

(* Mutant of DivideSymmetric: the remainder has the sign of the divisor.   *)
DivideSymmetricOther(num, den) ==
  LET qr == Magnitudes(num, den)
  IN  [quotient |-> IF IsNegative(num) # HasHighBit(den) THEN Negate(qr.quotient)
                    ELSE qr.quotient,
       remainder |-> IF HasHighBit(den) THEN Minus(qr.remainder) ELSE qr.remainder]

DivideSymmetric(num, den) ==
  LET qr == Magnitudes(num, den)
  IN  [quotient |-> IF IsNegative(num) # HasHighBit(den) THEN Negate(qr.quotient)
                    ELSE qr.quotient,
       remainder |-> IF IsNegative(num) THEN Minus(qr.remainder) ELSE qr.remainder]
===============================================================================
