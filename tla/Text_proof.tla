------------------------------- MODULE Text_proof -------------------------------
(***************************************************************************)
(* Theorems about the programs of MCSequential that write and read text,   *)
(* for every value of the constants.  Numbers stands in MCSequential as an *)
(* instance.                                                               *)
(***************************************************************************)
EXTENDS MCSequential_proof

(* Numbers and Arithmetic have the same doubles. *)
LEMMA NumberDoubles ==
  /\ N!Span = A!Span /\ N!CellValues = A!CellValues /\ N!Double = A!Double
  /\ N!Zero = A!Zero /\ N!HighBit = A!HighBit /\ N!Pow2 = A!Pow2
BY DEF N!Span, A!Span, N!CellValues, A!CellValues, N!Double, A!Double, N!Zero, A!Zero,
       N!Pair, A!Pair, N!HighBit, A!HighBit, N!Pow2, A!Pow2

LEMMA NumberCells ==
  ASSUME NEW u
  PROVE  /\ N!HasHighBit(u) = A!HasHighBit(u) /\ N!Wrap(u) = A!Wrap(u)
         /\ N!Minus(u) = A!Minus(u) /\ N!Extended(u) = A!Extended(u)
         /\ N!IsNegative(u) = A!IsNegative(u) /\ N!Negate(u) = A!Negate(u)
         /\ N!Natural(u) = A!Natural(u)
         /\ \A v : N!Pair(u, v) = A!Pair(u, v)
BY DEF N!HasHighBit, A!HasHighBit, N!Wrap, A!Wrap, N!Minus, A!Minus, N!Extended, A!Extended,
       N!IsNegative, A!IsNegative, N!Negate, A!Negate, N!Natural, A!Natural, N!Pair, A!Pair,
       N!Span, A!Span, N!HighBit, A!HighBit, N!Pow2, A!Pow2

LEMMA NumberDivide == ASSUME NEW q, NEW y PROVE N!Divide(q, y) = A!Divide(q, y)
BY DEF N!Divide, A!Divide, N!Reduced, A!Reduced, N!Scaled, A!Scaled, N!ScaleRound,
       A!ScaleRound, N!ReduceRound, A!ReduceRound, N!Below, A!Below, N!HasHighBit, A!HasHighBit,
       N!ShiftLeft, A!ShiftLeft, N!ShiftRight, A!ShiftRight, N!Subtract, A!Subtract,
       N!DoubleOr, A!DoubleOr, N!BitOr, A!BitOr, N!Pair, A!Pair, N!Zero, A!Zero, N!One, A!One,
       N!Wrap, A!Wrap, N!Span, A!Span, N!HighBit, A!HighBit, N!Pow2, A!Pow2

LEMMA NumberAccumulate ==
  ASSUME NEW u, NEW m, NEW d PROVE N!MultiplyAccumulate(u, m, d) = A!MultiplyAccumulate(u, m, d)
BY DEF N!MultiplyAccumulate, A!MultiplyAccumulate, N!Multiply, A!Multiply, N!ShiftRound,
       A!ShiftRound, N!ShiftLeft, A!ShiftLeft, N!Add, A!Add, N!Pair, A!Pair, N!Zero, A!Zero,
       N!HasHighBit, A!HasHighBit,
       N!Wrap, A!Wrap, N!Span, A!Span, N!HighBit, A!HighBit, N!Pow2, A!Pow2

(* A double shows the numbers that it is modulo the width of a double.     *)
Shows(x, m) == x \in A!Double /\ \E q \in Int : m = q * Square + A!Natural(x)

LEMMA ShowsOnce ==
  ASSUME NEW m \in Int, NEW x, NEW y, Shows(x, m), Shows(y, m)
  PROVE  x = y
<1>1. x \in A!Double /\ y \in A!Double
  BY DEF Shows
<1>2. PICK p \in Int : m = p * Square + A!Natural(x)
  BY DEF Shows
<1>3. PICK q \in Int : m = q * Square + A!Natural(y)
  BY DEF Shows
<1>4. /\ Square \in Nat \ {0} /\ A!Natural(x) \in 0..Square - 1
      /\ A!Natural(y) \in 0..Square - 1
  BY <1>1, SquareFacts, DoubleFacts
<1>5. A!Natural(x) = A!Natural(y)
  BY <1>2, <1>3, <1>4, Uniquely
<1> QED BY <1>1, <1>5, NaturalOnce

LEMMA ShowsNatural ==
  ASSUME NEW x \in A!Double
  PROVE  A!Natural(x) \in Nat /\ Shows(x, A!Natural(x))
<1>1. Square \in Nat \ {0} /\ A!Natural(x) \in 0..Square - 1
  BY SquareFacts, DoubleFacts
<1>2. PICK zero \in Int : zero = 0
  OBVIOUS
<1>3. A!Natural(x) = zero * Square + A!Natural(x)
  BY <1>1, <1>2
<1>4. \E q \in Int : A!Natural(x) = q * Square + A!Natural(x)
  BY <1>3
<1>5. A!Natural(x) \in Nat
  BY <1>1
<1> QED BY <1>4, <1>5 DEF Shows

LEMMA ShowsNegate ==
  ASSUME NEW m \in Int, NEW x, Shows(x, m)
  PROVE  Shows(A!Negate(x), - m)
<1>1. x \in A!Double
  BY DEF Shows
<1>2. PICK q \in Int : m = q * Square + A!Natural(x)
  BY DEF Shows
<1>3. Square \in Nat \ {0} /\ A!Natural(x) \in 0..Square - 1
  BY <1>1, SquareFacts, DoubleFacts
<1>4. /\ A!Negate(x) \in A!Double
      /\ A!Natural(A!Negate(x)) = IF A!Natural(x) = 0 THEN 0 ELSE Square - A!Natural(x)
  BY <1>1, NegateIs
<1>5. CASE A!Natural(x) = 0
  <2>1. - m = (- q) * Square + A!Natural(A!Negate(x))
    BY <1>2, <1>3, <1>4, <1>5
  <2>2. - q \in Int
    OBVIOUS
  <2> QED BY <1>4, <2>1, <2>2 DEF Shows
<1>6. CASE A!Natural(x) # 0
  <2>1. - m = (- q - 1) * Square + A!Natural(A!Negate(x))
    BY <1>2, <1>3, <1>4, <1>6
  <2>2. - q - 1 \in Int
    OBVIOUS
  <2> QED BY <1>4, <2>1, <2>2 DEF Shows
<1> QED BY <1>5, <1>6

LEMMA ShowsPair ==
  ASSUME NEW m \in Int
  PROVE  Shows(A!Pair((m \div A!Span) % A!Span, m % A!Span), m)
<1>1. PICK q \in Int, low \in 0..A!Span - 1 :
        q = m \div A!Span /\ low = m % A!Span /\ m = q * A!Span + low
  BY DivMod, SpanNat
<1>2. PICK p \in Int, high \in 0..A!Span - 1 :
        high = q % A!Span /\ q = p * A!Span + high
  BY DivMod, SpanNat
<1>3. /\ A!Pair(high, low) \in A!Double
      /\ A!Natural(A!Pair(high, low)) = high * A!Span + low
  BY PairFacts, CellsAre
<1>4. m = p * Square + A!Natural(A!Pair(high, low))
  <2>1. (p * A!Span + high) * A!Span = p * (A!Span * A!Span) + high * A!Span
    BY SpanNat
  <2> HIDE DEF Square
  <2>2. Square = A!Span * A!Span
    BY DEF Square
  <2>3. PICK a \in Int : a = p * Square
    BY SquareFacts
  <2>4. PICK b \in Int : b = high * A!Span
    BY SpanNat
  <2> QED BY <1>1, <1>2, <1>3, <2>1, <2>2, <2>3, <2>4
<1>5. A!Pair((m \div A!Span) % A!Span, m % A!Span) = A!Pair(high, low)
  BY <1>1, <1>2
<1> QED BY <1>3, <1>4, <1>5 DEF Shows

(* ficl2IntegerMultiplyAccumulate                                          *)
LEMMA ShowsAccumulate ==
  ASSUME NEW m \in Int, NEW x, Shows(x, m), NEW mul \in A!CellValues, NEW add \in A!CellValues
  PROVE  Shows(A!MultiplyAccumulate(x, mul, add), m * mul + add)
<1> DEFINE lo == A!Multiply(x.low, mul)
           hi == A!Multiply(x.high, mul)
           low == A!Wrap(lo.low + add)
           carry == IF low < lo.low THEN 1 ELSE 0
           high == A!Wrap(lo.high + hi.low + carry)
<1>1. x \in A!Double
  BY DEF Shows
<1>2. /\ x.low \in A!CellValues /\ x.high \in A!CellValues
      /\ A!Natural(x) = x.high * A!Span + x.low
  BY <1>1, DoubleFacts, CellsAre
<1>3. lo \in A!Double /\ A!Natural(lo) = x.low * mul
  BY <1>2, MultiplyIs
<1>4. hi \in A!Double /\ A!Natural(hi) = x.high * mul
  BY <1>2, MultiplyIs
<1>5. A!MultiplyAccumulate(x, mul, add) = A!Pair(high, low)
  BY DEF A!MultiplyAccumulate
<1> HIDE DEF lo, hi
<1>6. /\ lo.low \in 0..A!Span - 1 /\ lo.high \in 0..A!Span - 1
      /\ A!Natural(lo) = lo.high * A!Span + lo.low
  BY <1>3, DoubleFacts
<1>7. /\ hi.low \in 0..A!Span - 1 /\ hi.high \in 0..A!Span - 1
      /\ A!Natural(hi) = hi.high * A!Span + hi.low
  BY <1>4, DoubleFacts
<1>8. add \in 0..A!Span - 1 /\ mul \in 0..A!Span - 1 /\ A!Span \in Nat \ {0}
  BY CellsAre, SpanNat
<1>9. low \in A!CellValues /\ lo.low + add = carry * A!Span + low
  <2>1. CASE lo.low + add < A!Span
    <3>1. lo.low + add \in A!CellValues
      BY <1>6, <1>8, <2>1, CellsAre
    <3>2. low = lo.low + add
      BY <3>1, WrapSmall
    <3>3. carry = 0
      BY <1>6, <1>8, <3>2
    <3> HIDE DEF carry, low
    <3> QED BY <1>6, <1>8, <3>1, <3>2, <3>3
  <2>2. CASE ~ (lo.low + add < A!Span)
    <3>0. PICK n \in Int : n = lo.low + add
      BY <1>6, <1>8
    <3>1. n - A!Span \in A!CellValues
      BY <1>6, <1>8, <2>2, <3>0, CellsAre
    <3>4. A!Wrap(n) = n - A!Span
      BY <3>1, WrapOver
    <3>2. low = lo.low + add - A!Span
      <4>1. A!Wrap(lo.low + add) = A!Wrap(n)
        BY <3>0
      <4> QED BY <1>6, <1>8, <3>0, <3>4, <4>1
    <3>3. carry = 1
      BY <1>6, <1>8, <3>2
    <3> HIDE DEF carry, low
    <3> QED BY <1>6, <1>8, <3>0, <3>1, <3>2, <3>3
  <2> QED BY <2>1, <2>2
<1>10. carry \in {0, 1}
  OBVIOUS
<1> HIDE DEF low, carry
<1>11. lo.high + hi.low + carry \in Int
  BY <1>6, <1>7, <1>10
<1>12. high \in A!CellValues /\ \E c \in Int : lo.high + hi.low + carry = c * A!Span + high
  BY <1>11, WrapSome
<1>13. PICK c \in Int : lo.high + hi.low + carry = c * A!Span + high
  BY <1>12
<1> HIDE DEF high
<1>14. /\ A!Pair(high, low) \in A!Double
       /\ A!Natural(A!Pair(high, low)) = high * A!Span + low
  BY <1>9, <1>12, PairFacts
<1>15. PICK q \in Int : m = q * Square + A!Natural(x)
  BY DEF Shows
<1>16. high \in Int /\ low \in Int
  BY <1>9, <1>12, CellsAre, SpanNat
<1>17. PICK hh \in Int, hl \in Int, ll \in Int, lh \in Int, xh \in Int, xl \in Int,
            s \in Int, mu \in Int :
         /\ hh = hi.high /\ hl = hi.low /\ ll = lo.low /\ lh = lo.high
         /\ xh = x.high /\ xl = x.low /\ s = A!Span /\ mu = mul
  <2>1. /\ hi.high \in Int /\ hi.low \in Int /\ lo.low \in Int /\ lo.high \in Int
        /\ A!Span \in Int /\ mul \in Int
    BY <1>6, <1>7, <1>8
  <2>2. x.high \in Int /\ x.low \in Int
    BY <1>2, CellsAre, SpanNat
  <2> QED BY <2>1, <2>2
<1>18. A!Natural(x) * mul + add = (hh + c) * Square + (high * A!Span + low)
  <2>1. A!Natural(x) * mul = (xh * mu) * s + xl * mu
    <3>1. (xh * s + xl) * mu = (xh * mu) * s + xl * mu
      OBVIOUS
    <3> QED BY <1>2, <1>17, <3>1
  <2>2. xh * mu = hh * s + hl /\ xl * mu = lh * s + ll
    BY <1>3, <1>4, <1>6, <1>7, <1>17
  <2>3. A!Natural(x) * mul = (hh * s + hl) * s + (lh * s + ll)
    BY <2>1, <2>2
  <2>4. lh + hl + carry = c * s + high /\ ll + add = carry * s + low
    BY <1>9, <1>13, <1>17
  <2>5. PICK ca \in Int, ad \in Int, h \in Int, l \in Int :
          ca = carry /\ ad = add /\ h = high /\ l = low
    BY <1>8, <1>10, <1>16
  <2>6. (hh * s + hl) * s + (lh * s + ll) + ad = (hh + c) * (s * s) + (h * s + l)
    <3>1. lh + hl + ca = c * s + h /\ ll + ad = ca * s + l
      BY <2>4, <2>5
    <3>2. lh = c * s + h - hl - ca /\ ll = ca * s + l - ad
      BY <3>1
    <3>3. (lh * s) = (c * s + h - hl - ca) * s
      BY <3>2
    <3>4. (c * s + h - hl - ca) * s = c * (s * s) + h * s - hl * s - ca * s
      OBVIOUS
    <3>5. (hh * s + hl) * s = hh * (s * s) + hl * s
      OBVIOUS
    <3>6. (hh + c) * (s * s) = hh * (s * s) + c * (s * s)
      OBVIOUS
    <3> DEFINE a1 == (hh * s + hl) * s
               a2 == hh * (s * s)
               a3 == c * (s * s)
               a4 == h * s
               a5 == hl * s
               a6 == ca * s
               a7 == lh * s
               a8 == (hh + c) * (s * s)
    <3>7. /\ a1 = a2 + a5 /\ a7 = a3 + a4 - a5 - a6 /\ a8 = a2 + a3
          /\ ll = a6 + l - ad
      BY <3>2, <3>3, <3>4, <3>5, <3>6
    <3>8. /\ a1 \in Int /\ a2 \in Int /\ a3 \in Int /\ a4 \in Int /\ a5 \in Int
          /\ a6 \in Int /\ a7 \in Int /\ a8 \in Int
      OBVIOUS
    <3>9. a1 + (a7 + ll) + ad = a8 + (a4 + l)
      <4> HIDE DEF a1, a2, a3, a4, a5, a6, a7, a8
      <4> QED BY <3>7, <3>8
    <3> QED BY <3>9
  <2> QED BY <2>3, <2>5, <2>6, <1>17 DEF Square
<1>19. PICK n \in Int, ad \in Int, v \in Int, sq \in Int :
         /\ n = A!Natural(x) /\ ad = add /\ v = high * A!Span + low /\ sq = Square
  <2>1. A!Natural(x) \in Int /\ Square \in Int /\ high * A!Span + low \in Int
    BY <1>1, <1>8, <1>16, DoubleFacts, SquareFacts
  <2> QED BY <1>8, <2>1
<1>20. m * mul + add = (q * mul + hh + c) * Square + (high * A!Span + low)
  <2>1. n * mu + ad = (hh + c) * sq + v
    BY <1>17, <1>18, <1>19
  <2>2. m = q * sq + n
    BY <1>15, <1>19
  <2>3. m * mu + ad = (q * mu) * sq + (n * mu + ad)
    BY <2>2
  <2>4. m * mu + ad = (q * mu + hh + c) * sq + v
    <3>1. (q * mu + hh + c) * sq = (q * mu) * sq + (hh + c) * sq
      OBVIOUS
    <3> DEFINE b1 == (q * mu) * sq
               b2 == (hh + c) * sq
               b3 == n * mu
               b4 == m * mu
               b5 == (q * mu + hh + c) * sq
    <3>2. b4 + ad = b1 + (b3 + ad) /\ b3 + ad = b2 + v /\ b5 = b1 + b2
      BY <2>1, <2>3, <3>1
    <3>3. b1 \in Int /\ b2 \in Int /\ b3 \in Int /\ b4 \in Int /\ b5 \in Int
      OBVIOUS
    <3>4. b4 + ad = b5 + v
      <4> HIDE DEF b1, b2, b3, b4, b5
      <4> QED BY <3>2, <3>3
    <3> QED BY <3>4
  <2> QED BY <1>17, <1>19, <2>4
<1>21. q * mul + hh + c \in Int
  BY <1>8
<1> QED BY <1>5, <1>14, <1>20, <1>21 DEF Shows

(* The number n with one more character behind it.                         *)
Take(n, d, radix) == IF d \in N!Digits THEN n * radix + d ELSE n

MeaningBy(n, t, radix, f) ==
  f = [i \in 0..Len(t) |-> IF i = 0 THEN n
                           ELSE IF t[i] \in N!Digits THEN f[i - 1] * radix + t[i] ELSE f[i - 1]]

MeansBy(n, t, radix, f) ==
  /\ f \in [0..Len(t) -> Int] /\ f[0] = n
  /\ \A i \in 1..Len(t) : f[i] = Take(f[i - 1], t[i], radix)

LEMMA TakeInt == ASSUME NEW n \in Int, NEW d, NEW radix \in Int PROVE Take(n, d, radix) \in Int
<1>1. d \in N!Digits => d \in Int
  BY DEF N!Digits
<1>2. n * radix \in Int
  OBVIOUS
<1> QED BY <1>1, <1>2 DEF Take

LEMMA MeansSome ==
  ASSUME NEW n \in Int, NEW radix \in Int, NEW S, NEW t \in Seq(S)
  PROVE  \E f : MeansBy(n, t, radix, f) /\ N!Meaning(n, t, radix) = f[Len(t)]
<1> DEFINE step == [i \in Nat |-> [r \in Int |-> Take(r, t[i], radix)]]
           F == CHOOSE f : MeaningBy(n, t, radix, f)
<1>1. step \in [Nat -> [Int -> Int]]
  BY TakeInt
<1>2. Len(t) \in Nat
  OBVIOUS
<1> HIDE DEF step
<1>3. PICK g \in [Nat -> Int] : Follows(g, n, step)
  BY <1>1, Recursion
<1> DEFINE h == [i \in 0..Len(t) |-> g[i]]
<1>4. h \in [0..Len(t) -> Int] /\ \A i \in 0..Len(t) : h[i] = g[i]
  BY <1>2, <1>3
<1>5. ASSUME NEW i \in 1..Len(t) PROVE h[i] = Take(h[i - 1], t[i], radix)
  <2>1. i \in Nat \ {0} /\ i - 1 \in 0..Len(t) /\ i \in 0..Len(t) /\ g[i - 1] \in Int
    BY <1>2, <1>3
  <2>2. step[i][g[i - 1]] = Take(g[i - 1], t[i], radix)
    BY <2>1 DEF step
  <2>3. g[i] = step[i][g[i - 1]]
    BY <1>3, <2>1 DEF Follows
  <2> QED BY <1>4, <2>1, <2>2, <2>3
<1>6. h[0] = n
  BY <1>2, <1>3, <1>4 DEF Follows
<1> HIDE DEF h
<1>7. h = [i \in 0..Len(t) |-> IF i = 0 THEN n
             ELSE IF t[i] \in N!Digits THEN h[i - 1] * radix + t[i] ELSE h[i - 1]]
  <2>1. ASSUME NEW i \in 0..Len(t)
        PROVE  h[i] = IF i = 0 THEN n
                      ELSE IF t[i] \in N!Digits THEN h[i - 1] * radix + t[i] ELSE h[i - 1]
    <3>1. CASE i = 0
      BY <1>6, <3>1
    <3>2. CASE i # 0
      <4>1. i \in 1..Len(t)
        BY <1>2, <3>2
      <4> QED BY <1>5, <3>2, <4>1 DEF Take
    <3> QED BY <3>1, <3>2
  <2> QED BY <1>4, <2>1
<1>8. MeaningBy(n, t, radix, h)
  BY <1>7 DEF MeaningBy
<1>9. MeaningBy(n, t, radix, F)
  BY <1>8
<1>10. N!Meaning(n, t, radix) = F[Len(t)]
  BY Zenon DEF N!Meaning, MeaningBy
<1> HIDE DEF F
<1>11. F = [i \in 0..Len(t) |-> IF i = 0 THEN n
              ELSE IF t[i] \in N!Digits THEN F[i - 1] * radix + t[i] ELSE F[i - 1]]
  BY <1>9 DEF MeaningBy
<1>12. F[0] = n
  BY <1>2, <1>11
<1>13. ASSUME NEW i \in 1..Len(t) PROVE F[i] = Take(F[i - 1], t[i], radix)
  <2>1. i \in 0..Len(t) /\ i # 0
    BY <1>2
  <2> QED BY <1>11, <2>1 DEF Take
<1>14. F \in [0..Len(t) -> Int]
  <2> DEFINE Ints == {i \in 0..Len(t) : F[i] \in Int}
  <2>1. 0 \in Ints
    BY <1>2, <1>12
  <2>2. ASSUME NEW i \in 1..Len(t), i - 1 \in Ints PROVE i \in Ints
    BY <1>2, <1>13, <2>2, TakeInt
  <2> HIDE DEF Ints
  <2>3. \A i \in 0..Len(t) : i \in Ints
    BY <1>2, <2>1, <2>2, UpTo
  <2> QED BY <1>11, <2>3 DEF Ints
<1>15. MeansBy(n, t, radix, F)
  BY <1>12, <1>13, <1>14 DEF MeansBy
<1> QED BY <1>10, <1>15

LEMMA MeansOnce ==
  ASSUME NEW n, NEW radix, NEW S, NEW t \in Seq(S), NEW f, NEW g,
         MeansBy(n, t, radix, f), MeansBy(n, t, radix, g)
  PROVE  \A i \in 0..Len(t) : f[i] = g[i]
<1> DEFINE Same == {i \in 0..Len(t) : f[i] = g[i]}
<1>0. Len(t) \in Nat
  OBVIOUS
<1>1. 0 \in Same
  BY <1>0 DEF MeansBy
<1>2. ASSUME NEW i \in 1..Len(t), i - 1 \in Same PROVE i \in Same
  <2>1. f[i] = Take(f[i - 1], t[i], radix) /\ g[i] = Take(g[i - 1], t[i], radix)
    BY DEF MeansBy
  <2> QED BY <1>0, <1>2, <2>1
<1> HIDE DEF Same
<1>3. \A i \in 0..Len(t) : i \in Same
  BY <1>0, <1>1, <1>2, UpTo
<1> QED BY <1>3 DEF Same

LEMMA MeaningIs ==
  ASSUME NEW n \in Int, NEW radix \in Int, NEW S, NEW t \in Seq(S), NEW f,
         MeansBy(n, t, radix, f)
  PROVE  N!Meaning(n, t, radix) = f[Len(t)]
<1>1. PICK g : MeansBy(n, t, radix, g) /\ N!Meaning(n, t, radix) = g[Len(t)]
  BY MeansSome
<1>2. Len(t) \in 0..Len(t)
  OBVIOUS
<1> QED BY <1>1, <1>2, MeansOnce

LEMMA MeaningInt ==
  ASSUME NEW n \in Int, NEW radix \in Int, NEW S, NEW t \in Seq(S)
  PROVE  N!Meaning(n, t, radix) \in Int
<1>1. PICK g : MeansBy(n, t, radix, g) /\ N!Meaning(n, t, radix) = g[Len(t)]
  BY MeansSome
<1>2. Len(t) \in 0..Len(t)
  OBVIOUS
<1> QED BY <1>1, <1>2 DEF MeansBy

LEMMA MeaningConcat ==
  ASSUME NEW n \in Int, NEW radix \in Int, NEW S, NEW s \in Seq(S), NEW t \in Seq(S)
  PROVE  N!Meaning(n, s \o t, radix) = N!Meaning(N!Meaning(n, s, radix), t, radix)
<1>1. PICK f : MeansBy(n, s, radix, f) /\ N!Meaning(n, s, radix) = f[Len(s)]
  BY MeansSome
<1> DEFINE m == N!Meaning(n, s, radix)
<1>2. m \in Int
  BY MeaningInt
<1>3. PICK g : MeansBy(m, t, radix, g) /\ N!Meaning(m, t, radix) = g[Len(t)]
  BY <1>2, MeansSome
<1>4. /\ s \o t \in Seq(S) /\ Len(s \o t) = Len(s) + Len(t)
      /\ Len(s) \in Nat /\ Len(t) \in Nat
      /\ \A i \in 1..Len(s) : (s \o t)[i] = s[i]
      /\ \A i \in 1..Len(t) : (s \o t)[Len(s) + i] = t[i]
  OBVIOUS
<1> DEFINE h == [i \in 0..Len(s \o t) |-> IF i <= Len(s) THEN f[i] ELSE g[i - Len(s)]]
<1>5. ASSUME NEW i \in 0..Len(s \o t)
      PROVE  h[i] = (IF i <= Len(s) THEN f[i] ELSE g[i - Len(s)]) /\ h[i] \in Int
  <2>1. CASE i <= Len(s)
    <3>1. i \in 0..Len(s)
      BY <1>4, <2>1
    <3> QED BY <1>1, <2>1, <3>1 DEF MeansBy
  <2>2. CASE ~ (i <= Len(s))
    <3>1. i - Len(s) \in 0..Len(t)
      BY <1>4, <2>2
    <3> QED BY <1>3, <2>2, <3>1 DEF MeansBy
  <2> QED BY <2>1, <2>2
<1>6. h \in [0..Len(s \o t) -> Int]
  BY <1>5
<1>7. h[0] = n
  <2>1. 0 \in 0..Len(s \o t) /\ 0 <= Len(s)
    BY <1>4
  <2> QED BY <1>1, <1>5, <2>1 DEF MeansBy
<1> HIDE DEF h
<1>8. ASSUME NEW i \in 1..Len(s \o t) PROVE h[i] = Take(h[i - 1], (s \o t)[i], radix)
  <2>1. i \in 0..Len(s \o t) /\ i - 1 \in 0..Len(s \o t)
    BY <1>4
  <2>2. CASE i <= Len(s)
    <3>1. i \in 1..Len(s) /\ i - 1 <= Len(s)
      BY <1>4, <2>2
    <3>2. h[i] = f[i] /\ h[i - 1] = f[i - 1] /\ (s \o t)[i] = s[i]
      BY <1>4, <1>5, <2>1, <2>2, <3>1
    <3> QED BY <1>1, <3>1, <3>2 DEF MeansBy
  <2>3. CASE ~ (i <= Len(s))
    <3>1. PICK j \in 1..Len(t) : i = Len(s) + j /\ i - Len(s) = j
      BY <1>4, <2>3
    <3>2. h[i] = g[j] /\ (s \o t)[i] = t[j]
      BY <1>4, <1>5, <2>1, <2>3, <3>1
    <3>3. h[i - 1] = g[j - 1]
      <4>1. CASE j = 1
        <5>1. i - 1 = Len(s) /\ i - 1 <= Len(s) /\ j - 1 = 0
          BY <1>4, <3>1, <4>1
        <5>2. h[i - 1] = f[Len(s)]
          BY <1>5, <2>1, <5>1
        <5>3. g[0] = m
          BY <1>3 DEF MeansBy
        <5> QED BY <1>1, <5>1, <5>2, <5>3
      <4>2. CASE j # 1
        <5>1. ~ (i - 1 <= Len(s)) /\ (i - 1) - Len(s) = j - 1
          BY <1>4, <3>1, <4>2
        <5> QED BY <1>5, <2>1, <5>1
      <4> QED BY <4>1, <4>2
    <3> QED BY <1>3, <3>2, <3>3 DEF MeansBy
  <2> QED BY <2>2, <2>3
<1>9. MeansBy(n, s \o t, radix, h)
  BY <1>6, <1>7, <1>8 DEF MeansBy
<1>10. N!Meaning(n, s \o t, radix) = h[Len(s \o t)]
  BY <1>4, <1>9, MeaningIs, ZenonT(40)
<1>11. h[Len(s \o t)] = g[Len(t)]
  <2>1. Len(s \o t) \in 0..Len(s \o t)
    BY <1>4
  <2>2. CASE Len(t) = 0
    <3>1. Len(s \o t) = Len(s) /\ Len(s \o t) <= Len(s)
      BY <1>4, <2>2
    <3>2. h[Len(s \o t)] = f[Len(s)]
      BY <1>5, <2>1, <3>1
    <3>3. g[0] = m
      BY <1>3 DEF MeansBy
    <3> QED BY <1>1, <2>2, <3>2, <3>3
  <2>3. CASE Len(t) # 0
    <3>1. ~ (Len(s \o t) <= Len(s)) /\ Len(s \o t) - Len(s) = Len(t)
      BY <1>4, <2>3
    <3> QED BY <1>5, <2>1, <3>1
  <2> QED BY <2>2, <2>3
<1> QED BY <1>3, <1>10, <1>11

LEMMA MeaningEmpty ==
  ASSUME NEW n \in Int, NEW radix \in Int
  PROVE  N!Meaning(n, <<>>, radix) = n
<1>1. <<>> \in Seq(Int) /\ Len(<<>>) = 0
  OBVIOUS
<1>2. PICK f : MeansBy(n, <<>>, radix, f) /\ N!Meaning(n, <<>>, radix) = f[Len(<<>>)]
  BY <1>1, MeansSome
<1> QED BY <1>1, <1>2 DEF MeansBy

LEMMA MeaningOne ==
  ASSUME NEW n \in Int, NEW radix \in Int, NEW d
  PROVE  N!Meaning(n, <<d>>, radix) = Take(n, d, radix)
<1>1. <<d>> \in Seq({d}) /\ Len(<<d>>) = 1 /\ <<d>>[1] = d
  OBVIOUS
<1>2. PICK f : MeansBy(n, <<d>>, radix, f) /\ N!Meaning(n, <<d>>, radix) = f[Len(<<d>>)]
  BY <1>1, MeansSome
<1>3. 1 \in 1..Len(<<d>>) /\ 1 - 1 = 0
  BY <1>1
<1>4. f[1] = Take(f[0], d, radix) /\ f[0] = n
  BY <1>1, <1>2, <1>3 DEF MeansBy
<1> QED BY <1>1, <1>2, <1>4

LEMMA ReverseIs ==
  ASSUME NEW S, NEW s \in Seq(S)
  PROVE  /\ N!Reverse(s) \in Seq(S) /\ Len(N!Reverse(s)) = Len(s)
         /\ \A i \in 1..Len(s) : N!Reverse(s)[i] = s[(Len(s) - i) + 1]
<1>1. N!Reverse(s) = [i \in 1..Len(s) |-> s[(Len(s) - i) + 1]]
  BY DEF N!Reverse
<1>2. Len(s) \in Nat /\ \A i \in 1..Len(s) : (Len(s) - i) + 1 \in 1..Len(s)
  OBVIOUS
<1>3. \A i \in 1..Len(s) : s[(Len(s) - i) + 1] \in S
  BY <1>2
<1>4. N!Reverse(s) \in [1..Len(s) -> S]
  BY <1>1, <1>3
<1>5. N!Reverse(s) \in Seq(S) /\ Len(N!Reverse(s)) = Len(s)
  BY <1>2, <1>4
<1> QED BY <1>1, <1>5

LEMMA ReverseConcat ==
  ASSUME NEW S, NEW s \in Seq(S), NEW t \in Seq(S)
  PROVE  N!Reverse(s \o t) = N!Reverse(t) \o N!Reverse(s)
<1> DEFINE a == N!Reverse(s \o t)
           b == N!Reverse(t)
           c == N!Reverse(s)
<1>1. /\ s \o t \in Seq(S) /\ Len(s \o t) = Len(s) + Len(t)
      /\ Len(s) \in Nat /\ Len(t) \in Nat
      /\ \A i \in 1..Len(s) : (s \o t)[i] = s[i]
      /\ \A i \in 1..Len(t) : (s \o t)[Len(s) + i] = t[i]
  OBVIOUS
<1>2. /\ a \in Seq(S) /\ Len(a) = Len(s) + Len(t)
      /\ \A i \in 1..Len(s) + Len(t) : a[i] = (s \o t)[(Len(s) + Len(t) - i) + 1]
  <2>1. /\ a \in Seq(S) /\ Len(a) = Len(s \o t)
        /\ \A i \in 1..Len(s \o t) : a[i] = (s \o t)[(Len(s \o t) - i) + 1]
    BY <1>1, ReverseIs
  <2> QED BY <1>1, <2>1
<1>3. /\ b \in Seq(S) /\ Len(b) = Len(t)
      /\ \A i \in 1..Len(t) : b[i] = t[(Len(t) - i) + 1]
  BY ReverseIs
<1>4. /\ c \in Seq(S) /\ Len(c) = Len(s)
      /\ \A i \in 1..Len(s) : c[i] = s[(Len(s) - i) + 1]
  BY ReverseIs
<1> HIDE DEF a, b, c
<1>5. /\ b \o c \in Seq(S) /\ Len(b \o c) = Len(t) + Len(s)
      /\ \A i \in 1..Len(t) : (b \o c)[i] = b[i]
      /\ \A i \in 1..Len(s) : (b \o c)[Len(t) + i] = c[i]
  <2>1. b \in Seq(S) /\ c \in Seq(S)
    BY <1>3, <1>4
  <2>2. /\ b \o c \in Seq(S) /\ Len(b \o c) = Len(b) + Len(c)
        /\ \A i \in 1..Len(b) : (b \o c)[i] = b[i]
        /\ \A i \in 1..Len(c) : (b \o c)[Len(b) + i] = c[i]
    BY <2>1
  <2>3. Len(b) = Len(t) /\ Len(c) = Len(s)
    BY <1>3, <1>4
  <2> QED BY <2>2, <2>3
<1>6. ASSUME NEW i \in 1..Len(s) + Len(t) PROVE a[i] = (b \o c)[i]
  <2>1. CASE i <= Len(t)
    <3>1. i \in 1..Len(t) /\ (Len(t) - i) + 1 \in 1..Len(t)
      BY <1>1, <2>1
    <3>2. (Len(s) + Len(t) - i) + 1 = Len(s) + ((Len(t) - i) + 1)
      BY <1>1
    <3>3. a[i] = t[(Len(t) - i) + 1]
      BY <1>1, <1>2, <3>1, <3>2
    <3>4. (b \o c)[i] = t[(Len(t) - i) + 1]
      BY <1>3, <1>5, <3>1
    <3> QED BY <3>3, <3>4
  <2>2. CASE ~ (i <= Len(t))
    <3>1. PICK j \in 1..Len(s) : i = Len(t) + j
      <4>1. i - Len(t) \in 1..Len(s) /\ i = Len(t) + (i - Len(t))
        BY <1>1, <2>2
      <4> QED BY <4>1
    <3>2. /\ (Len(s) + Len(t) - i) + 1 = (Len(s) - j) + 1
          /\ (Len(s) - j) + 1 \in 1..Len(s)
      BY <1>1, <3>1
    <3>3. a[i] = s[(Len(s) - j) + 1]
      BY <1>1, <1>2, <3>2
    <3>4. (b \o c)[i] = s[(Len(s) - j) + 1]
      BY <1>4, <1>5, <3>1
    <3> QED BY <3>3, <3>4
  <2> QED BY <2>1, <2>2
<1>7. Len(a) = Len(b \o c)
  BY <1>1, <1>2, <1>5
<1>8. a = b \o c
  <2>1. \A i \in 1..Len(a) : a[i] = (b \o c)[i]
    BY <1>2, <1>6
  <2> QED BY <1>2, <1>5, <1>7, <2>1, SeqEqual
<1> QED BY <1>8 DEF a, b, c

LEMMA ReverseOne == ASSUME NEW d PROVE N!Reverse(<<d>>) = <<d>>
<1>1. <<d>> \in Seq({d}) /\ Len(<<d>>) = 1 /\ <<d>>[1] = d
  OBVIOUS
<1>2. /\ N!Reverse(<<d>>) \in Seq({d}) /\ Len(N!Reverse(<<d>>)) = Len(<<d>>)
  BY <1>1, ReverseIs
<1>3. \A i \in 1..Len(<<d>>) : N!Reverse(<<d>>)[i] = <<d>>[i]
  BY <1>1, <1>2
<1> QED BY <1>1, <1>2, <1>3, SeqEqual

LEMMA Characters ==
  /\ N!Digits = 0..35 /\ N!Separators = {36, 37, 38} /\ N!Hyphen = 36 /\ N!Plus = 37
  /\ N!Point = 38
BY DEF N!Separators, N!Digits, N!Hyphen, N!Plus, N!Point

LEMMA NoDigit == ASSUME NEW c, c \in N!Separators PROVE c \notin N!Digits
BY Characters

(* A base that ficl can count in.                                          *)
RadixOK(radix) == radix \in Nat /\ radix >= 2 /\ radix <= 36 /\ radix \in A!CellValues

(* A text of digits and separators, read in this base.                     *)
Readable(t, radix) ==
  \A i \in 1..Len(t) : t[i] \notin N!Separators => t[i] \in Nat /\ t[i] < radix

AccumulateBy(t, radix, f) ==
  f = [i \in 0..Len(t) |-> IF i = 0 THEN N!Zero
                           ELSE IF t[i] \in N!Separators THEN f[i - 1]
                           ELSE N!MultiplyAccumulate(f[i - 1], radix, t[i])]

LEMMA AccumulatedShows ==
  ASSUME NEW radix, RadixOK(radix), NEW S, NEW t \in Seq(S), Readable(t, radix)
  PROVE  Shows(N!Accumulated(t, radix), N!Meaning(0, t, radix))
<1> DEFINE after(i, x) == IF i \notin 1..Len(t) \/ t[i] \in N!Separators THEN x
                          ELSE A!MultiplyAccumulate(x, radix, t[i])
           step == [i \in Nat |-> [x \in A!Double |-> after(i, x)]]
           F == CHOOSE f : AccumulateBy(t, radix, f)
<1>0. Len(t) \in Nat /\ radix \in Int /\ radix \in A!CellValues
  BY DEF RadixOK
<1>1. ASSUME NEW i \in 1..Len(t), t[i] \notin N!Separators
      PROVE  t[i] \in A!CellValues /\ t[i] \in N!Digits
  <2>1. t[i] \in Nat /\ t[i] < radix
    BY <1>1 DEF Readable
  <2>2. radix \in Nat /\ radix <= 36 /\ radix \in 0..A!Span - 1
    BY CellsAre DEF RadixOK
  <2>4. PICK r \in Nat : r = radix /\ r <= 36 /\ r <= A!Span - 1
    BY <2>2, SpanNat
  <2>3. PICK c \in Nat : c = t[i] /\ c < r
    BY <2>1, <2>4
  <2>5. c <= 35 /\ c <= A!Span - 1
    <3>1. c <= r - 1
      BY <2>3
    <3>2. r - 1 <= 35 /\ r - 1 <= A!Span - 1
      BY <2>4, SpanNat
    <3> QED BY <3>1, <3>2, SpanNat
  <2>6. c \in 0..35 /\ c \in 0..A!Span - 1
    BY <2>5, SpanNat
  <2> QED BY <2>3, <2>6, CellsAre, Characters
<1>2. ASSUME NEW i \in 1..Len(t), t[i] \in N!Separators
      PROVE  t[i] \notin N!Digits
  BY <1>2, NoDigit
<1>3. ASSUME NEW i \in 1..Len(t), NEW m \in Int, NEW x, Shows(x, m)
      PROVE  Shows(after(i, x), Take(m, t[i], radix))
  <2>1. CASE t[i] \in N!Separators
    BY <1>2, <1>3, <2>1 DEF Take
  <2>2. CASE t[i] \notin N!Separators
    <3>1. t[i] \in A!CellValues /\ t[i] \in N!Digits
      BY <1>1, <2>2
    <3>2. Shows(A!MultiplyAccumulate(x, radix, t[i]), m * radix + t[i])
      BY <1>0, <1>3, <3>1, ShowsAccumulate
    <3> QED BY <2>2, <3>1, <3>2 DEF Take
  <2> QED BY <2>1, <2>2
<1>4. ASSUME NEW i \in Nat, NEW x \in A!Double PROVE after(i, x) \in A!Double
  <2>1. CASE i \in 1..Len(t)
    <3>1. A!Natural(x) \in Int /\ Shows(x, A!Natural(x))
      BY ShowsNatural
    <3>2. Shows(after(i, x), Take(A!Natural(x), t[i], radix))
      BY <1>3, <2>1, <3>1
    <3> QED BY <3>2 DEF Shows
  <2>2. CASE i \notin 1..Len(t)
    BY <2>2
  <2> QED BY <2>1, <2>2
<1> HIDE DEF after
<1>5. step \in [Nat -> [A!Double -> A!Double]]
  BY <1>4
<1> HIDE DEF step
<1>6. PICK g \in [Nat -> A!Double] : Follows(g, A!Zero, step)
  BY <1>5, ZeroOne, Recursion
<1> DEFINE h == [i \in 0..Len(t) |-> g[i]]
<1>7. ASSUME NEW i \in 0..Len(t), i # 0 PROVE g[i] = after(i, h[i - 1])
  <2>1. i \in Nat \ {0} /\ i - 1 \in Nat /\ i - 1 \in 0..Len(t)
    BY <1>0, <1>7
  <2>2. g[i] = step[i][g[i - 1]] /\ g[i - 1] \in A!Double
    BY <1>6, <2>1 DEF Follows
  <2> QED BY <2>1, <2>2 DEF step
<1>8. AccumulateBy(t, radix, h)
  <2>1. ASSUME NEW i \in 0..Len(t)
        PROVE  g[i] = IF i = 0 THEN N!Zero
                      ELSE IF t[i] \in N!Separators THEN h[i - 1]
                      ELSE N!MultiplyAccumulate(h[i - 1], radix, t[i])
    <3>1. CASE i = 0
      BY <1>6, <3>1, NumberDoubles DEF Follows
    <3>2. CASE i # 0
      <4>1. i \in 1..Len(t) /\ i \notin {0}
        BY <1>0, <3>2
      <4>2. g[i] = after(i, h[i - 1])
        BY <1>7, <3>2
      <4> HIDE DEF h
      <4>3. N!MultiplyAccumulate(h[i - 1], radix, t[i])
              = A!MultiplyAccumulate(h[i - 1], radix, t[i])
        BY NumberAccumulate
      <4> QED BY <3>2, <4>1, <4>2, <4>3 DEF after
    <3> QED BY <3>1, <3>2
  <2> QED BY <2>1 DEF AccumulateBy
<1> HIDE DEF h
<1>9. AccumulateBy(t, radix, F)
  BY <1>8
<1>10. N!Accumulated(t, radix) = F[Len(t)]
  BY Zenon DEF N!Accumulated, AccumulateBy
<1> HIDE DEF F
<1>11. F = [i \in 0..Len(t) |-> IF i = 0 THEN N!Zero
              ELSE IF t[i] \in N!Separators THEN F[i - 1]
              ELSE N!MultiplyAccumulate(F[i - 1], radix, t[i])]
  BY <1>9 DEF AccumulateBy
<1>12. F[0] = A!Zero
  BY <1>0, <1>11, NumberDoubles
<1>13. ASSUME NEW i \in 1..Len(t) PROVE F[i] = after(i, F[i - 1])
  <2>1. i \in 0..Len(t) /\ i # 0
    BY <1>0
  <2>2. N!MultiplyAccumulate(F[i - 1], radix, t[i]) = A!MultiplyAccumulate(F[i - 1], radix, t[i])
    BY NumberAccumulate
  <2>3. F[i] = IF t[i] \in N!Separators THEN F[i - 1]
               ELSE N!MultiplyAccumulate(F[i - 1], radix, t[i])
    BY <1>11, <2>1
  <2> QED BY <2>2, <2>3 DEF after
<1>14. PICK zero \in Int : zero = 0
  OBVIOUS
<1>15. PICK f : MeansBy(zero, t, radix, f) /\ N!Meaning(zero, t, radix) = f[Len(t)]
  BY <1>0, MeansSome
<1> DEFINE Good == {i \in 0..Len(t) : Shows(F[i], f[i])}
<1>16. 0 \in Good
  <2>1. Shows(A!Zero, A!Natural(A!Zero)) /\ A!Natural(A!Zero) = 0
    BY ZeroOne, ShowsNatural
  <2>2. f[0] = 0
    BY <1>14, <1>15 DEF MeansBy
  <2> QED BY <1>0, <1>12, <2>1, <2>2
<1>17. ASSUME NEW i \in 1..Len(t), i - 1 \in Good PROVE i \in Good
  <2>1. i - 1 \in 0..Len(t) /\ i \in 0..Len(t)
    BY <1>0
  <2>2. f[i - 1] \in Int /\ f[i] = Take(f[i - 1], t[i], radix)
    BY <1>15, <2>1 DEF MeansBy
  <2>3. Shows(after(i, F[i - 1]), Take(f[i - 1], t[i], radix))
    BY <1>3, <1>17, <2>2
  <2> QED BY <1>13, <2>1, <2>2, <2>3
<1> HIDE DEF Good
<1>18. \A i \in 0..Len(t) : i \in Good
  BY <1>0, <1>16, <1>17, UpTo
<1>19. Len(t) \in 0..Len(t)
  BY <1>0
<1>20. Shows(F[Len(t)], f[Len(t)])
  BY <1>18, <1>19 DEF Good
<1> QED BY <1>10, <1>14, <1>15, <1>20

(* The digit d before those of s, which stand the last one first.          *)
LEMMA MeaningBefore ==
  ASSUME NEW n \in Int, NEW radix, RadixOK(radix), NEW s \in Seq(0..radix - 1),
         NEW d \in 0..radix - 1
  PROVE  /\ Append(s, d) \in Seq(0..radix - 1) /\ Len(Append(s, d)) = Len(s) + 1
         /\ Append(s, d) # <<>>
         /\ N!Meaning(n, N!Reverse(Append(s, d)), radix)
              = N!Meaning(n * radix + d, N!Reverse(s), radix)
<1> DEFINE Ds == 0..radix - 1
<1>1. radix \in Nat /\ radix \in Int
  BY DEF RadixOK
<1>2. d \in N!Digits /\ d \in Int
  <2>1. radix \in Nat /\ radix <= 36
    BY DEF RadixOK
  <2>2. d \in 0..35
    BY <2>1
  <2> QED BY <2>2, Characters
<1>3. d \in Ds /\ s \in Seq(Ds)
  OBVIOUS
<1> HIDE DEF Ds
<1>4. /\ Append(s, d) \in Seq(Ds) /\ Append(s, d) # <<>> /\ Len(Append(s, d)) = Len(s) + 1
  BY <1>3, AppendProperties
<1>5. Append(s, d) = s \o <<d>>
  BY <1>3, AppendIsConcat
<1>6. <<d>> \in Seq(Ds)
  BY <1>3
<1>7. N!Reverse(Append(s, d)) = N!Reverse(<<d>>) \o N!Reverse(s)
  BY <1>3, <1>5, <1>6, ReverseConcat
<1>8. N!Reverse(<<d>>) = <<d>>
  BY ReverseOne
<1>9. N!Reverse(s) \in Seq(Ds)
  BY <1>3, ReverseIs
<1>10. N!Meaning(n, <<d>> \o N!Reverse(s), radix)
         = N!Meaning(N!Meaning(n, <<d>>, radix), N!Reverse(s), radix)
  BY <1>1, <1>6, <1>9, MeaningConcat
<1>11. N!Meaning(n, <<d>>, radix) = n * radix + d
  BY <1>1, <1>2, MeaningOne DEF Take
<1> QED BY <1>4, <1>7, <1>8, <1>10, <1>11 DEF Ds

DigitRounds(radix) == [rest : A!Double, digits : Seq(0..radix - 1)]

(* What is still to be divided with the digits behind it is the number.    *)
DigitInv(r, u, radix, k) ==
  /\ r \in DigitRounds(radix)
  /\ A!Natural(u) = N!Meaning(A!Natural(r.rest), N!Reverse(r.digits), radix)
  /\ A!Natural(r.rest) * A!Pow2[Len(r.digits)] <= A!Natural(u)
  /\ Len(r.digits) <= k
  /\ k > 0 => r.digits # <<>>
  /\ Len(r.digits) = k \/ r.rest = A!Zero
  /\ u # A!Zero /\ r.digits # <<>> => A!Pow2[Len(r.digits) - 1] <= A!Natural(u)

LEMMA NotZero == ASSUME NEW u \in A!Double PROVE u = A!Zero <=> A!Natural(u) = 0
BY ZeroOne, NaturalOnce

LEMMA DigitDivided ==
  ASSUME NEW u \in A!Double, NEW radix, RadixOK(radix), NEW r, NEW k \in Nat,
         DigitInv(r, u, radix, k), ~ (r.digits # <<>> /\ r.rest = A!Zero),
         NEW q, NEW d, q = A!Divide(r.rest, radix).quotient,
         d = A!Divide(r.rest, radix).remainder
  PROVE  DigitInv([rest |-> q, digits |-> Append(r.digits, d)], u, radix, k + 1)
<1> DEFINE s == Append(r.digits, d)
           n == A!Natural(r.rest)
           m == A!Natural(q)
           v == A!Natural(u)
           l == Len(r.digits)
<1>1. radix \in Nat /\ radix >= 2 /\ radix \in A!CellValues /\ radix # 0
  BY DEF RadixOK
<1>2. r.rest \in A!Double /\ r.digits \in Seq(0..radix - 1) /\ l \in Nat
  BY DEF DigitInv, DigitRounds
<1>3. /\ q \in A!Double /\ d \in 0..radix - 1
      /\ A!Natural(r.rest) = A!Natural(q) * radix + d
  BY <1>1, <1>2, DivideIs
<1>4. n \in Nat /\ m \in Nat /\ v \in Nat
  BY <1>2, <1>3, ShowsNatural
<1>5. /\ s \in Seq(0..radix - 1) /\ Len(s) = l + 1 /\ s # <<>>
      /\ N!Meaning(m, N!Reverse(s), radix) = N!Meaning(m * radix + d, N!Reverse(r.digits), radix)
  BY <1>2, <1>3, <1>4, MeaningBefore
<1>6. l = k
  <2>1. r.digits = <<>> => l = 0
    OBVIOUS
  <2>2. CASE r.digits = <<>>
    <3>1. ~ (k > 0)
      BY <2>2 DEF DigitInv
    <3> QED BY <2>1, <2>2, <3>1
  <2>3. CASE r.digits # <<>>
    BY <2>3 DEF DigitInv
  <2> QED BY <2>2, <2>3
<1>7. PICK p \in Nat \ {0} : p = A!Pow2[l] /\ A!Pow2[l + 1] = 2 * p
  BY <1>2, Pow2Nat, Powers
<1>8. n * p <= v
  BY <1>7 DEF DigitInv
<1>9. m * (2 * p) <= v
  <2>1. m * 2 <= n
    <3>1. 2 * m <= radix * m
      BY <1>1, <1>4, Times
    <3>2. PICK e \in Int : e = m * radix /\ e = radix * m
      BY <1>1, <1>4
    <3>3. n = e + d /\ d >= 0 /\ d \in Int
      BY <1>1, <1>3, <3>2
    <3> HIDE DEF n, m
    <3> QED BY <1>4, <3>1, <3>2, <3>3
  <2>2. m * 2 \in Int /\ n \in Int /\ p \in Nat
    BY <1>4
  <2>3. (m * 2) * p <= n * p
    BY <2>1, <2>2, Times
  <2>4. (m * 2) * p = m * (2 * p) /\ (m * 2) * p \in Int /\ n * p \in Int
    BY <1>4
  <2> HIDE DEF n, m, v
  <2> QED BY <1>4, <1>8, <2>3, <2>4
<1>10. u # A!Zero => p <= v
  <2>1. CASE r.digits = <<>>
    <3>1. l = 0 /\ p = 1
      BY <2>1, <1>7, Powers
    <3>2. u # A!Zero => v # 0
      BY NotZero
    <3> HIDE DEF l, v
    <3> QED BY <1>4, <3>1, <3>2
  <2>2. CASE r.digits # <<>>
    <3>1. n # 0
      BY <1>2, <2>2, NotZero
    <3>2. 1 <= n /\ 1 \in Int /\ n \in Int /\ p \in Nat
      BY <1>4, <3>1
    <3>3. 1 * p <= n * p
      BY <3>2, Times
    <3>4. n * p \in Int
      BY <1>4
    <3> HIDE DEF n, v
    <3> QED BY <1>4, <1>8, <3>3, <3>4
  <2> QED BY <2>1, <2>2
<1> HIDE DEF s
<1> DEFINE t == [rest |-> q, digits |-> s]
<1>11. t.rest = q /\ t.digits = s /\ t \in DigitRounds(radix)
  BY <1>3, <1>5 DEF DigitRounds
<1>12. v = N!Meaning(m, N!Reverse(s), radix)
  <2>1. v = N!Meaning(n, N!Reverse(r.digits), radix)
    BY DEF DigitInv
  <2>2. n = m * radix + d
    BY <1>3
  <2> QED BY <1>5, <2>1, <2>2
<1>13. (l + 1) - 1 = l /\ l + 1 <= k + 1 /\ l + 1 = k + 1 /\ k + 1 > 0
  BY <1>2, <1>6
<1>14. A!Natural(q) * A!Pow2[Len(s)] <= A!Natural(u)
  BY <1>5, <1>7, <1>9
<1>15. u # A!Zero => A!Pow2[Len(s) - 1] <= A!Natural(u)
  BY <1>5, <1>7, <1>10, <1>13
<1> HIDE DEF t, l
<1>16. DigitInv(t, u, radix, k + 1)
  BY <1>5, <1>11, <1>12, <1>13, <1>14, <1>15 DEF DigitInv
<1> QED BY <1>16 DEF t, s

LEMMA DigitStep ==
  ASSUME NEW u \in A!Double, NEW radix, RadixOK(radix), NEW r, NEW k \in Nat,
         DigitInv(r, u, radix, k)
  PROVE  DigitInv(N!DigitRound(r, radix), u, radix, k + 1)
<1>1. CASE r.digits # <<>> /\ r.rest = A!Zero
  <2>1. N!DigitRound(r, radix) = r
    BY <1>1, NumberDoubles DEF N!DigitRound
  <2>2. r.digits \in Seq(0..radix - 1) /\ Len(r.digits) \in Nat
    BY DEF DigitInv, DigitRounds
  <2>3. Len(r.digits) <= k + 1
    BY <2>2 DEF DigitInv
  <2> QED BY <1>1, <2>1, <2>3 DEF DigitInv
<1>2. CASE ~ (r.digits # <<>> /\ r.rest = A!Zero)
  <2>1. N!DigitRound(r, radix)
          = [rest |-> A!Divide(r.rest, radix).quotient,
             digits |-> Append(r.digits, A!Divide(r.rest, radix).remainder)]
    BY <1>2, NumberDoubles, NumberDivide DEF N!DigitRound
  <2> QED BY <1>2, <2>1, DigitDivided
<1> QED BY <1>1, <1>2

LEMMA DigitRoundTyped ==
  ASSUME NEW radix, RadixOK(radix), NEW r \in DigitRounds(radix)
  PROVE  N!DigitRound(r, radix) \in DigitRounds(radix)
<1>1. r.rest \in A!Double /\ r.digits \in Seq(0..radix - 1)
  BY DEF DigitRounds
<1>2. radix \in A!CellValues /\ radix # 0
  BY DEF RadixOK
<1>3. /\ A!Divide(r.rest, radix).quotient \in A!Double
      /\ A!Divide(r.rest, radix).remainder \in 0..radix - 1
  BY <1>1, <1>2, DivideIs
<1>4. Append(r.digits, A!Divide(r.rest, radix).remainder) \in Seq(0..radix - 1)
  BY <1>1, <1>3
<1> QED BY <1>3, <1>4, NumberDivide DEF N!DigitRound, DigitRounds

DigitStart(u) == [rest |-> u, digits |-> <<>>]

DigitsBy(u, radix, f) ==
  f = [i \in 0..(2 * Bits) |-> IF i = 0 THEN DigitStart(u) ELSE N!DigitRound(f[i - 1], radix)]

(* Whose digits, the last one first, mean v.                               *)
Numeral(ds, v, radix) ==
  /\ ds \in Seq(0..radix - 1) /\ ds # <<>>
  /\ v = N!Meaning(0, N!Reverse(ds), radix)

LEMMA DigitsOfIs ==
  ASSUME NEW u \in A!Double, NEW radix, RadixOK(radix)
  PROVE  /\ Numeral(N!DigitsOf(u, radix), A!Natural(u), radix)
         /\ Len(N!DigitsOf(u, radix)) <= 2 * Bits
         /\ u # A!Zero => A!Pow2[Len(N!DigitsOf(u, radix)) - 1] <= A!Natural(u)
<1> DEFINE step == [r \in DigitRounds(radix) |-> N!DigitRound(r, radix)]
           F == CHOOSE f : DigitsBy(u, radix, f)
           n == 2 * Bits
<1>0. DigitStart(u) \in DigitRounds(radix)
  BY DEF DigitStart, DigitRounds
<1>1. step \in [DigitRounds(radix) -> DigitRounds(radix)]
  BY DigitRoundTyped
<1>2. Bits \in Nat /\ Bits >= 2 /\ n \in Nat /\ n > 0
  BY PowerSpan
<1> HIDE DEF step
<1>3. PICK g \in [0..n -> DigitRounds(radix)] : Repeats(g, n, DigitStart(u), step)
  BY <1>0, <1>1, <1>2, Repeated
<1>4. DigitsBy(u, radix, g)
  <2>1. ASSUME NEW i \in 0..n, i # 0 PROVE step[g[i - 1]] = N!DigitRound(g[i - 1], radix)
    <3>1. i - 1 \in 0..n
      BY <1>2, <2>1
    <3> QED BY <1>3, <3>1 DEF step
  <2> QED BY <1>3, <2>1 DEF Repeats, DigitsBy
<1>5. DigitsBy(u, radix, F)
  BY <1>4
<1>6. N!DigitsOf(u, radix) = F[2 * Bits].digits
  BY Zenon DEF N!DigitsOf, DigitsBy, DigitStart
<1> HIDE DEF F
<1>7. F = [i \in 0..n |-> IF i = 0 THEN DigitStart(u) ELSE N!DigitRound(F[i - 1], radix)]
  BY <1>5 DEF DigitsBy
<1>8. F[0] = DigitStart(u)
  BY <1>2, <1>7
<1>9. ASSUME NEW i \in 1..n PROVE F[i] = N!DigitRound(F[i - 1], radix)
  BY <1>2, <1>7
<1> DEFINE Good == {i \in 0..n : DigitInv(F[i], u, radix, i)}
<1>10. 0 \in Good
  <2> DEFINE r == DigitStart(u)
             v == A!Natural(u)
  <2>1. r.rest = u /\ r.digits = <<>> /\ Len(r.digits) = 0
    BY DEF DigitStart
  <2>2. r \in DigitRounds(radix)
    BY <1>0
  <2>3. v \in Nat
    BY ShowsNatural
  <2>4. radix \in Int
    BY DEF RadixOK
  <2>5. N!Reverse(<<>>) = <<>>
    <3>1. <<>> \in Seq(Int) /\ Len(<<>>) = 0
      OBVIOUS
    <3>2. N!Reverse(<<>>) \in Seq(Int) /\ Len(N!Reverse(<<>>)) = 0
      BY <3>1, ReverseIs
    <3> QED BY <3>2
  <2>6. N!Meaning(v, <<>>, radix) = v
    BY <2>3, <2>4, MeaningEmpty
  <2>7. A!Pow2[0] = 1
    BY Powers
  <2>8. v * A!Pow2[0] <= v
    BY <2>3, <2>7
  <2>9. DigitInv(r, u, radix, 0)
    <3> HIDE DEF r
    <3> QED BY <2>1, <2>2, <2>5, <2>6, <2>8 DEF DigitInv
  <2> QED BY <1>2, <1>8, <2>9
<1>11. ASSUME NEW i \in 1..n, i - 1 \in Good PROVE i \in Good
  <2>1. i - 1 \in Nat /\ (i - 1) + 1 = i /\ i \in 0..n
    BY <1>2
  <2>2. DigitInv(F[i - 1], u, radix, i - 1)
    BY <1>11
  <2>3. DigitInv(N!DigitRound(F[i - 1], radix), u, radix, (i - 1) + 1)
    BY <2>1, <2>2, DigitStep
  <2> QED BY <1>9, <2>1, <2>3
<1> HIDE DEF Good
<1>12. \A i \in 0..n : i \in Good
  BY <1>2, <1>10, <1>11, UpTo
<1>13. n \in 0..n
  BY <1>2
<1>14. DigitInv(F[n], u, radix, n)
  BY <1>12, <1>13 DEF Good
<1> DEFINE r == F[n]
           ds == F[n].digits
<1>15. r.rest \in A!Double /\ ds \in Seq(0..radix - 1) /\ ds # <<>> /\ Len(ds) <= n
  BY <1>2, <1>14 DEF DigitInv, DigitRounds
<1>16. r.rest = A!Zero
  <2>1. CASE Len(ds) = n
    <3>1. PICK a \in Nat : a = A!Natural(r.rest)
      BY <1>15, ShowsNatural
    <3>2. PICK b \in Nat : b = A!Natural(u) /\ b < Square
      BY DoubleFacts, SquareFacts
    <3>3. PICK sq \in Nat \ {0} : sq = Square /\ sq = A!Pow2[n]
      BY SquareFacts
    <3>4. a * sq <= b
      BY <1>14, <2>1, <3>1, <3>2, <3>3 DEF DigitInv
    <3>5. a = 0
      <4>1. SUFFICES ASSUME a >= 1 PROVE FALSE
        OBVIOUS
      <4>2. 1 * sq <= a * sq
        BY <4>1, Times
      <4>3. a * sq \in Int /\ 1 * sq = sq
        OBVIOUS
      <4> QED BY <3>2, <3>3, <3>4, <4>2, <4>3
    <3> QED BY <1>15, <3>1, <3>5, NotZero
  <2>2. CASE Len(ds) # n
    BY <1>14, <2>2 DEF DigitInv
  <2> QED BY <2>1, <2>2
<1>17. A!Natural(r.rest) = 0
  BY <1>16, ZeroOne
<1>18. A!Natural(u) = N!Meaning(0, N!Reverse(ds), radix)
  BY <1>14, <1>17 DEF DigitInv
<1>19. u # A!Zero => A!Pow2[Len(ds) - 1] <= A!Natural(u)
  BY <1>14, <1>15 DEF DigitInv
<1>20. N!DigitsOf(u, radix) = ds
  BY <1>6
<1> QED BY <1>15, <1>18, <1>19, <1>20 DEF Numeral

(* The shifts of ficlLtoa.                                                 *)
ShiftedStart(v) == [v |-> v, digits |-> <<>>]
ShiftedRounds(radix) == [v : Nat, digits : Seq(0..radix - 1)]

ShiftedBy(v, power, f) ==
  f = [i \in 0..Bits |-> IF i = 0 THEN ShiftedStart(v) ELSE N!ShiftedRound(f[i - 1], power)]

ShiftedInv(r, v, radix, k) ==
  /\ r \in ShiftedRounds(radix)
  /\ v = N!Meaning(r.v, N!Reverse(r.digits), radix)
  /\ r.v * A!Pow2[k] <= v
  /\ Len(r.digits) <= k
  /\ k > 0 => r.digits # <<>>

LEMMA ShiftedStep ==
  ASSUME NEW power \in Nat, NEW radix, RadixOK(radix), radix = A!Pow2[power],
         NEW v \in Nat \ {0}, NEW r, NEW k \in Nat,
         ShiftedInv(r, v, radix, k)
  PROVE  ShiftedInv(N!ShiftedRound(r, power), v, radix, k + 1)
<1>1. radix \in Nat \ {0} /\ radix >= 2
  BY DEF RadixOK
<1>2. r.v \in Nat /\ r.digits \in Seq(0..radix - 1) /\ Len(r.digits) \in Nat
  BY DEF ShiftedInv, ShiftedRounds
<1>3. PICK p \in Nat \ {0} : p = A!Pow2[k] /\ A!Pow2[k + 1] = 2 * p
  BY Pow2Nat, Powers
<1>4. Len(r.digits) <= k + 1 /\ k + 1 > 0
  BY <1>2 DEF ShiftedInv
<1>5. CASE r.v = 0
  <2>1. N!ShiftedRound(r, power) = r
    BY <1>5 DEF N!ShiftedRound
  <2>2. k > 0
    <3>1. SUFFICES ASSUME k = 0 PROVE FALSE
      OBVIOUS
    <3>2. r.digits = <<>>
      <4>1. Len(r.digits) = 0
        BY <1>2, <3>1 DEF ShiftedInv
      <4> QED BY <1>2, <4>1
    <3>3. N!Reverse(r.digits) = <<>>
      <4>1. N!Reverse(r.digits) \in Seq(0..radix - 1) /\ Len(N!Reverse(r.digits)) = 0
        BY <1>2, <3>2, ReverseIs
      <4> QED BY <4>1
    <3>4. N!Meaning(r.v, <<>>, radix) = r.v
      BY <1>1, <1>2, MeaningEmpty
    <3> QED BY <1>5, <3>3, <3>4 DEF ShiftedInv
  <2>3. r.v * A!Pow2[k + 1] <= v
    BY <1>3, <1>5
  <2> QED BY <1>4, <2>1, <2>2, <2>3 DEF ShiftedInv
<1>6. CASE r.v # 0
  <2>0. PICK x0 \in Int, c0 \in Nat \ {0} : x0 = r.v /\ c0 = radix
    BY <1>1, <1>2
  <2>1. PICK q \in Int, d \in 0..radix - 1 :
          q = r.v \div radix /\ d = r.v % radix /\ r.v = q * radix + d
    <3>1. \E q \in Int, d \in 0..c0 - 1 :
            q = x0 \div c0 /\ d = x0 % c0 /\ x0 = q * c0 + d
      BY DivMod
    <3> QED BY <2>0, <3>1
  <2>2. PICK x \in Nat : x = r.v
    BY <1>2
  <2>3. PICK c \in Nat \ {0} : c = radix /\ c >= 2
    BY <1>1
  <2>4. PICK e \in Int : e = d /\ 0 <= e /\ e < c
    BY <2>3
  <2>5. x = q * c + e
    BY <2>1, <2>2, <2>3, <2>4
  <2>6. q >= 0
    <3>1. SUFFICES ASSUME q <= -1 PROVE FALSE
      OBVIOUS
    <3>2. q * c <= (-1) * c
      BY <3>1, Times
    <3>3. q * c \in Int /\ (-1) * c = - c
      OBVIOUS
    <3> QED BY <2>2, <2>4, <2>5, <3>2, <3>3
  <2>7. q * 2 <= x
    <3>1. 2 * q <= c * q
      BY <2>3, <2>6, Times
    <3>2. c * q = q * c /\ q * c \in Int
      OBVIOUS
    <3> QED BY <2>4, <2>5, <3>1, <3>2
  <2>8. q * (2 * p) <= v
    <3>1. (q * 2) * p <= x * p
      BY <2>7, Times
    <3>2. (q * 2) * p = q * (2 * p) /\ (q * 2) * p \in Int /\ x * p \in Int
      OBVIOUS
    <3>3. x * p <= v
      BY <1>3, <2>2 DEF ShiftedInv
    <3> QED BY <3>1, <3>2, <3>3
  <2> DEFINE s == Append(r.digits, d)
  <2>9. /\ s \in Seq(0..radix - 1) /\ Len(s) = Len(r.digits) + 1 /\ s # <<>>
        /\ N!Meaning(q, N!Reverse(s), radix) = N!Meaning(q * radix + d, N!Reverse(r.digits), radix)
    BY <1>2, <2>1, MeaningBefore
  <2>10. N!ShiftedRound(r, power) = [v |-> q, digits |-> s]
    BY <1>6, <2>1, NumberDoubles DEF N!ShiftedRound
  <2> HIDE DEF s
  <2> DEFINE t == [v |-> q, digits |-> s]
  <2>11. t.v = q /\ t.digits = s /\ t \in ShiftedRounds(radix)
    BY <2>6, <2>9 DEF ShiftedRounds
  <2> HIDE DEF t
  <2>12. v = N!Meaning(q, N!Reverse(s), radix)
    BY <2>1, <2>9 DEF ShiftedInv
  <2>13. Len(s) <= k + 1
    BY <1>2, <2>9 DEF ShiftedInv
  <2>14. q * A!Pow2[k + 1] <= v
    BY <1>3, <2>8
  <2>15. ShiftedInv(t, v, radix, k + 1)
    BY <2>9, <2>11, <2>12, <2>13, <2>14 DEF ShiftedInv
  <2> QED BY <2>10, <2>15 DEF t
<1> QED BY <1>5, <1>6

LEMMA ShiftedDigitsAre ==
  ASSUME NEW power \in Nat, NEW radix, RadixOK(radix), radix = A!Pow2[power],
         NEW v \in Nat \ {0}, v < A!Span
  PROVE  /\ Numeral(N!ShiftedDigits(v, power), v, radix)
         /\ Len(N!ShiftedDigits(v, power)) <= Bits
<1> DEFINE S == ShiftedRounds(radix)
           round(r) == IF r.v \in Nat /\ r.digits \in Seq(0..radix - 1)
                       THEN N!ShiftedRound(r, power) ELSE r
           F == CHOOSE f : ShiftedBy(v, power, f)
<1>1. Bits \in Nat /\ Bits >= 2 /\ A!Span = A!Pow2[Bits]
  BY PowerSpan
<1>2. radix \in Nat \ {0} /\ radix = N!Pow2[power]
  BY NumberDoubles DEF RadixOK
<1>3. ASSUME NEW r \in S PROVE N!ShiftedRound(r, power) \in S
  <2>1. r.v \in Nat /\ r.digits \in Seq(0..radix - 1)
    BY DEF ShiftedRounds
  <2>2. CASE r.v = 0
    BY <2>2 DEF N!ShiftedRound
  <2>3. CASE r.v # 0
    <3>1. r.v \div radix \in Nat /\ r.v % radix \in 0..radix - 1
      <4>1. PICK x \in Nat, c \in Nat \ {0} : x = r.v /\ c = radix
        BY <1>2, <2>1
      <4>2. x \div c \in Nat /\ x % c \in 0..c - 1
        OBVIOUS
      <4> QED BY <4>1, <4>2
    <3>2. Append(r.digits, r.v % radix) \in Seq(0..radix - 1)
      BY <2>1, <3>1
    <3>3. N!ShiftedRound(r, power)
            = [v |-> r.v \div radix, digits |-> Append(r.digits, r.v % radix)]
      BY <1>2, <2>3 DEF N!ShiftedRound
    <3> QED BY <3>1, <3>2, <3>3 DEF ShiftedRounds
  <2> QED BY <2>2, <2>3
<1> DEFINE step == [r \in S |-> N!ShiftedRound(r, power)]
<1>4. step \in [S -> S]
  BY <1>3
<1>5. ShiftedStart(v) \in S
  BY DEF ShiftedStart, ShiftedRounds
<1> HIDE DEF step
<1>6. PICK g \in [0..Bits -> S] : Repeats(g, Bits, ShiftedStart(v), step)
  BY <1>1, <1>4, <1>5, Repeated
<1>7. ShiftedBy(v, power, g)
  <2>1. ASSUME NEW i \in 0..Bits, i # 0 PROVE step[g[i - 1]] = N!ShiftedRound(g[i - 1], power)
    <3>1. i - 1 \in 0..Bits
      BY <1>1, <2>1
    <3> QED BY <1>6, <3>1 DEF step
  <2> QED BY <1>6, <2>1 DEF Repeats, ShiftedBy
<1>8. ShiftedBy(v, power, F)
  BY <1>7
<1>9. N!ShiftedDigits(v, power) = F[Bits].digits
  BY Zenon DEF N!ShiftedDigits, ShiftedBy, ShiftedStart
<1> HIDE DEF F
<1>10. F = [i \in 0..Bits |-> IF i = 0 THEN ShiftedStart(v) ELSE N!ShiftedRound(F[i - 1], power)]
  BY <1>8 DEF ShiftedBy
<1>11. F[0] = ShiftedStart(v)
  BY <1>1, <1>10
<1>12. ASSUME NEW i \in 1..Bits PROVE F[i] = N!ShiftedRound(F[i - 1], power)
  BY <1>1, <1>10
<1> DEFINE Good == {i \in 0..Bits : ShiftedInv(F[i], v, radix, i)}
<1>13. 0 \in Good
  <2> DEFINE r == ShiftedStart(v)
  <2>1. r.v = v /\ r.digits = <<>> /\ Len(r.digits) = 0
    BY DEF ShiftedStart
  <2>2. N!Reverse(<<>>) = <<>>
    <3>1. <<>> \in Seq(Int) /\ Len(<<>>) = 0
      OBVIOUS
    <3>2. N!Reverse(<<>>) \in Seq(Int) /\ Len(N!Reverse(<<>>)) = 0
      BY <3>1, ReverseIs
    <3> QED BY <3>2
  <2>3. N!Meaning(v, <<>>, radix) = v
    BY <1>2, MeaningEmpty
  <2>4. v * A!Pow2[0] <= v
    BY Powers
  <2>5. ShiftedInv(r, v, radix, 0)
    <3>1. r \in S
      BY <1>5
    <3> HIDE DEF r
    <3> QED BY <2>1, <2>2, <2>3, <2>4, <3>1 DEF ShiftedInv
  <2> QED BY <1>1, <1>11, <2>5
<1>14. ASSUME NEW i \in 1..Bits, i - 1 \in Good PROVE i \in Good
  <2>1. i - 1 \in Nat /\ (i - 1) + 1 = i /\ i \in 0..Bits
    BY <1>1
  <2>2. ShiftedInv(F[i - 1], v, radix, i - 1)
    BY <1>14
  <2>3. ShiftedInv(N!ShiftedRound(F[i - 1], power), v, radix, (i - 1) + 1)
    BY <2>1, <2>2, ShiftedStep
  <2> QED BY <1>12, <2>1, <2>3
<1> HIDE DEF Good
<1>15. \A i \in 0..Bits : i \in Good
  BY <1>1, <1>13, <1>14, UpTo
<1>16. Bits \in 0..Bits /\ Bits > 0
  BY <1>1
<1>17. ShiftedInv(F[Bits], v, radix, Bits)
  BY <1>15, <1>16 DEF Good
<1> DEFINE ds == F[Bits].digits
<1>18. PICK w \in Nat : w = F[Bits].v
  BY <1>17 DEF ShiftedInv, ShiftedRounds
<1>19. w = 0
  <2>1. PICK sp \in Nat \ {0} : sp = A!Span /\ sp = A!Pow2[Bits]
    BY <1>1, SpanNat
  <2>2. w * sp <= v
    BY <1>17, <1>18, <2>1 DEF ShiftedInv
  <2>3. SUFFICES ASSUME w >= 1 PROVE FALSE
    OBVIOUS
  <2>4. 1 * sp <= w * sp
    BY <2>3, Times
  <2>5. 1 * sp = sp /\ w * sp \in Int /\ v < sp
    BY <2>1
  <2> QED BY <2>2, <2>4, <2>5
<1>20. v = N!Meaning(0, N!Reverse(ds), radix)
  BY <1>17, <1>18, <1>19 DEF ShiftedInv
<1>21. ds \in Seq(0..radix - 1) /\ ds # <<>> /\ Len(ds) <= Bits
  BY <1>16, <1>17 DEF ShiftedInv, ShiftedRounds
<1> QED BY <1>9, <1>20, <1>21 DEF Numeral

Sign(neg) == IF neg THEN <<N!Hyphen>> ELSE <<>>

(* A text of the digits of x in this base, with a sign or without.         *)
Written(string, x, radix) ==
  \E neg \in BOOLEAN, ds \in Seq(0..radix - 1) :
    /\ ds # <<>> /\ Len(ds) + 2 < LengthSpan
    /\ string = Sign(neg) \o ds
    /\ Shows(x, IF neg THEN - N!Meaning(0, ds, radix) ELSE N!Meaning(0, ds, radix))

LEMMA WrittenOf ==
  ASSUME NEW radix, RadixOK(radix), NEW ds, NEW v \in Int, Numeral(ds, v, radix),
         Len(ds) + 2 < LengthSpan, NEW neg \in BOOLEAN, NEW x,
         Shows(x, IF neg THEN - v ELSE v)
  PROVE  Written(N!Reverse(ds \o Sign(neg)), x, radix)
<1> DEFINE shown == N!Reverse(ds)
           R == 0..radix - 1
           C == R \cup {N!Hyphen}
<1>1. ds \in Seq(R) /\ ds # <<>> /\ v = N!Meaning(0, shown, radix)
  BY DEF Numeral
<1> HIDE DEF R
<1>2. shown \in Seq(R) /\ Len(shown) = Len(ds)
  BY <1>1, ReverseIs
<1>3. shown # <<>>
  <2>1. Len(ds) # 0
    BY <1>1
  <2>2. Len(<<>>) = 0
    OBVIOUS
  <2> QED BY <1>2, <2>1, <2>2
<1>4. N!Reverse(ds \o Sign(neg)) = Sign(neg) \o shown
  <2>1. ds \in Seq(C)
    BY <1>1
  <2>2. CASE neg
    <3>1. <<N!Hyphen>> \in Seq(C)
      OBVIOUS
    <3>2. N!Reverse(ds \o <<N!Hyphen>>) = N!Reverse(<<N!Hyphen>>) \o shown
      BY <2>1, <3>1, ReverseConcat
    <3>3. N!Reverse(<<N!Hyphen>>) = <<N!Hyphen>>
      BY ReverseOne
    <3> QED BY <2>2, <3>2, <3>3 DEF Sign
  <2>3. CASE ~ neg
    <3> HIDE DEF shown
    <3>1. ds \o <<>> = ds /\ <<>> \o shown = shown
      BY <1>1, <1>2, ConcatEmptySeq
    <3> QED BY <2>3, <3>1 DEF shown, Sign
  <2> QED BY <2>2, <2>3
<1> HIDE DEF shown
<1>5. Len(shown) + 2 < LengthSpan
  BY <1>2
<1>6. Shows(x, IF neg THEN - N!Meaning(0, shown, radix) ELSE N!Meaning(0, shown, radix))
  BY <1>1
<1>7. shown \in Seq(0..radix - 1)
  BY <1>2 DEF R
<1> QED BY <1>3, <1>4, <1>5, <1>6, <1>7 DEF Written

LEMMA NumberConstants ==
  /\ \A b \in Bases : RadixOK(b)
  /\ \A p \in PrefixWords : RadixOK(p.base) /\ p.name \in Seq(0..39)
  /\ \A p, q \in PrefixWords : N!IsPrefix(p.name, q.name) => p = q
  /\ Tokens \subseteq Seq(0..39)
  /\ FewDigits \in Nat /\ LengthSpan \in Nat /\ Bits \in Nat /\ Bits >= 2
  /\ 2 * Bits + 2 < LengthSpan /\ FewDigits + 2 < LengthSpan /\ Bits + 2 < LengthSpan
<1>1. Bits \in Nat /\ Bits >= 2
  BY PowerSpan
<1>2. /\ Bases \subseteq (2..36) \cap A!CellValues
      /\ \A p \in PrefixWords : p.base \in (2..36) \cap A!CellValues /\ p.name \in Seq(0..39)
      /\ \A p, q \in PrefixWords : N!IsPrefix(p.name, q.name) => p = q
      /\ Tokens \subseteq Seq(0..39)
      /\ FewDigits \in Nat /\ LengthSpan \in Nat
      /\ 2 * Bits + 2 < LengthSpan /\ FewDigits + 2 < LengthSpan
  BY NumbersAssumption, NumberDoubles DEF N!NumbersAssumption
<1>3. Bits + 2 < LengthSpan
  BY <1>1, <1>2
<1>4. ASSUME NEW b, b \in (2..36) \cap A!CellValues PROVE RadixOK(b)
  BY <1>4 DEF RadixOK
<1> QED BY <1>1, <1>2, <1>3, <1>4

LEMMA CellShown ==
  ASSUME NEW u \in A!CellValues
  PROVE  A!Pair(0, u) \in A!Double /\ A!Natural(A!Pair(0, u)) = u /\ Shows(A!Pair(0, u), u)
         /\ u \in Nat
<1>1. 0 \in A!CellValues /\ A!Span \in Nat
  BY CellFacts, SpanNat
<1>2. A!Pair(0, u) \in A!Double /\ A!Natural(A!Pair(0, u)) = 0 * A!Span + u
  BY <1>1, PairFacts
<1>3. u \in Nat
  BY CellsAre, SpanNat
<1>4. A!Natural(A!Pair(0, u)) = u
  BY <1>1, <1>2, <1>3
<1> QED BY <1>2, <1>3, <1>4, ShowsNatural

LEMMA ExtendedShown ==
  ASSUME NEW u \in A!CellValues
  PROVE  Shows(A!Extended(u), IF A!HasHighBit(u) THEN - A!Minus(u) ELSE u)
<1>1. CASE ~ A!HasHighBit(u)
  <2>1. A!Extended(u) = A!Pair(0, u)
    BY <1>1 DEF A!Extended
  <2> QED BY <1>1, <2>1, CellShown
<1>2. CASE A!HasHighBit(u)
  <2>1. Magn(u) = A!Minus(u) /\ A!Signed(u) = - Magn(u) /\ Magn(u) \in A!CellValues
    BY <1>2, SignedIs DEF Magn
  <2>2. A!Signed(u) = u - A!Span
    BY <1>2 DEF A!Signed, A!HasHighBit
  <2>3. A!Span - 1 \in A!CellValues /\ A!Span \in Nat \ {0}
    BY CellFacts, SpanNat
  <2>4. A!Extended(u) = A!Pair(A!Span - 1, u)
    BY <1>2 DEF A!Extended
  <2>5. /\ A!Extended(u) \in A!Double
        /\ A!Natural(A!Extended(u)) = (A!Span - 1) * A!Span + u
    BY <2>3, <2>4, PairFacts
  <2>6. (A!Span - 1) * A!Span = A!Span * A!Span - A!Span
    BY <2>3
  <2>7. u \in Nat /\ A!Minus(u) \in Int
    BY <2>1, CellsAre, SpanNat
  <2>8. PICK s \in Nat, sq \in Int : s = A!Span /\ sq = A!Span * A!Span
    BY <2>3
  <2>9. A!Natural(A!Extended(u)) = sq - s + u /\ - A!Minus(u) = u - s
    BY <2>1, <2>2, <2>5, <2>6, <2>7, <2>8
  <2>10. - A!Minus(u) = (-1) * Square + A!Natural(A!Extended(u))
    BY <2>7, <2>8, <2>9 DEF Square
  <2>11. \E q \in Int : - A!Minus(u) = q * Square + A!Natural(A!Extended(u))
    BY <2>10
  <2> QED BY <1>2, <2>5, <2>11 DEF Shows
<1> QED BY <1>1, <1>2

LEMMA UltoaWritten ==
  ASSUME NEW u \in A!CellValues, NEW radix, RadixOK(radix)
  PROVE  Written(N!Ultoa(u, radix), A!Pair(0, u), radix)
<1> DEFINE ds == N!DigitsOf(A!Pair(0, u), radix)
<1>1. Numeral(ds, u, radix) /\ Len(ds) <= 2 * Bits
  BY CellShown, DigitsOfIs
<1>2. u \in Int /\ Shows(A!Pair(0, u), u)
  BY CellShown
<1> HIDE DEF ds
<1>3. Len(ds) + 2 < LengthSpan
  <2>1. Len(ds) \in Nat
    BY <1>1 DEF Numeral
  <2> QED BY <1>1, <2>1, NumberConstants
<1>4. Written(N!Reverse(ds \o Sign(FALSE)), A!Pair(0, u), radix)
  BY <1>1, <1>2, <1>3, WrittenOf
<1>5. ds \o Sign(FALSE) = ds
  <2>1. ds \in Seq(0..radix - 1)
    BY <1>1 DEF Numeral
  <2> QED BY <2>1, ConcatEmptySeq DEF Sign
<1>6. N!Ultoa(u, radix) = N!Reverse(ds)
  BY NumberCells DEF N!Ultoa, ds
<1> QED BY <1>4, <1>5, <1>6

LEMMA LtoaWritten ==
  ASSUME NEW u \in A!CellValues, NEW radix, RadixOK(radix)
  PROVE  Written(N!Ltoa(u, radix), IF radix = 10 THEN A!Extended(u) ELSE A!Pair(0, u), radix)
<1> DEFINE sign == radix = 10 /\ A!HasHighBit(u)
           v == IF sign THEN A!Minus(u) ELSE u
           ds == IF v = 0 THEN <<0>>
                 ELSE IF N!Power(radix) # 0 THEN N!ShiftedDigits(v, N!Power(radix))
                 ELSE N!DigitsOf(A!Pair(0, v), radix)
           x == IF radix = 10 THEN A!Extended(u) ELSE A!Pair(0, u)
<1>1. N!Ltoa(u, radix) = N!Reverse(ds \o Sign(sign))
  <2>1. N!HasHighBit(u) = A!HasHighBit(u) /\ N!Minus(u) = A!Minus(u)
    BY NumberCells
  <2>2. N!Pair(0, v) = A!Pair(0, v)
    BY DEF N!Pair, A!Pair
  <2>3. N!Ltoa(u, radix) =
          LET sn == radix = 10 /\ A!HasHighBit(u)
              mg == IF sn THEN A!Minus(u) ELSE u
          IN  N!Reverse((IF mg = 0 THEN <<0>>
                         ELSE IF N!Power(radix) # 0 THEN N!ShiftedDigits(mg, N!Power(radix))
                         ELSE N!DigitsOf(N!Pair(0, mg), radix)) \o
                        (IF sn THEN <<N!Hyphen>> ELSE <<>>))
    BY <2>1 DEF N!Ltoa
  <2> QED BY <2>2, <2>3 DEF Sign
<1>2. v \in A!CellValues
  BY SignedIs DEF Magn
<1>3. Shows(x, IF sign THEN - v ELSE v)
  BY CellShown, ExtendedShown
<1>4. radix \in Nat /\ radix >= 2
  BY DEF RadixOK
<1>5. sign \in BOOLEAN
  BY DEF A!HasHighBit
<1> HIDE DEF sign
<1>6. v \in Nat /\ v < A!Span
  BY <1>2, CellsAre, SpanNat
<1> DEFINE few == ds \in Seq(0..radix - 1) /\ Numeral(ds, v, radix) /\ Len(ds) <= 2 * Bits
<1>7. ASSUME v = 0 PROVE few
  <2>1. ds = <<0>>
    BY <1>7
  <2>2. <<0>> \in Seq(0..radix - 1) /\ Len(<<0>>) = 1 /\ <<0>> # <<>>
    BY <1>4
  <2>3. PICK zero \in Int : zero = 0
    OBVIOUS
  <2>4. N!Meaning(zero, <<zero>>, radix) = 0
    <3>1. Take(zero, zero, radix) = 0
      BY <1>4, <2>3, Characters DEF Take
    <3> QED BY <1>4, <3>1, MeaningOne
  <2>5. N!Reverse(<<0>>) = <<0>>
    BY ReverseOne
  <2>6. 1 <= 2 * Bits
    BY NumberConstants
  <2> HIDE DEF ds, v
  <2> QED BY <1>7, <2>1, <2>2, <2>3, <2>4, <2>5, <2>6 DEF Numeral
<1>8. ASSUME v # 0 /\ N!Power(radix) # 0 PROVE few
  <2>1. \E i \in 1..(Bits - 1) : radix = N!Pow2[i]
    BY <1>8 DEF N!Power
  <2>2. N!Power(radix) \in 1..(Bits - 1) /\ radix = N!Pow2[N!Power(radix)]
    BY <2>1 DEF N!Power
  <2>3. PICK power \in Nat : power = N!Power(radix) /\ radix = A!Pow2[power]
    BY <2>2, NumberDoubles
  <2>4. ds = N!ShiftedDigits(v, power)
    BY <1>8, <2>3
  <2>5. v \in Nat \ {0}
    BY <1>6, <1>8
  <2> HIDE DEF ds, v
  <2>6. Numeral(ds, v, radix) /\ Len(ds) <= Bits
    BY <1>6, <2>3, <2>4, <2>5, ShiftedDigitsAre
  <2>7. ds \in Seq(0..radix - 1)
    BY <2>6 DEF Numeral
  <2>8. Len(ds) \in Nat
    BY <2>7
  <2>9. Len(ds) <= 2 * Bits
    BY <2>6, <2>8, NumberConstants
  <2> QED BY <2>6, <2>7, <2>9
<1>9. ASSUME v # 0 /\ N!Power(radix) = 0 PROVE few
  <2>1. ds = N!DigitsOf(A!Pair(0, v), radix)
    BY <1>9
  <2> HIDE DEF ds, v
  <2>2. Numeral(ds, v, radix) /\ Len(ds) <= 2 * Bits
    BY <1>2, <2>1, CellShown, DigitsOfIs
  <2> QED BY <2>2 DEF Numeral
<1> HIDE DEF ds, v, x
<1>10. few
  BY <1>7, <1>8, <1>9
<1>11. Len(ds) \in Nat
  BY <1>10
<1>12. Len(ds) + 2 < LengthSpan
  BY <1>10, <1>11, NumberConstants
<1>13. Written(N!Reverse(ds \o Sign(sign)), x, radix)
  BY <1>3, <1>5, <1>6, <1>10, <1>12, WrittenOf
<1> QED BY <1>1, <1>13 DEF x

HasDigit(token) == \E i \in 1..Len(token) : token[i] \in N!Digits

Unsigned(token) == IF Head(token) \in {N!Hyphen, N!Plus} THEN Tail(token) ELSE token

Wrong(body, radix) ==
  \E i \in 1..Len(body) :
    body[i] \notin N!Separators /\ ~ (body[i] \in N!Digits /\ body[i] < radix)

SignedMeaning(token, radix) ==
  IF Head(token) = N!Hyphen THEN - N!Meaning(0, token, radix) ELSE N!Meaning(0, token, radix)

(* What a token is read as.                                                *)
Parsed(token, radix) ==
  IF Wrong(Unsigned(token), radix) THEN N!Nothing
  ELSE [accepted |-> TRUE,
        double |-> \E i \in 1..Len(Unsigned(token)) : Unsigned(token)[i] \in N!Separators,
        value |-> A!Pair((SignedMeaning(token, radix) \div A!Span) % A!Span,
                         SignedMeaning(token, radix) % A!Span)]

LEMMA SignNoDigit == ASSUME NEW c, c \in {N!Hyphen, N!Plus} PROVE c \notin N!Digits
BY Characters

(* A token and what follows its sign.                                      *)
LEMMA UnsignedIs ==
  ASSUME NEW token \in Seq(0..39), NEW radix, RadixOK(radix), HasDigit(token)
  PROVE  /\ Unsigned(token) \in Seq(0..39) /\ HasDigit(Unsigned(token))
         /\ Len(Unsigned(token)) <= Len(token)
         /\ N!Meaning(0, token, radix) = N!Meaning(0, Unsigned(token), radix)
         /\ (Len(token) > 1 /\ token[1] \in {N!Hyphen, N!Plus})
              <=> Head(token) \in {N!Hyphen, N!Plus}
         /\ Head(token) = token[1] /\ token # <<>>
<1> DEFINE C == 0..39
<1>1. token \in Seq(C) /\ Len(token) \in Nat
  OBVIOUS
<1> HIDE DEF C
<1>2. PICK i \in 1..Len(token) : token[i] \in N!Digits
  BY DEF HasDigit
<1>3. token # <<>> /\ Len(token) >= 1 /\ Head(token) = token[1]
  BY <1>1, <1>2
<1>4. CASE Head(token) \in {N!Hyphen, N!Plus}
  <2>1. i # 1
    BY <1>2, <1>3, <1>4, SignNoDigit
  <2>2. Len(token) > 1
    BY <1>1, <2>1
  <2>3. Unsigned(token) = Tail(token)
    BY <1>4 DEF Unsigned
  <2> DEFINE b == Tail(token)
  <2>4. /\ b \in Seq(C) /\ Len(b) = Len(token) - 1
        /\ \A j \in 1..Len(b) : b[j] = token[j + 1]
    BY <1>1, <1>3, HeadTailProperties
  <2> HIDE DEF b
  <2>5. HasDigit(b)
    <3>1. i - 1 \in 1..Len(b) /\ (i - 1) + 1 = i
      BY <1>1, <2>1, <2>4
    <3>2. b[i - 1] = token[i]
      BY <2>4, <3>1
    <3> QED BY <1>2, <3>1, <3>2 DEF HasDigit
  <2>6. Len(b) <= Len(token)
    BY <1>1, <2>4
  <2>7. token = <<token[1]>> \o b
    <3> DEFINE a == <<token[1]>>
    <3>1. token[1] \in C
      BY <1>1, <1>3
    <3>2. a \in Seq(C) /\ Len(a) = 1 /\ a[1] = token[1]
      BY <3>1
    <3> HIDE DEF a
    <3>3. /\ a \o b \in Seq(C) /\ Len(a \o b) = Len(a) + Len(b)
          /\ \A j \in 1..Len(a) + Len(b) : (a \o b)[j] =
               IF j <= Len(a) THEN a[j] ELSE b[j - Len(a)]
      <4>1. a \in Seq(C) /\ b \in Seq(C)
        BY <2>4, <3>2
      <4> QED BY <4>1, ConcatProperties
    <3>4. ASSUME NEW j \in 1..Len(token) PROVE token[j] = (a \o b)[j]
      <4>1. j \in 1..Len(a) + Len(b)
        BY <1>1, <2>4, <3>2
      <4>2. CASE j = 1
        BY <3>2, <3>3, <4>1, <4>2
      <4>3. CASE j # 1
        <5>1. j - 1 \in 1..Len(b) /\ (j - 1) + 1 = j /\ ~ (j <= 1)
          BY <1>1, <2>4, <4>3
        <5> QED BY <2>4, <3>2, <3>3, <4>1, <5>1
      <4> QED BY <4>2, <4>3
    <3>5. Len(token) = Len(a \o b)
      BY <1>1, <2>4, <3>2, <3>3
    <3>6. token = a \o b
      BY <1>1, <3>3, <3>4, <3>5, SeqEqual
    <3> QED BY <3>6 DEF a
  <2>8. N!Meaning(0, token, radix) = N!Meaning(0, b, radix)
    <3>1. PICK zero \in Int : zero = 0
      OBVIOUS
    <3>2. radix \in Int
      BY DEF RadixOK
    <3>3. <<token[1]>> \in Seq(C)
      BY <1>1, <1>3
    <3>4. N!Meaning(zero, <<token[1]>> \o b, radix)
            = N!Meaning(N!Meaning(zero, <<token[1]>>, radix), b, radix)
      BY <2>4, <3>2, <3>3, MeaningConcat, ZenonT(40)
    <3>5. token[1] \notin N!Digits
      BY <1>3, <1>4, SignNoDigit
    <3>6. N!Meaning(zero, <<token[1]>>, radix) = zero
      BY <3>2, <3>5, MeaningOne DEF Take
    <3> QED BY <2>7, <3>1, <3>4, <3>6
  <2>9. b \in Seq(0..39)
    BY <2>4 DEF C
  <2> QED BY <1>3, <1>4, <2>2, <2>3, <2>5, <2>6, <2>8, <2>9 DEF b
<1>5. CASE Head(token) \notin {N!Hyphen, N!Plus}
  <2>1. Unsigned(token) = token
    BY <1>5 DEF Unsigned
  <2> QED BY <1>1, <1>3, <1>5, <2>1
<1> QED BY <1>4, <1>5

Pointed(body) == body # <<>> /\ body[Len(body)] \in N!Separators
Unpointed(body) == IF Pointed(body) THEN N!Front(body) ELSE body

(* A body and what comes before the separator at its end.                  *)
LEMMA UnpointedIs ==
  ASSUME NEW body \in Seq(0..39), NEW radix, RadixOK(radix), HasDigit(body)
  PROVE  /\ Unpointed(body) \in Seq(0..39) /\ Unpointed(body) # <<>>
         /\ Len(body) = IF Pointed(body) THEN Len(Unpointed(body)) + 1 ELSE Len(Unpointed(body))
         /\ \A i \in 1..Len(Unpointed(body)) : Unpointed(body)[i] = body[i]
         /\ N!Meaning(0, body, radix) = N!Meaning(0, Unpointed(body), radix)
<1> DEFINE C == 0..39
<1>1. body \in Seq(C) /\ Len(body) \in Nat
  OBVIOUS
<1> HIDE DEF C
<1>2. PICK i \in 1..Len(body) : body[i] \in N!Digits
  BY DEF HasDigit
<1>3. CASE Pointed(body)
  <2> DEFINE n == Len(body)
             d == SubSeq(body, 1, n - 1)
             c == body[n]
  <2>1. c \in N!Separators /\ n \in Nat /\ n >= 1
    BY <1>1, <1>2, <1>3 DEF Pointed
  <2>2. i # n
    BY <1>2, <2>1, NoDigit
  <2>3. n > 1
    BY <1>1, <2>1, <2>2
  <2>4. Unpointed(body) = d
    BY <1>3 DEF Unpointed, N!Front
  <2>5. /\ d \in Seq(C) /\ Len(d) = n - 1
        /\ \A j \in 1..n - 1 : d[j] = body[j]
    <3>1. \A j \in 1..n - 1 : body[j] \in C
      BY <1>1
    <3>2. 1 \in Int /\ n - 1 \in Int /\ 1 <= n - 1
      BY <2>3
    <3>3. /\ d \in Seq(C) /\ Len(d) = (IF 1 <= n - 1 THEN (n - 1) - 1 + 1 ELSE 0)
          /\ \A j \in 1..(n - 1) - 1 + 1 : d[j] = body[1 + j - 1]
      BY <3>1, <3>2, SubSeqProperties
    <3>4. (n - 1) - 1 + 1 = n - 1 /\ \A j \in 1..n - 1 : 1 + j - 1 = j
      BY <2>1
    <3> HIDE DEF d, n
    <3> QED BY <3>2, <3>3, <3>4
  <2>6. c \in C
    BY <1>1, <2>1
  <2>7. <<c>> \in Seq(C) /\ Len(<<c>>) = 1 /\ <<c>>[1] = c
    BY <2>6
  <2> HIDE DEF d
  <2>8. body = d \o <<c>>
    <3> DEFINE a == <<c>>
    <3>1. a \in Seq(C) /\ Len(a) = 1 /\ a[1] = c
      BY <2>7
    <3> HIDE DEF a
    <3>2. /\ d \o a \in Seq(C) /\ Len(d \o a) = Len(d) + Len(a)
          /\ \A j \in 1..Len(d) + Len(a) : (d \o a)[j] =
               IF j <= Len(d) THEN d[j] ELSE a[j - Len(d)]
      BY <2>5, <3>1, ConcatProperties
    <3>3. ASSUME NEW j \in 1..Len(body) PROVE body[j] = (d \o a)[j]
      <4>1. j \in 1..Len(d) + Len(a) /\ j \in Nat
        BY <1>1, <2>5, <3>1
      <4>2. CASE j = n
        <5>1. ~ (j <= Len(d)) /\ j - Len(d) = 1
          BY <1>1, <2>5, <4>2
        <5>2. (d \o a)[j] = a[1]
          BY <3>2, <4>1, <5>1
        <5> QED BY <3>1, <4>2, <5>2
      <4>3. CASE j # n
        <5>1. j <= Len(d) /\ j \in 1..n - 1
          BY <1>1, <2>5, <4>3
        <5> QED BY <2>5, <3>2, <4>1, <5>1
      <4> QED BY <4>2, <4>3
    <3>4. Len(body) = Len(d \o a)
      BY <1>1, <2>5, <3>1, <3>2
    <3>5. body = d \o a
      BY <1>1, <3>2, <3>3, <3>4, SeqEqual
    <3> QED BY <3>5 DEF a
  <2>9. N!Meaning(0, body, radix) = N!Meaning(0, d, radix)
    <3>1. PICK zero \in Int : zero = 0
      OBVIOUS
    <3>2. radix \in Int
      BY DEF RadixOK
    <3> HIDE DEF c
    <3>3. N!Meaning(zero, d \o <<c>>, radix)
            = N!Meaning(N!Meaning(zero, d, radix), <<c>>, radix)
      BY <2>5, <2>7, <3>2, MeaningConcat, ZenonT(40)
    <3>4. PICK m \in Int : m = N!Meaning(zero, d, radix)
      BY <2>5, <3>2, MeaningInt
    <3>5. N!Meaning(m, <<c>>, radix) = m
      BY <2>1, <3>2, NoDigit, MeaningOne DEF Take
    <3> QED BY <2>8, <3>1, <3>3, <3>4, <3>5
  <2>10. d # <<>>
    <3>1. Len(d) # 0
      BY <2>3, <2>5
    <3> QED BY <3>1
  <2>11. Len(body) = Len(d) + 1
    BY <2>1, <2>5
  <2>12. d \in Seq(0..39)
    BY <2>5 DEF C
  <2> HIDE DEF c
  <2> QED BY <1>3, <2>4, <2>5, <2>9, <2>10, <2>11, <2>12
<1>4. CASE ~ Pointed(body)
  <2>1. Unpointed(body) = body
    BY <1>4 DEF Unpointed
  <2>2. body # <<>>
    BY <1>1, <1>2
  <2> QED BY <1>4, <2>1, <2>2
<1> QED BY <1>3, <1>4

(* ficlVmParseNumber                                                       *)
(* What the eight bits of its length leave of a token.                     *)
LEMMA KeptWhole ==
  ASSUME NEW token \in Seq(0..39), Len(token) < LengthSpan
  PROVE  N!Kept(token) = token
<1>1. Len(token) \in Nat /\ LengthSpan \in Nat
  BY NumberConstants
<1>2. PICK l \in Nat, s \in Nat \ {0} : l = Len(token) /\ s = LengthSpan /\ l < s
  BY <1>1
<1>3. l % s = l
  BY <1>2
<1>4. Len(token) % LengthSpan = Len(token)
  BY <1>2, <1>3
<1>5. SubSeq(token, 1, Len(token)) = token
  OBVIOUS
<1> QED BY <1>4, <1>5 DEF N!Kept

LEMMA KeptIs ==
  ASSUME NEW token \in Seq(0..39)
  PROVE  N!Kept(token) \in Seq(0..39) /\ Len(N!Kept(token)) < LengthSpan
<1>1. Len(token) \in Nat /\ LengthSpan \in Nat \ {0}
  BY NumberConstants
<1>2. PICK l \in Nat, s \in Nat \ {0} : l = Len(token) /\ s = LengthSpan
  BY <1>1
<1>3. l % s \in Nat /\ l % s < s /\ l % s <= l
  BY <1>2
<1>4. PICK k \in Nat : k = Len(token) % LengthSpan /\ k < LengthSpan /\ k <= Len(token)
  BY <1>2, <1>3
<1> DEFINE C == 0..39
<1>5. token \in Seq(C)
  OBVIOUS
<1> HIDE DEF C
<1>6. \A i \in 1..k : token[i] \in C
  BY <1>1, <1>4, <1>5, ElementOfSeq
<1>7. /\ SubSeq(token, 1, k) \in Seq(C)
      /\ Len(SubSeq(token, 1, k)) = IF 1 <= k THEN k - 1 + 1 ELSE 0
  BY <1>1, <1>4, <1>5, <1>6, SubSeqProperties
<1>8. Len(SubSeq(token, 1, k)) = k
  BY <1>4, <1>7
<1> QED BY <1>4, <1>7, <1>8 DEF N!Kept, C

LEMMA ParseKept ==
  ASSUME NEW token \in Seq(0..39), NEW radix
  PROVE  N!ParseNumber(token, radix) = N!ParseNumber(N!Kept(token), radix)
<1>1. N!Kept(N!Kept(token)) = N!Kept(token)
  BY KeptIs, KeptWhole
<1> QED BY <1>1 DEF N!ParseNumber

(* Without a character a token is no number.                               *)
LEMMA ParseNone == ASSUME NEW radix PROVE N!ParseNumber(<<>>, radix) = N!Nothing
<1>1. N!Kept(<<>>) = <<>>
  <2>1. <<>> \in Seq(0..39) /\ Len(<<>>) = 0
    OBVIOUS
  <2>2. 0 < LengthSpan
    BY NumberConstants
  <2> QED BY <2>1, <2>2, KeptWhole
<1> QED BY <1>1 DEF N!ParseNumber

LEMMA ParseIs ==
  ASSUME NEW token \in Seq(0..39), Len(token) < LengthSpan, NEW radix, RadixOK(radix),
         HasDigit(token)
  PROVE  N!ParseNumber(token, radix) = Parsed(token, radix)
<1> DEFINE body == Unsigned(token)
           digits == Unpointed(body)
           used == {digits[i] : i \in 1..Len(digits)}
           minus == Head(token) = N!Hyphen
           acc == N!Accumulated(digits, radix)
           bad == \E c \in used \ N!Separators : c \notin N!Digits \/ c >= radix
           dbl == Pointed(body) \/ used \cap N!Separators # {}
           result == IF minus THEN A!Negate(acc) ELSE acc
<1>1. /\ body \in Seq(0..39) /\ HasDigit(body)
      /\ N!Meaning(0, token, radix) = N!Meaning(0, body, radix)
      /\ (Len(token) > 1 /\ token[1] \in {N!Hyphen, N!Plus})
           <=> Head(token) \in {N!Hyphen, N!Plus}
      /\ Head(token) = token[1]
  BY UnsignedIs
<1>2. /\ digits \in Seq(0..39) /\ digits # <<>>
      /\ Len(body) = IF Pointed(body) THEN Len(digits) + 1 ELSE Len(digits)
      /\ \A i \in 1..Len(digits) : digits[i] = body[i]
      /\ N!Meaning(0, body, radix) = N!Meaning(0, digits, radix)
  BY <1>1, UnpointedIs
<1>3. N!Kept(token) = token
  BY KeptWhole
<1>4. N!ParseNumber(token, radix) =
        IF digits = <<>> \/ bad THEN N!Nothing
        ELSE [accepted |-> TRUE, double |-> dbl, value |-> result]
  <2> DEFINE signed == Len(token) > 1 /\ token[1] \in {N!Hyphen, N!Plus}
             B == IF signed THEN Tail(token) ELSE token
             P == B # <<>> /\ B[Len(B)] \in N!Separators
             E == IF P THEN N!Front(B) ELSE B
             U == {E[i] : i \in 1..Len(E)}
             V == N!Accumulated(E, radix)
  <2>1. N!ParseNumber(token, radix) =
          IF E = <<>> \/ \E c \in U \ N!Separators : c \notin N!Digits \/ c >= radix
          THEN N!Nothing
          ELSE [accepted |-> TRUE, double |-> P \/ U \cap N!Separators # {},
                value |-> IF signed /\ token[1] = N!Hyphen THEN N!Negate(V) ELSE V]
    BY <1>3, Zenon DEF N!ParseNumber
  <2>2. B = body
    BY <1>1 DEF Unsigned
  <2> HIDE DEF body, B
  <2>3. P = Pointed(body)
    BY <2>2 DEF Pointed
  <2>4. E = digits
    BY <2>2, <2>3 DEF Unpointed
  <2>5. (signed /\ token[1] = N!Hyphen) <=> minus
    BY <1>1
  <2> HIDE DEF signed, minus, digits, E
  <2>6. N!Negate(V) = A!Negate(V)
    BY NumberCells
  <2> QED BY <2>1, <2>3, <2>4, <2>5, <2>6
<1> HIDE DEF body, digits
<1>5. ASSUME NEW i \in 1..Len(body), i \notin 1..Len(digits)
      PROVE  Pointed(body) /\ i = Len(body) /\ body[i] \in N!Separators
  <2>1. Len(digits) \in Nat /\ Len(body) \in Nat
    BY <1>1, <1>2
  <2>2. Pointed(body) /\ i = Len(body)
    BY <1>2, <1>5, <2>1
  <2> QED BY <2>2 DEF Pointed
<1>6. ASSUME NEW i \in 1..Len(digits)
      PROVE  i \in 1..Len(body) /\ digits[i] = body[i] /\ digits[i] \in used
  <2>1. Len(digits) \in Nat /\ Len(body) \in Nat /\ Len(digits) <= Len(body)
    BY <1>1, <1>2
  <2> QED BY <1>2, <2>1
<1>7. ASSUME NEW c \in N!Digits PROVE c >= radix <=> ~ (c < radix)
  <2>1. c \in 0..35
    BY Characters
  <2>2. radix \in Nat
    BY DEF RadixOK
  <2> QED BY <2>1, <2>2
<1>8. bad <=> Wrong(body, radix)
  <2>1. ASSUME bad PROVE Wrong(body, radix)
    <3>1. PICK i \in 1..Len(digits) : /\ digits[i] \notin N!Separators
                                      /\ digits[i] \notin N!Digits \/ digits[i] >= radix
      BY <2>1
    <3>2. ~ (digits[i] \in N!Digits /\ digits[i] < radix)
      BY <1>7, <3>1
    <3> QED BY <1>6, <3>1, <3>2 DEF Wrong
  <2>2. ASSUME Wrong(body, radix) PROVE bad
    <3>1. PICK i \in 1..Len(body) : /\ body[i] \notin N!Separators
                                    /\ ~ (body[i] \in N!Digits /\ body[i] < radix)
      BY <2>2 DEF Wrong
    <3>2. i \in 1..Len(digits)
      BY <1>5, <3>1
    <3>3. digits[i] \in used \ N!Separators
      BY <1>6, <3>1, <3>2
    <3>4. digits[i] \notin N!Digits \/ digits[i] >= radix
      BY <1>6, <1>7, <3>1, <3>2
    <3> HIDE DEF used
    <3> QED BY <3>3, <3>4
  <2> QED BY <2>1, <2>2
<1>9. dbl <=> \E i \in 1..Len(body) : body[i] \in N!Separators
  <2>1. ASSUME dbl PROVE \E i \in 1..Len(body) : body[i] \in N!Separators
    <3>1. CASE Pointed(body)
      <4>1. Len(body) \in 1..Len(body)
        BY <1>1, <3>1 DEF Pointed
      <4> QED BY <3>1, <4>1 DEF Pointed
    <3>2. CASE used \cap N!Separators # {}
      <4>1. PICK i \in 1..Len(digits) : digits[i] \in N!Separators
        BY <3>2
      <4> QED BY <1>6, <4>1
    <3> QED BY <2>1, <3>1, <3>2
  <2>2. ASSUME NEW i \in 1..Len(body), body[i] \in N!Separators PROVE dbl
    <3>1. CASE i \in 1..Len(digits)
      BY <1>6, <2>2, <3>1
    <3>2. CASE i \notin 1..Len(digits)
      BY <1>5, <3>2
    <3> QED BY <3>1, <3>2
  <2> QED BY <2>1, <2>2
<1> DEFINE signs == SignedMeaning(token, radix)
           shown == A!Pair((signs \div A!Span) % A!Span, signs % A!Span)
<1>10. ASSUME ~ bad PROVE result = shown
  <2>1. Readable(digits, radix)
    <3>1. ASSUME NEW i \in 1..Len(digits), digits[i] \notin N!Separators
          PROVE  digits[i] \in Nat /\ digits[i] < radix
      <4>1. digits[i] \in used \ N!Separators
        BY <1>6, <3>1
      <4> HIDE DEF used
      <4>2. digits[i] \in N!Digits /\ ~ (digits[i] >= radix)
        BY <1>10, <4>1
      <4>3. PICK c \in N!Digits : c = digits[i]
        BY <4>2
      <4>4. c < radix
        BY <1>7, <4>2, <4>3
      <4>5. c \in Nat
        BY Characters
      <4> QED BY <4>3, <4>4, <4>5
    <3> QED BY <3>1 DEF Readable
  <2>2. Shows(acc, N!Meaning(0, digits, radix))
    BY <1>2, <2>1, AccumulatedShows
  <2>3. N!Meaning(0, digits, radix) = N!Meaning(0, token, radix)
    BY <1>1, <1>2
  <2>4. PICK m \in Int : m = N!Meaning(0, token, radix)
    <3>1. PICK zero \in Int : zero = 0
      OBVIOUS
    <3>2. radix \in Int
      BY DEF RadixOK
    <3>3. N!Meaning(zero, token, radix) \in Int
      BY <3>2, MeaningInt
    <3> QED BY <3>1, <3>3
  <2>5. Shows(acc, m)
    BY <2>2, <2>3, <2>4
  <2> HIDE DEF acc
  <2>6. signs = IF minus THEN - m ELSE m
    BY <2>4 DEF SignedMeaning
  <2>7. signs \in Int
    BY <2>6
  <2>8. Shows(result, signs)
    BY <2>5, <2>6, ShowsNegate
  <2> HIDE DEF signs, result
  <2>9. Shows(shown, signs)
    BY <2>7, ShowsPair
  <2> HIDE DEF shown
  <2> QED BY <2>7, <2>8, <2>9, ShowsOnce
<1>11. Parsed(token, radix) =
         IF Wrong(body, radix) THEN N!Nothing
         ELSE [accepted |-> TRUE,
               double |-> \E i \in 1..Len(body) : body[i] \in N!Separators, value |-> shown]
  BY Zenon DEF Parsed, body
<1>12. dbl = \E i \in 1..Len(body) : body[i] \in N!Separators
  <2> HIDE DEF dbl
  <2>1. dbl \in BOOLEAN
    BY DEF dbl, Pointed
  <2> QED BY <1>9, <2>1
<1> HIDE DEF bad, dbl, result, shown
<1>13. CASE bad
  BY <1>4, <1>8, <1>11, <1>13
<1>14. CASE ~ bad
  <2>1. N!ParseNumber(token, radix) = [accepted |-> TRUE, double |-> dbl, value |-> result]
    BY <1>2, <1>4, <1>14
  <2>2. Parsed(token, radix) = [accepted |-> TRUE, double |-> dbl, value |-> shown]
    BY <1>8, <1>11, <1>12, <1>14
  <2> QED BY <1>10, <1>14, <2>1, <2>2
<1> QED BY <1>13, <1>14

LEMMA SeqWithin ==
  ASSUME NEW S, NEW U, \A x \in S : x \in U, NEW s \in Seq(S)
  PROVE  s \in Seq(U)
OBVIOUS

LEMMA SignIs ==
  ASSUME NEW neg \in BOOLEAN
  PROVE  /\ Sign(neg) \in Seq(0..39) /\ Len(Sign(neg)) \in {0, 1}
         /\ (neg => Sign(neg) = <<N!Hyphen>>) /\ (~ neg => Sign(neg) = <<>>)
<1>1. N!Hyphen \in 0..39
  BY Characters
<1>2. CASE neg
  <2>1. <<N!Hyphen>> \in Seq(0..39) /\ Len(<<N!Hyphen>>) = 1
    BY <1>1
  <2> QED BY <1>2, <2>1 DEF Sign
<1>3. CASE ~ neg
  <2>1. <<>> \in Seq(0..39) /\ Len(<<>>) = 0
    OBVIOUS
  <2> QED BY <1>3, <2>1 DEF Sign
<1> QED BY <1>2, <1>3

LEMMA PointIs ==
  ASSUME NEW tail, tail \in {<<>>, <<N!Point>>}
  PROVE  /\ tail \in Seq(0..39) /\ Len(tail) \in {0, 1}
         /\ (tail # <<>> => tail = <<N!Point>> /\ Len(tail) = 1)
<1>1. N!Point \in 0..39
  BY Characters
<1>2. CASE tail = <<>>
  <2>1. <<>> \in Seq(0..39) /\ Len(<<>>) = 0
    OBVIOUS
  <2> QED BY <1>2, <2>1
<1>3. CASE tail = <<N!Point>>
  <2>1. <<N!Point>> \in Seq(0..39) /\ Len(<<N!Point>>) = 1
    BY <1>1
  <2> QED BY <1>3, <2>1
<1> QED BY <1>2, <1>3

(* A text as it was output, and a point behind it or none.                 *)
LEMMA TextIs ==
  ASSUME NEW radix, RadixOK(radix), NEW neg \in BOOLEAN,
         NEW ds \in Seq(0..radix - 1), ds # <<>>, Len(ds) + 2 < LengthSpan,
         NEW tail, tail \in {<<>>, <<N!Point>>},
         NEW t, t = Sign(neg) \o (ds \o tail)
  PROVE  /\ t \in Seq(0..39) /\ t # <<>> /\ Len(t) < LengthSpan
         /\ Head(t) = N!Hyphen <=> neg
         /\ Unsigned(t) = ds \o tail /\ HasDigit(t)
         /\ (N!Last(t) = N!Point) <=> tail # <<>>
<1> DEFINE C == 0..39
           B == ds \o tail
           S == Sign(neg)
<1>1. /\ radix \in Nat /\ radix <= 36
  BY DEF RadixOK
<1>2. ds \in Seq(C) /\ Len(ds) \in Nat /\ Len(ds) >= 1
  <2>1. \A x \in 0..radix - 1 : x \in C
    BY <1>1
  <2>2. ds \in Seq(C)
    BY <2>1, SeqWithin
  <2>3. Len(ds) \in Nat /\ Len(ds) # 0
    BY <2>2
  <2> QED BY <2>2, <2>3
<1>3. ASSUME NEW i \in 1..Len(ds) PROVE ds[i] \in 0..radix - 1 /\ ds[i] \in N!Digits
  <2>1. ds[i] \in 0..radix - 1
    BY ElementOfSeq
  <2>2. \A x \in 0..radix - 1 : x \in 0..35
    BY <1>1
  <2> QED BY <2>1, <2>2, Characters
<1>4. tail \in Seq(C) /\ Len(tail) \in {0, 1} /\ (tail # <<>> => tail = <<N!Point>> /\ Len(tail) = 1)
  BY PointIs
<1>5. S \in Seq(C) /\ Len(S) \in {0, 1} /\ (neg => S = <<N!Hyphen>>) /\ (~ neg => S = <<>>)
  BY SignIs
<1> HIDE DEF C, S
<1>6. /\ B \in Seq(C) /\ Len(B) = Len(ds) + Len(tail)
      /\ \A i \in 1..Len(ds) + Len(tail) : B[i] =
           IF i <= Len(ds) THEN ds[i] ELSE tail[i - Len(ds)]
  BY <1>2, <1>4, ConcatProperties
<1>7. t = S \o B
  BY DEF S
<1> HIDE DEF B
<1>8. /\ t \in Seq(C) /\ Len(t) = Len(S) + Len(B)
      /\ \A i \in 1..Len(S) + Len(B) : t[i] =
           IF i <= Len(S) THEN S[i] ELSE B[i - Len(S)]
  <2>1. S \in Seq(C) /\ B \in Seq(C)
    BY <1>5, <1>6
  <2>2. /\ S \o B \in Seq(C) /\ Len(S \o B) = Len(S) + Len(B)
        /\ \A i \in 1..Len(S) + Len(B) : (S \o B)[i] =
             IF i <= Len(S) THEN S[i] ELSE B[i - Len(S)]
    BY <2>1, ConcatProperties
  <2> QED BY <1>7, <2>2
<1>9. Len(t) <= Len(ds) + 2 /\ Len(t) \in Nat /\ Len(B) \in Nat /\ Len(t) >= 1 /\ Len(B) >= 1
  <2>1. PICK a \in Nat, b \in {0, 1}, c \in {0, 1} :
          a = Len(ds) /\ b = Len(tail) /\ c = Len(S) /\ a >= 1
    BY <1>2, <1>4, <1>5
  <2>2. Len(B) = a + b
    BY <1>6, <2>1
  <2>3. Len(t) = c + (a + b)
    BY <1>8, <2>1, <2>2
  <2>4. PICK x \in Nat : x = Len(B) /\ x = a + b /\ x >= 1
    BY <2>1, <2>2
  <2>5. PICK y \in Nat : y = Len(t) /\ y = c + x /\ y >= 1
    BY <2>3, <2>4, <2>2
  <2>6. y <= a + 2
    BY <2>4, <2>5
  <2> QED BY <2>1, <2>4, <2>5, <2>6
<1>10. Len(t) < LengthSpan
  BY <1>2, <1>9, NumberConstants
<1>11. t # <<>> /\ Head(t) = t[1]
  BY <1>8, <1>9
<1>12. B[1] = ds[1] /\ ds[1] \in N!Digits
  BY <1>2, <1>3, <1>4, <1>6
<1>13. /\ Head(t) = N!Hyphen <=> neg
       /\ Unsigned(t) = B
  <2>1. CASE neg
    <3>1. S = <<N!Hyphen>> /\ Len(S) = 1 /\ S[1] = N!Hyphen
      BY <1>5, <2>1
    <3>2. t[1] = N!Hyphen
      BY <1>8, <1>9, <3>1
    <3>3. Tail(t) = B
      <4>1. /\ Tail(t) \in Seq(C) /\ Len(Tail(t)) = Len(t) - 1
            /\ \A i \in 1..Len(Tail(t)) : Tail(t)[i] = t[i + 1]
        BY <1>8, <1>11, HeadTailProperties
      <4>2. Len(Tail(t)) = Len(B)
        BY <1>8, <1>9, <3>1, <4>1
      <4>3. ASSUME NEW i \in 1..Len(Tail(t)) PROVE Tail(t)[i] = B[i]
        <5>1. i + 1 \in 1..Len(S) + Len(B) /\ ~ (i + 1 <= Len(S)) /\ (i + 1) - Len(S) = i
          BY <1>9, <3>1, <4>2
        <5> QED BY <1>8, <4>1, <5>1
      <4> QED BY <1>6, <4>1, <4>2, <4>3, SeqEqual
    <3> QED BY <1>11, <2>1, <3>2, <3>3 DEF Unsigned
  <2>2. CASE ~ neg
    <3>1. S = <<>> /\ Len(S) = 0
      BY <1>5, <2>2
    <3>2. t = B
      BY <1>6, <1>7, <3>1, ConcatEmptySeq
    <3>3. Head(t) \notin {N!Hyphen, N!Plus}
      BY <1>11, <1>12, <3>2, SignNoDigit
    <3> QED BY <2>2, <3>2, <3>3 DEF Unsigned
  <2> QED BY <2>1, <2>2
<1>14. HasDigit(t)
  <2>1. CASE Len(S) = 0
    <3>1. t[1] = B[1] /\ 1 \in 1..Len(t)
      BY <1>8, <1>9, <2>1
    <3> QED BY <1>12, <3>1 DEF HasDigit
  <2>2. CASE Len(S) = 1
    <3>1. t[2] = B[1] /\ 2 \in 1..Len(t)
      BY <1>8, <1>9, <2>2
    <3> QED BY <1>12, <3>1 DEF HasDigit
  <2> QED BY <1>5, <2>1, <2>2
<1>15. (N!Last(t) = N!Point) <=> tail # <<>>
  <2>1. N!Last(t) = t[Len(t)]
    BY DEF N!Last
  <2>2. t[Len(t)] = B[Len(B)]
    <3>1. /\ Len(t) \in 1..Len(S) + Len(B) /\ ~ (Len(t) <= Len(S))
          /\ Len(t) - Len(S) = Len(B)
      BY <1>5, <1>8, <1>9
    <3> QED BY <1>8, <3>1
  <2>3. Len(B) \in 1..Len(ds) + Len(tail)
    BY <1>6, <1>9
  <2>4. CASE tail = <<>>
    <3>1. Len(tail) = 0 /\ Len(B) = Len(ds) /\ Len(ds) \in 1..Len(ds)
      BY <1>2, <1>6, <2>4
    <3>2. B[Len(B)] = ds[Len(ds)] /\ ds[Len(ds)] \in N!Digits
      BY <1>3, <1>6, <2>3, <3>1
    <3>3. N!Point \notin N!Digits
      BY Characters
    <3> QED BY <2>1, <2>2, <2>4, <3>2, <3>3
  <2>5. CASE tail # <<>>
    <3>1. Len(tail) = 1 /\ tail = <<N!Point>> /\ tail[1] = N!Point
      BY <1>4, <2>5
    <3>2. ~ (Len(B) <= Len(ds)) /\ Len(B) - Len(ds) = 1
      BY <1>2, <1>6, <3>1
    <3>3. B[Len(B)] = tail[1]
      BY <1>6, <2>3, <3>2
    <3> QED BY <2>1, <2>2, <2>5, <3>1, <3>3
  <2> QED BY <2>4, <2>5
<1>16. t \in Seq(0..39)
  BY <1>8 DEF C
<1> QED BY <1>10, <1>11, <1>13, <1>14, <1>15, <1>16 DEF B

(* What was output is read as the same number.                             *)
LEMMA RereadIs ==
  ASSUME NEW radix, RadixOK(radix), NEW s, NEW x, Written(s, x, radix),
         NEW t, t \in {s, Append(s, N!Point)}
  PROVE  /\ t \in Seq(0..39)
         /\ N!ParseNumber(t, radix).accepted
         /\ N!ParseNumber(t, radix).double = (N!Last(t) = N!Point)
         /\ N!ParseNumber(t, radix).value = x
<1>1. PICK neg \in BOOLEAN, ds \in Seq(0..radix - 1) :
        /\ ds # <<>> /\ Len(ds) + 2 < LengthSpan
        /\ s = Sign(neg) \o ds
        /\ Shows(x, IF neg THEN - N!Meaning(0, ds, radix) ELSE N!Meaning(0, ds, radix))
  BY DEF Written
<1>2. radix \in Nat /\ radix <= 36 /\ radix \in Int
  BY DEF RadixOK
<1> DEFINE C == 0..39
<1>3. ds \in Seq(C)
  <2>1. \A c \in 0..radix - 1 : c \in C
    BY <1>2
  <2> QED BY <2>1, SeqWithin
<1>4. Sign(neg) \in Seq(C) /\ N!Point \in C
  BY SignIs, Characters
<1> HIDE DEF C
<1>5. <<N!Point>> \in Seq(C) /\ <<>> \in Seq(C)
  BY <1>4
<1>6. PICK tail : tail \in {<<>>, <<N!Point>>} /\ t = Sign(neg) \o (ds \o tail)
  <2>1. CASE t = s
    <3>1. ds \o <<>> = ds
      BY <1>3, ConcatEmptySeq
    <3> QED BY <1>1, <2>1, <3>1
  <2>2. CASE t = Append(s, N!Point)
    <3>1. s \in Seq(C)
      BY <1>1, <1>3, <1>4
    <3>2. t = s \o <<N!Point>>
      BY <1>4, <2>2, <3>1, AppendIsConcat
    <3>3. (Sign(neg) \o ds) \o <<N!Point>> = Sign(neg) \o (ds \o <<N!Point>>)
      BY <1>3, <1>4, <1>5, ConcatAssociative
    <3> QED BY <1>1, <3>2, <3>3
  <2> QED BY <2>1, <2>2
<1> DEFINE B == ds \o tail
           n == N!Meaning(0, ds, radix)
<1>7. /\ t \in Seq(0..39) /\ t # <<>> /\ Len(t) < LengthSpan
      /\ Head(t) = N!Hyphen <=> neg
      /\ Unsigned(t) = B /\ HasDigit(t)
      /\ (N!Last(t) = N!Point) <=> tail # <<>>
  BY <1>1, <1>6, TextIs, ZenonT(40)
<1>8. N!ParseNumber(t, radix) = Parsed(t, radix)
  BY <1>7, ParseIs
<1>9. tail \in Seq(C) /\ Len(tail) \in Nat /\ Len(ds) \in Nat
  <2>1. tail \in Seq(C)
    BY <1>5, <1>6
  <2> QED BY <1>3, <2>1
<1>10. /\ B \in Seq(C) /\ Len(B) = Len(ds) + Len(tail)
       /\ \A i \in 1..Len(ds) + Len(tail) : B[i] =
            IF i <= Len(ds) THEN ds[i] ELSE tail[i - Len(ds)]
  BY <1>3, <1>9, ConcatProperties
<1>11. \A i \in 1..Len(tail) : tail[i] \in N!Separators
  BY <1>6 DEF N!Separators
<1>12. ASSUME NEW i \in 1..Len(ds)
       PROVE  ds[i] \in N!Digits /\ ds[i] < radix /\ ds[i] \notin N!Separators
  <2>1. \A c \in 0..radix - 1 : c \in 0..35 /\ c < radix
    BY <1>2
  <2>2. ds[i] \in 0..radix - 1
    BY ElementOfSeq
  <2> QED BY <2>1, <2>2, NoDigit, Characters
<1> HIDE DEF B
<1>13. ~ Wrong(B, radix)
  <2>1. ASSUME NEW i \in 1..Len(B)
        PROVE  B[i] \in N!Separators \/ (B[i] \in N!Digits /\ B[i] < radix)
    <3>1. CASE i <= Len(ds)
      BY <1>9, <1>10, <1>12, <3>1
    <3>2. CASE ~ (i <= Len(ds))
      <4>1. i - Len(ds) \in 1..Len(tail) /\ i \in 1..Len(ds) + Len(tail)
        BY <1>9, <1>10, <3>2
      <4> QED BY <1>10, <1>11, <3>2, <4>1
    <3> QED BY <3>1, <3>2
  <2> QED BY <2>1 DEF Wrong
<1>14. (\E i \in 1..Len(B) : B[i] \in N!Separators) <=> tail # <<>>
  <2>1. ASSUME NEW i \in 1..Len(B), B[i] \in N!Separators PROVE tail # <<>>
    <3>1. ~ (i <= Len(ds))
      BY <1>9, <1>10, <1>12, <2>1
    <3>2. Len(tail) # 0
      BY <1>9, <1>10, <3>1
    <3> QED BY <3>2
  <2>2. ASSUME tail # <<>> PROVE \E i \in 1..Len(B) : B[i] \in N!Separators
    <3>1. Len(tail) = 1
      BY <1>6, <2>2
    <3>2. /\ Len(ds) + 1 \in 1..Len(B) /\ Len(ds) + 1 \in 1..Len(ds) + Len(tail)
          /\ ~ (Len(ds) + 1 <= Len(ds)) /\ (Len(ds) + 1) - Len(ds) = 1
      BY <1>9, <1>10, <3>1
    <3>3. B[Len(ds) + 1] = tail[1]
      BY <1>10, <3>2
    <3>4. tail[1] \in N!Separators
      BY <1>11, <3>1
    <3> QED BY <3>2, <3>3, <3>4
  <2> QED BY <2>1, <2>2
<1>15. N!Meaning(0, B, radix) = n /\ n \in Int
  <2>1. PICK zero \in Int : zero = 0
    OBVIOUS
  <2>2. PICK m \in Int : m = N!Meaning(zero, ds, radix)
    BY <1>2, <1>3, MeaningInt
  <2>3. N!Meaning(zero, ds \o tail, radix) = N!Meaning(m, tail, radix)
    BY <1>2, <1>3, <1>9, <2>2, MeaningConcat
  <2>4. N!Meaning(m, tail, radix) = m
    <3>1. CASE tail = <<>>
      BY <1>2, <3>1, MeaningEmpty
    <3>2. CASE tail = <<N!Point>>
      <4>1. N!Point \notin N!Digits
        BY Characters
      <4> QED BY <1>2, <3>2, <4>1, MeaningOne DEF Take
    <3> QED BY <1>6, <3>1, <3>2
  <2> QED BY <2>1, <2>2, <2>3, <2>4 DEF B
<1>16. N!Meaning(0, t, radix) = n
  BY <1>7, <1>15, UnsignedIs
<1> DEFINE signs == SignedMeaning(t, radix)
           shown == A!Pair((signs \div A!Span) % A!Span, signs % A!Span)
<1> HIDE DEF n
<1>17. signs = IF neg THEN - n ELSE n
  BY <1>7, <1>16 DEF SignedMeaning
<1>18. shown = x
  <2>1. signs \in Int
    BY <1>15, <1>17
  <2>2. Shows(x, signs)
    BY <1>1, <1>17 DEF n
  <2> HIDE DEF signs
  <2>3. Shows(shown, signs)
    BY <2>1, ShowsPair
  <2> HIDE DEF shown
  <2> QED BY <2>1, <2>2, <2>3, ShowsOnce
<1>19. Parsed(t, radix) =
         [accepted |-> TRUE, double |-> \E i \in 1..Len(B) : B[i] \in N!Separators,
          value |-> shown]
  BY <1>7, <1>13, Zenon DEF Parsed
<1> HIDE DEF shown
<1>20. (\E i \in 1..Len(B) : B[i] \in N!Separators) = (N!Last(t) = N!Point)
  BY <1>7, <1>14
<1> DEFINE r == N!ParseNumber(t, radix)
<1>21. /\ r.accepted = TRUE /\ r.double = (\E i \in 1..Len(B) : B[i] \in N!Separators)
       /\ r.value = shown
  BY <1>8, <1>19
<1> HIDE DEF r
<1>22. r.accepted /\ r.value = x
  BY <1>18, <1>21
<1>23. r.double = (N!Last(t) = N!Point)
  BY <1>20, <1>21
<1> QED BY <1>7, <1>22, <1>23 DEF r

(* >NUMBER on a text without a sign.                                       *)
LEMMA ScannedIs ==
  ASSUME NEW radix, RadixOK(radix), NEW s, NEW x, Written(s, x, radix),
         Head(s) # N!Hyphen
  PROVE  /\ {i \in 1..Len(s) : s[i] \notin N!Digits \/ s[i] >= radix} = {}
         /\ N!Accumulated(SubSeq(s, 1, Len(s)), radix) = x
<1>1. PICK neg \in BOOLEAN, ds \in Seq(0..radix - 1) :
        /\ ds # <<>> /\ Len(ds) + 2 < LengthSpan
        /\ s = Sign(neg) \o ds
        /\ Shows(x, IF neg THEN - N!Meaning(0, ds, radix) ELSE N!Meaning(0, ds, radix))
  BY DEF Written
<1>2. radix \in Nat /\ radix <= 36 /\ radix \in Int
  BY DEF RadixOK
<1>3. ds \o <<>> = ds
  BY ConcatEmptySeq
<1>4. s = Sign(neg) \o (ds \o <<>>)
  BY <1>1, <1>3
<1>5. Head(s) = N!Hyphen <=> neg
  BY <1>1, <1>4, TextIs, ZenonT(40)
<1>6. ~ neg
  BY <1>5
<1>7. s = ds
  BY <1>1, <1>6, ConcatEmptySeq DEF Sign
<1>8. ASSUME NEW i \in 1..Len(s)
      PROVE  s[i] \in N!Digits /\ s[i] \in Nat /\ s[i] < radix /\ ~ (s[i] >= radix)
  <2>1. \A c \in 0..radix - 1 : c \in 0..35 /\ c \in Nat /\ c < radix /\ ~ (c >= radix)
    BY <1>2
  <2>2. s[i] \in 0..radix - 1
    BY <1>7, ElementOfSeq
  <2> QED BY <2>1, <2>2, Characters
<1>9. Readable(s, radix)
  BY <1>8 DEF Readable
<1>10. Shows(N!Accumulated(s, radix), N!Meaning(0, s, radix))
  BY <1>7, <1>9, AccumulatedShows
<1>11. Shows(x, N!Meaning(0, s, radix))
  BY <1>1, <1>6, <1>7
<1>12. PICK zero \in Int : zero = 0
  OBVIOUS
<1>13. N!Meaning(zero, s, radix) \in Int
  BY <1>2, <1>7, MeaningInt
<1>14. N!Accumulated(s, radix) = x
  BY <1>10, <1>11, <1>12, <1>13, ShowsOnce
<1>15. SubSeq(s, 1, Len(s)) = s
  BY <1>7
<1> QED BY <1>8, <1>14, <1>15

(* A pictured conversion: what is still to be divided, with the digits     *)
(* that have been put into the buffer behind it, is the number, and the    *)
(* buffer has room for the text.                                           *)
Picturing(u, p, x, radix) ==
  /\ u \in A!Double /\ x \in A!Double /\ p \in Seq(0..radix - 1)
  /\ N!Magnitude(x) = N!Meaning(A!Natural(u), N!Reverse(p), radix)
  /\ A!Natural(u) * A!Pow2[Len(p)] < Square
  /\ Len(p) + 2 < LengthSpan

LEMMA MagnitudeIs ==
  ASSUME NEW x \in A!Double
  PROVE  /\ N!Magnitude(x) \in Nat
         /\ N!Magnitude(x) = A!Natural(IF A!IsNegative(x) THEN A!Negate(x) ELSE x)
         /\ A!IsNegative(x) \in BOOLEAN
         /\ Shows(x, IF A!IsNegative(x) THEN - N!Magnitude(x) ELSE N!Magnitude(x))
<1>1. N!Magnitude(x) = A!Natural(IF A!IsNegative(x) THEN A!Negate(x) ELSE x)
  BY NumberCells DEF N!Magnitude
<1>2. A!Negate(x) \in A!Double
  BY NegateIs
<1>3. A!IsNegative(x) \in BOOLEAN
  BY DEF A!IsNegative, A!HasHighBit
<1>4. CASE A!IsNegative(x)
  <2>1. N!Magnitude(x) = A!Natural(A!Negate(x))
    BY <1>1, <1>4
  <2>2. A!Natural(x) \in 0..Square - 1 /\ Square \in Nat \ {0}
    BY DoubleFacts, SquareFacts
  <2>3. A!Natural(A!Negate(x)) = IF A!Natural(x) = 0 THEN 0 ELSE Square - A!Natural(x)
    BY NegateIs
  <2>4. A!Natural(x) # 0
    <3>1. A!IsNegative(x) <=> A!Natural(x) >= Half
      BY NumberIs
    <3>2. Half \in Nat \ {0}
      BY HalfFacts
    <3> QED BY <1>4, <3>1, <3>2
  <2>5. - N!Magnitude(x) = (-1) * Square + A!Natural(x)
    BY <2>1, <2>2, <2>3, <2>4
  <2>6. \E q \in Int : - N!Magnitude(x) = q * Square + A!Natural(x)
    BY <2>5
  <2>7. N!Magnitude(x) \in Nat
    BY <1>2, <2>1, ShowsNatural
  <2> QED BY <1>1, <1>3, <1>4, <2>6, <2>7 DEF Shows
<1>5. CASE ~ A!IsNegative(x)
  <2>1. N!Magnitude(x) = A!Natural(x)
    BY <1>1, <1>5
  <2> QED BY <1>1, <1>3, <1>5, <2>1, ShowsNatural
<1> QED BY <1>4, <1>5

LEMMA PictureBegins ==
  ASSUME NEW x \in A!Double, NEW radix, RadixOK(radix)
  PROVE  Picturing(IF A!IsNegative(x) THEN A!Negate(x) ELSE x, <<>>, x, radix)
<1> DEFINE u == IF A!IsNegative(x) THEN A!Negate(x) ELSE x
<1>1. u \in A!Double
  BY NegateIs
<1>2. N!Magnitude(x) = A!Natural(u)
  BY MagnitudeIs
<1> HIDE DEF u
<1>3. A!Natural(u) \in Nat /\ A!Natural(u) < Square
  BY <1>1, ShowsNatural, DoubleFacts, SquareFacts
<1>4. <<>> \in Seq(0..radix - 1) /\ Len(<<>>) = 0
  OBVIOUS
<1>5. N!Reverse(<<>>) = <<>>
  <2>1. N!Reverse(<<>>) \in Seq(0..radix - 1) /\ Len(N!Reverse(<<>>)) = 0
    BY <1>4, ReverseIs
  <2> QED BY <2>1
<1>6. N!Meaning(A!Natural(u), <<>>, radix) = A!Natural(u)
  BY <1>3, MeaningEmpty DEF RadixOK
<1>7. A!Natural(u) * A!Pow2[0] < Square
  BY <1>3, Powers
<1>8. 0 + 2 < LengthSpan
  BY NumberConstants
<1>9. Picturing(u, <<>>, x, radix)
  BY <1>1, <1>2, <1>4, <1>5, <1>6, <1>7, <1>8 DEF Picturing
<1> QED BY <1>9 DEF u

(* A power of two that is not above a double has few bits.                 *)
LEMMA FewBits ==
  ASSUME NEW k \in Nat, A!Pow2[k] < Square
  PROVE  k < 2 * Bits
<1>1. 2 * Bits \in Nat
  BY NumberConstants
<1>2. SUFFICES ASSUME 2 * Bits <= k PROVE FALSE
  BY <1>1
<1>3. A!Pow2[2 * Bits] <= A!Pow2[k]
  BY <1>1, <1>2, PowMore
<1>4. Square = A!Pow2[2 * Bits] /\ Square \in Nat
  BY SquareFacts
<1>5. A!Pow2[k] \in Nat
  BY Pow2Nat
<1> QED BY <1>3, <1>4, <1>5

LEMMA DigitPictured ==
  ASSUME NEW u, NEW p, NEW x, NEW radix, RadixOK(radix), Picturing(u, p, x, radix),
         u # A!Zero \/ Len(p) < FewDigits
  PROVE  Picturing(A!Divide(u, radix).quotient, Append(p, A!Divide(u, radix).remainder), x, radix)
<1> DEFINE q == A!Divide(u, radix).quotient
           d == A!Divide(u, radix).remainder
           s == Append(p, d)
           n == A!Natural(u)
           m == A!Natural(q)
           l == Len(p)
<1>1. radix \in Nat /\ radix >= 2 /\ radix \in A!CellValues /\ radix # 0
  BY DEF RadixOK
<1>2. /\ u \in A!Double /\ x \in A!Double /\ p \in Seq(0..radix - 1)
  BY DEF Picturing
<1>3. l \in Nat
  BY <1>2
<1>4. q \in A!Double /\ d \in 0..radix - 1 /\ n = m * radix + d
  BY <1>1, <1>2, DivideIs
<1> HIDE DEF q, d
<1>5. n \in Nat /\ m \in Nat
  BY <1>2, <1>4, ShowsNatural
<1>6. /\ s \in Seq(0..radix - 1) /\ Len(s) = l + 1
      /\ N!Meaning(m, N!Reverse(s), radix) = N!Meaning(m * radix + d, N!Reverse(p), radix)
  BY <1>2, <1>4, <1>5, MeaningBefore
<1>7. PICK w \in Nat \ {0} : w = A!Pow2[l] /\ A!Pow2[l + 1] = 2 * w
  BY <1>3, Pow2Nat, Powers
<1>8. PICK sq \in Nat : sq = Square
  BY SquareFacts
<1>9. n * w < sq
  BY <1>7, <1>8 DEF Picturing
<1> HIDE DEF n, m, s
<1>10. m * (2 * w) < sq
  <2>1. m * 2 <= n
    <3>1. 2 * m <= radix * m
      BY <1>1, <1>5, Times
    <3>2. PICK e \in Int : e = m * radix /\ e = radix * m
      BY <1>1, <1>5
    <3>3. n = e + d /\ d >= 0 /\ d \in Int
      BY <1>1, <1>4, <3>2
    <3> QED BY <1>5, <3>1, <3>2, <3>3
  <2>2. m * 2 \in Int /\ n \in Int /\ w \in Nat
    BY <1>5
  <2>3. (m * 2) * w <= n * w
    BY <2>1, <2>2, Times
  <2>4. (m * 2) * w = m * (2 * w) /\ (m * 2) * w \in Int /\ n * w \in Int
    BY <1>5
  <2> QED BY <1>9, <2>3, <2>4
<1>11. Len(s) + 2 < LengthSpan
  <2>1. CASE u # A!Zero
    <3>1. n # 0
      BY <1>2, <2>1, NotZero DEF n
    <3>2. 1 <= n /\ 1 \in Int /\ n \in Int /\ w \in Nat
      BY <1>5, <3>1
    <3>3. 1 * w <= n * w
      BY <3>2, Times
    <3>4. w < sq
      BY <1>5, <1>9, <3>3
    <3>5. l < 2 * Bits
      BY <1>3, <1>7, <1>8, <3>4, FewBits
    <3>6. 2 * Bits + 2 < LengthSpan /\ Bits \in Nat /\ LengthSpan \in Nat
      BY NumberConstants
    <3> HIDE DEF l
    <3> QED BY <1>3, <1>6, <3>5, <3>6
  <2>2. CASE l < FewDigits
    <3>1. FewDigits + 2 < LengthSpan /\ FewDigits \in Nat /\ LengthSpan \in Nat
      BY NumberConstants
    <3> HIDE DEF l
    <3> QED BY <1>3, <1>6, <2>2, <3>1
  <2> QED BY <2>1, <2>2
<1>12. A!Natural(q) * A!Pow2[Len(s)] < Square
  BY <1>6, <1>7, <1>8, <1>10 DEF m
<1>13. N!Magnitude(x) = N!Meaning(A!Natural(q), N!Reverse(s), radix)
  <2>1. N!Magnitude(x) = N!Meaning(n, N!Reverse(p), radix)
    BY DEF Picturing, n
  <2> QED BY <1>4, <1>6, <2>1 DEF m
<1>14. Picturing(q, s, x, radix)
  BY <1>2, <1>4, <1>6, <1>11, <1>12, <1>13 DEF Picturing
<1> QED BY <1>14 DEF q, s, d

LEMMA DigitsPictured ==
  ASSUME NEW u, NEW p, NEW x, NEW radix, RadixOK(radix), Picturing(u, p, x, radix),
         p = <<>> \/ u # A!Zero
  PROVE  /\ Picturing(A!Zero, p \o N!DigitsOf(u, radix), x, radix)
         /\ p \o N!DigitsOf(u, radix) # <<>>
<1> DEFINE ds == N!DigitsOf(u, radix)
           s == p \o ds
           n == A!Natural(u)
           l == Len(p)
           k == Len(ds)
<1>1. radix \in Nat
  BY DEF RadixOK
<1>2. /\ u \in A!Double /\ x \in A!Double /\ p \in Seq(0..radix - 1)
  BY DEF Picturing
<1>3. l \in Nat /\ n \in Nat
  BY <1>2, ShowsNatural
<1>4. /\ Numeral(ds, n, radix)
      /\ k <= 2 * Bits
      /\ u # A!Zero => A!Pow2[k - 1] <= n
  BY <1>2, DigitsOfIs
<1> HIDE DEF ds
<1>5. ds \in Seq(0..radix - 1) /\ ds # <<>> /\ n = N!Meaning(0, N!Reverse(ds), radix)
  BY <1>4 DEF Numeral
<1>6. k \in Nat /\ k >= 1
  BY <1>5
<1>7. s \in Seq(0..radix - 1) /\ Len(s) = l + k
  BY <1>2, <1>5
<1>8. s # <<>>
  <2>1. Len(s) # 0
    BY <1>3, <1>6, <1>7
  <2> QED BY <2>1
<1>9. N!Reverse(s) = N!Reverse(ds) \o N!Reverse(p)
  BY <1>2, <1>5, ReverseConcat
<1> HIDE DEF s, n, l, k
<1>10. N!Magnitude(x) = N!Meaning(0, N!Reverse(s), radix)
  <2>1. N!Reverse(ds) \in Seq(0..radix - 1) /\ N!Reverse(p) \in Seq(0..radix - 1)
    BY <1>2, <1>5, ReverseIs
  <2>2. PICK zero \in Int : zero = 0
    OBVIOUS
  <2>3. N!Meaning(zero, N!Reverse(ds) \o N!Reverse(p), radix)
          = N!Meaning(N!Meaning(zero, N!Reverse(ds), radix), N!Reverse(p), radix)
    BY <1>1, <2>1, MeaningConcat
  <2>4. N!Magnitude(x) = N!Meaning(n, N!Reverse(p), radix)
    BY DEF Picturing, n
  <2> QED BY <1>5, <1>9, <2>2, <2>3, <2>4
<1>11. l + k <= 2 * Bits
  <2>1. CASE u = A!Zero
    <3>1. l = 0
      BY <2>1 DEF l
    <3>2. 2 * Bits \in Nat
      BY NumberConstants
    <3> QED BY <1>4, <1>6, <3>1, <3>2
  <2>2. CASE u # A!Zero
    <3>1. k - 1 \in Nat /\ l + (k - 1) \in Nat
      BY <1>3, <1>6
    <3>2. PICK a \in Nat, b \in Nat : a = A!Pow2[k - 1] /\ b = A!Pow2[l]
      BY <1>3, <3>1, Pow2Nat
    <3>3. A!Pow2[l + (k - 1)] = b * a
      BY <1>3, <3>1, <3>2, PowAdd
    <3>4. PICK sq \in Nat : sq = Square
      BY SquareFacts
    <3>5. n * b < sq
      BY <3>2, <3>4 DEF Picturing, n, l
    <3>6. a <= n
      BY <1>4, <2>2, <3>2
    <3>7. a * b <= n * b
      BY <1>3, <3>6, Times
    <3>8. b * a < sq
      <4>1. a * b \in Int /\ n * b \in Int /\ b * a = a * b
        BY <1>3
      <4> QED BY <3>5, <3>7, <4>1
    <3>9. A!Pow2[l + (k - 1)] < Square
      BY <3>3, <3>4, <3>8
    <3>10. l + (k - 1) < 2 * Bits
      BY <3>1, <3>9, FewBits
    <3>11. Bits \in Nat
      BY NumberConstants
    <3> QED BY <1>3, <1>6, <3>10, <3>11
  <2> QED BY <2>1, <2>2
<1>12. Len(s) + 2 < LengthSpan
  <2>1. 2 * Bits + 2 < LengthSpan /\ Bits \in Nat /\ LengthSpan \in Nat
    BY NumberConstants
  <2> QED BY <1>3, <1>6, <1>7, <1>11, <2>1
<1>13. A!Zero \in A!Double /\ A!Natural(A!Zero) = 0
  BY ZeroOne
<1>14. 0 * A!Pow2[Len(s)] < Square
  <2>1. PICK a \in Nat : a = A!Pow2[Len(s)]
    <3>1. Len(s) \in Nat
      BY <1>3, <1>6, <1>7
    <3> QED BY <3>1, Pow2Nat
  <2>2. 0 * a < Square
    BY SquareFacts
  <2> QED BY <2>1, <2>2
<1>15. Picturing(A!Zero, s, x, radix)
  BY <1>2, <1>7, <1>10, <1>12, <1>13, <1>14 DEF Picturing
<1> QED BY <1>8, <1>15 DEF s, ds

LEMMA PictureEnds ==
  ASSUME NEW u, NEW p, NEW x, NEW radix, RadixOK(radix), Picturing(u, p, x, radix),
         u = A!Zero, p # <<>>
  PROVE  Written(N!Reverse(p \o Sign(A!IsNegative(x))), x, radix)
<1> DEFINE v == N!Magnitude(x)
           neg == A!IsNegative(x)
<1>1. x \in A!Double /\ p \in Seq(0..radix - 1) /\ Len(p) + 2 < LengthSpan
  BY DEF Picturing
<1>2. v \in Int /\ neg \in BOOLEAN /\ Shows(x, IF neg THEN - v ELSE v)
  BY <1>1, MagnitudeIs
<1>3. v = N!Meaning(0, N!Reverse(p), radix)
  BY ZeroOne DEF Picturing
<1>4. Numeral(p, v, radix)
  BY <1>1, <1>3 DEF Numeral
<1> HIDE DEF v, neg
<1>5. Written(N!Reverse(p \o Sign(neg)), x, radix)
  BY <1>1, <1>2, <1>4, WrittenOf
<1> QED BY <1>5 DEF neg

--------------------------------------------------------------------------------
(* The base and the characters of a token, behind its prefix if it has one. *)
ReadRadix(t, b) ==
  IF N!Begun(t) = {} THEN b ELSE (CHOOSE p \in N!Begun(t) : TRUE).base

ReadToken(t) ==
  IF N!Begun(t) = {} THEN t
  ELSE SubSeq(t, Len((CHOOSE p \in N!Begun(t) : TRUE).name) + 1, Len(t))

ReadAs(t, b, g) ==
  /\ N!Kept(ReadToken(t)) = <<>> => g = N!Nothing
  /\ HasDigit(N!Kept(ReadToken(t))) => g = Parsed(N!Kept(ReadToken(t)), ReadRadix(t, b))

(* A token as long as it likes, and what is read of it.                    *)
LEMMA KeptRead ==
  ASSUME NEW s \in Seq(0..39), NEW radix, RadixOK(radix)
  PROVE  /\ N!Kept(s) = <<>> => N!ParseNumber(s, radix) = N!Nothing
         /\ HasDigit(N!Kept(s)) => N!ParseNumber(s, radix) = Parsed(N!Kept(s), radix)
<1>1. N!ParseNumber(s, radix) = N!ParseNumber(N!Kept(s), radix)
  BY ParseKept
<1>2. N!Kept(s) \in Seq(0..39) /\ Len(N!Kept(s)) < LengthSpan
  BY KeptIs
<1> QED BY <1>1, <1>2, ParseNone, ParseIs

(* At most one prefix begins a token. *)
LEMMA BegunIs ==
  ASSUME NEW t \in Seq(0..39), NEW p \in N!Begun(t)
  PROVE  /\ \A q \in N!Begun(t) : q = p
         /\ RadixOK(p.base)
         /\ SubSeq(t, Len(p.name) + 1, Len(t)) \in Seq(0..39)
         /\ Len(SubSeq(t, Len(p.name) + 1, Len(t))) <= Len(t)
<1>1. \A q \in N!Begun(t) : q \in PrefixWords /\ N!IsPrefix(q.name, t)
  BY DEF N!Begun
<1>2. \A q \in N!Begun(t) : q.name \in Seq(0..39)
  BY <1>1, NumberConstants
<1>3. \A q \in N!Begun(t) :
        /\ Len(q.name) \in Nat /\ Len(q.name) <= Len(t)
        /\ \A i \in 1..Len(q.name) : q.name[i] = t[i]
  <2> TAKE q \in N!Begun(t)
  <2>1. PICK s \in Seq(0..39) : s = q.name
    BY <1>2
  <2>2. Len(s) <= Len(t) /\ SubSeq(s, 1, Len(s)) = SubSeq(t, 1, Len(s))
    BY <1>1, <2>1 DEF N!IsPrefix
  <2>3. ASSUME NEW i \in 1..Len(s) PROVE s[i] = t[i]
    <3>1. SubSeq(s, 1, Len(s))[i] = s[i]
      OBVIOUS
    <3>2. SubSeq(t, 1, Len(s))[i] = t[i]
      BY <2>2
    <3> QED BY <2>2, <3>1, <3>2
  <2> QED BY <2>1, <2>2, <2>3
<1>4. ASSUME NEW q \in N!Begun(t), NEW r \in N!Begun(t), Len(q.name) <= Len(r.name)
      PROVE  q = r
  <2>1. PICK s \in Seq(0..39) : s = q.name
    BY <1>2
  <2>2. PICK w \in Seq(0..39) : w = r.name
    BY <1>2
  <2>3. \A i \in 1..Len(s) : s[i] = w[i]
    <3>1. Len(s) <= Len(w) /\ Len(s) \in Nat /\ Len(w) \in Nat
      BY <1>4, <2>1, <2>2
    <3>2. \A i \in 1..Len(s) : s[i] = t[i]
      BY <1>3, <2>1
    <3>3. \A i \in 1..Len(w) : w[i] = t[i]
      BY <1>3, <2>2
    <3> QED BY <3>1, <3>2, <3>3
  <2>4. SubSeq(s, 1, Len(s)) = SubSeq(w, 1, Len(s))
    BY <1>4, <2>1, <2>2, <2>3
  <2>5. N!IsPrefix(q.name, r.name)
    BY <1>4, <2>1, <2>2, <2>4 DEF N!IsPrefix
  <2> QED BY <1>1, <2>5, NumberConstants
<1>5. \A q \in N!Begun(t) : q = p
  <2> TAKE q \in N!Begun(t)
  <2>1. Len(q.name) \in Nat /\ Len(p.name) \in Nat
    BY <1>3
  <2>2. Len(q.name) <= Len(p.name) \/ Len(p.name) <= Len(q.name)
    BY <2>1
  <2> QED BY <1>4, <2>2
<1>6. RadixOK(p.base)
  BY <1>1, NumberConstants
<1>7. PICK n \in Nat : n = Len(p.name) /\ n <= Len(t)
  BY <1>3
<1> DEFINE C == 0..39
<1>8. t \in Seq(C)
  OBVIOUS
<1> HIDE DEF C
<1>9. Len(t) \in Nat
  BY <1>8
<1>10. /\ SubSeq(t, n + 1, Len(t)) \in Seq(C)
       /\ Len(SubSeq(t, n + 1, Len(t))) = IF n + 1 <= Len(t) THEN Len(t) - n ELSE 0
  <2>1. PICK m \in Int : m = n + 1 /\ m >= 1
    BY <1>7
  <2>2. \A i \in m..Len(t) : t[i] \in C
    <3> TAKE i \in m..Len(t)
    <3>1. i \in 1..Len(t)
      BY <1>9, <2>1
    <3> QED BY <1>8, <3>1, ElementOfSeq
  <2>3. /\ SubSeq(t, m, Len(t)) \in Seq(C)
        /\ Len(SubSeq(t, m, Len(t))) = IF m <= Len(t) THEN Len(t) - m + 1 ELSE 0
    BY <1>9, <2>1, <2>2, SubSeqProperties
  <2>4. m <= Len(t) => Len(t) - m + 1 = Len(t) - n
    BY <1>7, <1>9, <2>1
  <2> QED BY <2>1, <2>3, <2>4
<1>11. Len(SubSeq(t, n + 1, Len(t))) <= Len(t)
  BY <1>7, <1>9, <1>10
<1>12. SubSeq(t, n + 1, Len(t)) \in Seq(0..39)
  BY <1>10 DEF C
<1> QED BY <1>5, <1>6, <1>7, <1>11, <1>12

LEMMA ReadIs ==
  ASSUME NEW t \in Seq(0..39), NEW b, RadixOK(b), NEW g,
         \/ N!Begun(t) = {} /\ g = N!ParseNumber(t, b)
         \/ \E p \in N!Begun(t) :
              g = N!ParseNumber(SubSeq(t, Len(p.name) + 1, Len(t)), p.base)
  PROVE  ReadAs(t, b, g)
<1>1. CASE N!Begun(t) = {}
  <2>1. ReadToken(t) = t /\ ReadRadix(t, b) = b /\ g = N!ParseNumber(t, b)
    BY <1>1 DEF ReadToken, ReadRadix
  <2> QED BY <2>1, KeptRead DEF ReadAs
<1>2. CASE N!Begun(t) # {}
  <2>1. PICK p \in N!Begun(t) : g = N!ParseNumber(SubSeq(t, Len(p.name) + 1, Len(t)), p.base)
    BY <1>2
  <2> DEFINE c == CHOOSE q \in N!Begun(t) : TRUE
  <2>2. c \in N!Begun(t)
    BY <1>2
  <2>3. c = p
    BY <2>2, BegunIs
  <2>4. ReadToken(t) = SubSeq(t, Len(p.name) + 1, Len(t)) /\ ReadRadix(t, b) = p.base
    BY <1>2, <2>3 DEF ReadToken, ReadRadix
  <2>5. PICK s \in Seq(0..39) : s = ReadToken(t)
    BY <2>4, BegunIs
  <2>6. RadixOK(p.base)
    BY BegunIs
  <2>7. /\ N!Kept(s) = <<>> => N!ParseNumber(s, p.base) = N!Nothing
        /\ HasDigit(N!Kept(s)) => N!ParseNumber(s, p.base) = Parsed(N!Kept(s), p.base)
    BY <2>6, KeptRead
  <2> QED BY <2>1, <2>4, <2>5, <2>7 DEF ReadAs
<1> QED BY <1>1, <1>2

--------------------------------------------------------------------------------
(* What reading the text t gave for the number w. *)
Rereads(c, t, g, w) ==
  /\ c = "reread" /\ N!Begun(t) = {} =>
       /\ g.accepted
       /\ g.double = (N!Last(t) = N!Point)
       /\ IF g.double THEN g.value = w ELSE g.value.low = w.low
  /\ c = "scanned" /\ Head(t) # N!Hyphen => g.accepted /\ g.value = w

Conversion(c, b, u, p, t, w, g) ==
  /\ RadixOK(b)
  /\ c = "picture" => Picturing(u, p, w, b)
  /\ c = "text" => Written(t, w, b)
  /\ Rereads(c, t, g, w)
  /\ c = "read" => ReadAs(t, b, g)

(* A conversion: the digits so far mean the number, the text says it, and  *)
(* what was read is what it says.                                          *)
NumberInv == Conversion(conversion, base, ud, pob, numeral, whole, got)

LEMMA NumberInitially == N!Init => NumberInv
BY NumberConstants DEF N!Init, NumberInv, Conversion, Rereads

LEMMA BaseStored ==
  ASSUME NumberInv, NEW b \in Bases, N!StoreBase(b) PROVE NumberInv'
<1>1. conversion' = "idle" /\ base' = b
  BY DEF N!StoreBase
<1>2. RadixOK(base')
  BY <1>1, NumberConstants
<1> QED BY <1>1, <1>2 DEF NumberInv, Conversion, Rereads

LEMMA PictureStarted ==
  ASSUME NumberInv, NEW x \in N!Double, N!LessNumberSign(x) PROVE NumberInv'
<1>1. /\ conversion' = "picture" /\ whole' = x /\ pob' = <<>> /\ base' = base
      /\ ud' = IF A!IsNegative(x) THEN A!Negate(x) ELSE x
  BY NumberCells DEF N!LessNumberSign
<1>2. RadixOK(base)
  BY DEF NumberInv, Conversion
<1>3. x \in A!Double
  BY NumberDoubles
<1>4. Picturing(IF A!IsNegative(x) THEN A!Negate(x) ELSE x, <<>>, x, base)
  BY <1>2, <1>3, PictureBegins
<1>5. Picturing(ud', pob', whole', base')
  BY <1>1, <1>4
<1> QED BY <1>1, <1>2, <1>5 DEF NumberInv, Conversion, Rereads

LEMMA DigitPut == ASSUME NumberInv, N!NumberSign PROVE NumberInv'
<1>1. /\ conversion = "picture" /\ conversion' = "picture" /\ whole' = whole /\ base' = base
      /\ ud # A!Zero \/ Len(pob) < FewDigits
      /\ pob' = Append(pob, A!Divide(ud, base).remainder)
      /\ ud' = A!Divide(ud, base).quotient
  BY NumberDivide, NumberDoubles DEF N!NumberSign
<1>2. RadixOK(base) /\ Picturing(ud, pob, whole, base)
  BY <1>1 DEF NumberInv, Conversion
<1>3. Picturing(A!Divide(ud, base).quotient, Append(pob, A!Divide(ud, base).remainder), whole, base)
  BY <1>1, <1>2, DigitPictured
<1>4. Picturing(ud', pob', whole', base')
  BY <1>1, <1>3
<1> QED BY <1>1, <1>2, <1>4 DEF NumberInv, Conversion, Rereads

LEMMA DigitsPut == ASSUME NumberInv, N!NumberSignS PROVE NumberInv'
<1>1. /\ conversion = "picture" /\ conversion' = "picture" /\ whole' = whole /\ base' = base
      /\ pob = <<>> \/ ud # A!Zero
      /\ pob' = pob \o N!DigitsOf(ud, base)
      /\ ud' = A!Zero
  BY NumberDoubles DEF N!NumberSignS
<1>2. RadixOK(base) /\ Picturing(ud, pob, whole, base)
  BY <1>1 DEF NumberInv, Conversion
<1>3. Picturing(A!Zero, pob \o N!DigitsOf(ud, base), whole, base)
  BY <1>1, <1>2, DigitsPictured
<1>4. Picturing(ud', pob', whole', base')
  BY <1>1, <1>3
<1> QED BY <1>1, <1>2, <1>4 DEF NumberInv, Conversion, Rereads

LEMMA PictureFinished == ASSUME NumberInv, N!NumberSignGreater PROVE NumberInv'
<1>1. /\ conversion = "picture" /\ conversion' = "text" /\ whole' = whole /\ base' = base
      /\ ud = A!Zero /\ pob # <<>>
      /\ numeral' = N!Reverse(pob \o Sign(A!IsNegative(whole)))
  BY NumberDoubles, NumberCells DEF N!NumberSignGreater, N!Signature, Sign
<1>2. RadixOK(base) /\ Picturing(ud, pob, whole, base)
  BY <1>1 DEF NumberInv, Conversion
<1>3. Written(N!Reverse(pob \o Sign(A!IsNegative(whole))), whole, base)
  BY <1>1, <1>2, PictureEnds
<1>4. Written(numeral', whole', base')
  BY <1>1, <1>3
<1> QED BY <1>1, <1>2, <1>4 DEF NumberInv, Conversion, Rereads

LEMMA CellPrinted ==
  ASSUME NumberInv, NEW u \in N!CellValues, N!Dot(u) \/ N!UDot(u) PROVE NumberInv'
<1>1. RadixOK(base) /\ u \in A!CellValues
  BY NumberDoubles DEF NumberInv, Conversion
<1>2. /\ conversion' = "text" /\ base' = base
      /\ \/ /\ whole' = IF base = 10 THEN A!Extended(u) ELSE A!Pair(0, u)
            /\ numeral' = N!Ltoa(u, base)
         \/ whole' = A!Pair(0, u) /\ numeral' = N!Ultoa(u, base)
  BY NumberCells DEF N!Dot, N!UDot, N!Show
<1>3. Written(N!Ltoa(u, base), IF base = 10 THEN A!Extended(u) ELSE A!Pair(0, u), base)
  BY <1>1, LtoaWritten
<1>4. Written(N!Ultoa(u, base), A!Pair(0, u), base)
  BY <1>1, UltoaWritten
<1>5. Written(numeral', whole', base')
  BY <1>2, <1>3, <1>4
<1> QED BY <1>1, <1>2, <1>5 DEF NumberInv, Conversion, Rereads

(* The parse steps on a token that the user types. *)
LEMMA TokenRead ==
  ASSUME NumberInv, conversion = "idle", NEW t \in Tokens, N!Interpret(t) PROVE NumberInv'
<1>1. conversion' = "read" /\ numeral' = t
  BY DEF N!Interpret, N!ReadNumber, N!TempBase, N!Read
<1>2. RadixOK(base) /\ t \in Seq(0..39)
  BY NumberConstants DEF NumberInv, Conversion
<1>3. CASE N!ReadNumber(t)
  <2>1. N!Begun(t) = {} /\ got' = N!ParseNumber(t, base) /\ base' = base
    BY <1>3 DEF N!ReadNumber
  <2>2. ReadAs(t, base, got')
    BY <1>2, <2>1, ReadIs
  <2>3. ReadAs(numeral', base', got')
    BY <1>1, <2>1, <2>2
  <2> QED BY <1>1, <1>2, <2>1, <2>3 DEF NumberInv, Conversion, Rereads
<1>4. CASE N!TempBase(t)
  <2>1. PICK p \in N!Begun(t) :
          /\ got' = N!ParseNumber(SubSeq(t, Len(p.name) + 1, Len(t)), p.base)
          /\ base' \in {base, p.base}
    BY <1>4 DEF N!TempBase
  <2>2. RadixOK(p.base)
    BY <1>2, BegunIs
  <2>3. RadixOK(base')
    BY <1>2, <2>1, <2>2
  <2>4. PICK b : b = base'
    OBVIOUS
  <2>5. ReadAs(t, b, got')
    BY <1>2, <2>1, <2>3, <2>4, ReadIs
  <2>6. ReadAs(numeral', base', got')
    BY <1>1, <2>4, <2>5
  <2> QED BY <1>1, <2>3, <2>6 DEF NumberInv, Conversion, Rereads
<1> QED BY <1>3, <1>4 DEF N!Interpret

(* The parse steps on what was output. *)
LEMMA TextRead ==
  ASSUME NumberInv, conversion = "text",
         NEW t \in {numeral, Append(numeral, N!Point)}, N!Interpret(t)
  PROVE  NumberInv'
<1>1. conversion' = "reread" /\ numeral' = t /\ whole' = whole
  BY DEF N!Interpret, N!ReadNumber, N!TempBase, N!Read
<1>2. RadixOK(base) /\ Written(numeral, whole, base)
  BY DEF NumberInv, Conversion
<1>3. /\ t \in Seq(0..39)
      /\ N!ParseNumber(t, base).accepted
      /\ N!ParseNumber(t, base).double = (N!Last(t) = N!Point)
      /\ N!ParseNumber(t, base).value = whole
  BY <1>2, RereadIs
<1>4. CASE N!ReadNumber(t)
  <2>1. got' = N!ParseNumber(t, base) /\ base' = base
    BY <1>4 DEF N!ReadNumber
  <2>2. Rereads("reread", t, got', whole)
    BY <1>3, <2>1 DEF Rereads
  <2>3. Rereads(conversion', numeral', got', whole')
    BY <1>1, <2>2
  <2> QED BY <1>1, <1>2, <2>1, <2>3 DEF NumberInv, Conversion
<1>5. CASE N!TempBase(t)
  <2>1. PICK p \in N!Begun(t) : base' \in {base, p.base}
    BY <1>5 DEF N!TempBase
  <2>2. RadixOK(p.base)
    BY <1>3, BegunIs
  <2>3. RadixOK(base')
    BY <1>2, <2>1, <2>2
  <2>4. Rereads("reread", t, got', whole)
    BY <2>1 DEF Rereads
  <2>5. Rereads(conversion', numeral', got', whole')
    BY <1>1, <2>4
  <2> QED BY <1>1, <2>3, <2>5 DEF NumberInv, Conversion
<1> QED BY <1>4, <1>5 DEF N!Interpret

LEMMA TextScanned == ASSUME NumberInv, N!ToNumber PROVE NumberInv'
<1> DEFINE strange == {i \in 1..Len(numeral) : numeral[i] \notin N!Digits \/ numeral[i] >= base}
           stop == IF strange = {} THEN Len(numeral) ELSE N!Min(strange) - 1
<1>1. /\ conversion = "text" /\ conversion' = "scanned"
      /\ UNCHANGED <<base, ud, pob, numeral, whole>>
      /\ got' = [accepted |-> stop = Len(numeral), double |-> TRUE,
                 value |-> N!Accumulated(SubSeq(numeral, 1, stop), base)]
  BY DEF N!ToNumber
<1>2. RadixOK(base) /\ Written(numeral, whole, base)
  BY <1>1 DEF NumberInv, Conversion
<1>3. Head(numeral) # N!Hyphen => got'.accepted /\ got'.value = whole
  <2> SUFFICES ASSUME Head(numeral) # N!Hyphen PROVE got'.accepted /\ got'.value = whole
    OBVIOUS
  <2>1. /\ strange = {}
        /\ N!Accumulated(SubSeq(numeral, 1, Len(numeral)), base) = whole
    BY <1>2, ScannedIs
  <2>2. stop = Len(numeral)
    BY <2>1
  <2> HIDE DEF stop
  <2> QED BY <1>1, <2>1, <2>2
<1> HIDE DEF stop
<1>4. Rereads("scanned", numeral, got', whole)
  BY <1>3 DEF Rereads
<1>5. Rereads(conversion', numeral', got', whole')
  BY <1>1, <1>4
<1> QED BY <1>1, <1>2, <1>5 DEF NumberInv, Conversion

LEMMA NumberForgotten == ASSUME NumberInv, N!Forgotten PROVE NumberInv'
<1>1. conversion' = "idle" /\ base' = base
  BY DEF N!Forgotten
<1>2. RadixOK(base)
  BY DEF NumberInv, Conversion
<1> QED BY <1>1, <1>2 DEF NumberInv, Conversion, Rereads

LEMMA NumberInductive == NumberInv /\ [N!Next]_numberVars => NumberInv'
<1> SUFFICES ASSUME NumberInv, [N!Next]_numberVars PROVE NumberInv'
  OBVIOUS
<1>1. CASE UNCHANGED numberVars
  <2>1. /\ base' = base /\ conversion' = conversion /\ ud' = ud /\ pob' = pob
        /\ numeral' = numeral /\ whole' = whole /\ got' = got
    BY <1>1 DEF numberVars
  <2> QED BY <2>1 DEF NumberInv
<1> QED BY <1>1, BaseStored, PictureStarted, DigitPut, DigitsPut, PictureFinished, CellPrinted,
        TokenRead, TextRead, TextScanned, NumberForgotten DEF N!Next

LEMMA NumberHolds == NumberInv => N!PicturedExact /\ N!ReadsBack /\ N!ReadsNumerals
<1> SUFFICES ASSUME NumberInv PROVE N!PicturedExact /\ N!ReadsBack /\ N!ReadsNumerals
  OBVIOUS
<1>1. N!PicturedExact
  BY NumberCells DEF NumberInv, Conversion, Picturing, N!PicturedExact
<1>2. N!ReadsBack
  BY DEF NumberInv, Conversion, Rereads, N!ReadsBack
<1>3. N!ReadsNumerals
  <2> SUFFICES ASSUME conversion = "read"
               PROVE  LET token == N!Kept(ReadToken(numeral)) IN
                      /\ token = <<>> => got = N!Nothing
                      /\ HasDigit(token) => got = Parsed(token, ReadRadix(numeral, base))
    BY NumberDoubles, NumberCells
    DEF N!ReadsNumerals, HasDigit, ReadToken, ReadRadix, Parsed, Unsigned, Wrong, SignedMeaning
  <2>1. ReadAs(numeral, base, got)
    BY DEF NumberInv, Conversion
  <2> QED BY <2>1 DEF ReadAs
<1> QED BY <1>1, <1>2, <1>3

(* In every base and for cells of any width: the double that # and #S are  *)
(* still to divide, with the digits put so far, is the number; what `.`,   *)
(* `U.` and #> put out is read as the number it was, also with a point     *)
(* behind it and by >NUMBER; and what a token with a digit is read as is   *)
(* what its digits mean (utility.c, primitives.c, vm.c, prefix.c).         *)
THEOREM NumeralsAreExact == MCSpec => []NumeralsExact
<1>1. MCInit => NumberInv
  BY NumberInitially DEF MCInit
<1>2. NumberInv /\ [MCNext]_mcVars => NumberInv'
  <2>1. [MCNext]_mcVars => [N!Next]_numberVars
    BY DEF MCNext, mcVars
  <2> QED BY <2>1, NumberInductive
<1>3. NumberInv => NumeralsExact
  BY NumberHolds DEF NumeralsExact
<1> QED BY <1>1, <1>2, <1>3, PTL DEF MCSpec

--------------------------------------------------------------------------------
(* Input: how a file becomes words.                                        *)

(* From i on, u is the first index whose character is in S, or the end.    *)
StopsAt(text_, i, S, u) ==
  /\ u \in i..Len(text_)
  /\ \A j \in i..(u - 1) : text_[j + 1] \notin S
  /\ u < Len(text_) => text_[u + 1] \in S

(* Upto stops (the loops of the parser of vm.c). *)
LEMMA UptoStops ==
  ASSUME NEW Set, NEW w \in Seq(Set), NEW i \in 0..Len(w), NEW S
  PROVE  T!Upto(w, i, S) \in i..Len(w) /\ StopsAt(w, i, S, T!Upto(w, i, S))
<1> DEFINE Found == {j \in i..(Len(w) - 1) : w[j + 1] \in S} \cup {Len(w)}
<1>1. Len(w) \in Nat /\ Len(w) \in Found
  BY LenProperties
<1>2. Found \in SUBSET Nat /\ Found # {} /\ Found \subseteq i..Len(w)
  BY <1>1
<1>3. PICK u \in Found : \A v \in Found : u <= v
  BY <1>2, Least
<1> DEFINE upto == CHOOSE x \in Found : \A y \in Found : x <= y
<1>4. T!Upto(w, i, S) = upto
  BY DEF T!Upto, T!Min
<1>5. upto \in Found /\ \A v \in Found : upto <= v
  BY <1>3
<1> HIDE DEF upto
<1>6. upto \in i..Len(w)
  BY <1>2, <1>5
<1>7. ASSUME NEW j \in i..(upto - 1) PROVE w[j + 1] \notin S
  <2>1. j \in i..(Len(w) - 1) /\ j < upto
    BY <1>6
  <2>2. w[j + 1] \in S => j \in Found
    BY <2>1
  <2> HIDE DEF Found
  <2> QED BY <2>1, <2>2, <1>5, <1>6
<1>8. upto < Len(w) => w[upto + 1] \in S
  BY <1>5, <1>6
<1> QED BY <1>4, <1>6, <1>7, <1>8 DEF StopsAt

(* There is one place to stop at. *)
LEMMA UptoIs ==
  ASSUME NEW Set, NEW w \in Seq(Set), NEW i \in 0..Len(w), NEW S, NEW u, StopsAt(w, i, S, u)
  PROVE  T!Upto(w, i, S) = u
<1>1. PICK v \in Int : v = T!Upto(w, i, S) /\ StopsAt(w, i, S, v) /\ v \in i..Len(w)
  BY UptoStops
<1>2. u \in i..Len(w) /\ Len(w) \in Nat
  BY LenProperties DEF StopsAt
<1>3. ~ v < u
  <2> SUFFICES ASSUME v < u PROVE FALSE
    OBVIOUS
  <2>1. v \in i..(u - 1) /\ v < Len(w)
    BY <1>1, <1>2
  <2> QED BY <1>1, <2>1 DEF StopsAt
<1>4. ~ u < v
  <2> SUFFICES ASSUME u < v PROVE FALSE
    OBVIOUS
  <2>1. u \in i..(v - 1) /\ u < Len(w)
    BY <1>1, <1>2
  <2> QED BY <1>1, <2>1 DEF StopsAt
<1> QED BY <1>1, <1>2, <1>3, <1>4

(* Behind the text there is nothing to stop at but its end. *)
LEMMA UptoBeyond ==
  ASSUME NEW Set, NEW w \in Seq(Set), NEW i \in Nat, i >= Len(w), NEW S
  PROVE  T!Upto(w, i, S) = Len(w)
<1> DEFINE Found == {j \in i..(Len(w) - 1) : w[j + 1] \in S} \cup {Len(w)}
<1>1. Len(w) \in Nat
  BY LenProperties
<1>2. Found = {Len(w)}
  BY <1>1
<1>3. T!Upto(w, i, S) = CHOOSE x \in {Len(w)} : \A y \in {Len(w)} : x <= y
  BY <1>2 DEF T!Upto, T!Min
<1>4. \E x \in {Len(w)} : \A y \in {Len(w)} : x <= y
  BY <1>1
<1> QED BY <1>3, <1>4

(* Every index has a place to stop at. *)
LEMMA UptoTyped ==
  ASSUME NEW Set, NEW w \in Seq(Set), NEW i \in Nat, NEW S
  PROVE  T!Upto(w, i, S) \in 0..Len(w) /\ (i <= Len(w) => i <= T!Upto(w, i, S))
<1>1. Len(w) \in Nat
  BY LenProperties
<1>2. CASE i <= Len(w)
  BY <1>1, <1>2, UptoStops
<1>3. CASE i > Len(w)
  BY <1>1, <1>3, UptoBeyond
<1> QED BY <1>1, <1>2, <1>3

Nonblank == T!Chars \ T!Blanks

NameFrom(h, i) == T!Upto(h, i, Nonblank)

NameTo(h, from) == T!Upto(h, from, T!Blanks)

NameAt(h, from) == SubSeq(h, from + 1, NameTo(h, from))

CommentEnds(f) == IF f = "include" THEN {")"} ELSE {")", "n"}

(* The text behind a name: where it begins and ends, and where it is gone  *)
(* on.                                                                     *)
LimitFrom(h, i, S) == IF i < Len(h) /\ h[i + 1] \in S THEN i ELSE i + 1

LimitTo(h, i, S) == T!Upto(h, LimitFrom(h, i, S), S)

LimitAt(h, i, S) ==
  [text |-> SubSeq(h, LimitFrom(h, i, S) + 1, LimitTo(h, i, S)),
   next |-> IF LimitTo(h, i, S) < Len(h) /\ h[LimitTo(h, i, S) + 1] = ")"
            THEN LimitTo(h, i, S) + 1 ELSE LimitTo(h, i, S)]

(* What a text means from a name on, where m says what it means further on. *)
MeantFrom(f, h, m, from) ==
  IF NameAt(h, from) = <<>> THEN <<>>
  ELSE IF NameAt(h, from) = <<"\\">> THEN m[T!Upto(h, NameTo(h, from), T!Eols) + 1]
  ELSE IF NameAt(h, from) = <<"(">> THEN m[LimitAt(h, NameTo(h, from), CommentEnds(f)).next]
  ELSE IF NameAt(h, from) = <<"s">>
  THEN <<NameAt(h, from), LimitAt(h, NameTo(h, from), T!Eols \cup {")"}).text>>
         \o m[LimitAt(h, NameTo(h, from), T!Eols \cup {")"}).next]
  ELSE IF NameAt(h, from) = <<"'">>
  THEN IF NameFrom(h, NameTo(h, from)) = NameTo(h, NameFrom(h, NameTo(h, from)))
       THEN <<NameAt(h, from)>>
       ELSE <<NameAt(h, from), NameAt(h, NameFrom(h, NameTo(h, from)))>>
              \o m[NameTo(h, NameFrom(h, NameTo(h, from)))]
  ELSE <<NameAt(h, from)>> \o m[NameTo(h, from)]

IsMeaning(f, h, m) == m = [i \in 0..(Len(h) + 2) |-> MeantFrom(f, h, m, NameFrom(h, i))]

Meaning(f, h) == CHOOSE m : IsMeaning(f, h, m)

LEMMA MeantIsMeaning == ASSUME NEW h PROVE T!Meant(h) = Meaning(feed, h)[0]
BY Zenon DEF T!Meant, Meaning, IsMeaning, MeantFrom, LimitAt, LimitTo, LimitFrom, CommentEnds,
   NameAt, NameTo, NameFrom, Nonblank

CharSeq == Seq(T!Chars)

NameWords == Seq(CharSeq)

Meanings(h) == [0..(Len(h) + 2) -> NameWords]

(* A part of a text is a text. *)
LEMMA PartOfText ==
  ASSUME NEW h \in CharSeq, NEW i \in Nat, NEW j \in 0..Len(h)
  PROVE  SubSeq(h, i + 1, j) \in CharSeq /\ Len(SubSeq(h, i + 1, j)) = (IF i < j THEN j - i ELSE 0)
<1>1. Len(h) \in Nat /\ i + 1 \in Int /\ j \in Int
  BY LenProperties DEF CharSeq
<1>2. ASSUME NEW k \in (i + 1)..j PROVE h[k] \in T!Chars
  <2>1. k \in 1..Len(h)
    BY <1>1
  <2> QED BY <2>1, ElementOfSeq DEF CharSeq
<1>3. /\ SubSeq(h, i + 1, j) \in Seq(T!Chars)
      /\ Len(SubSeq(h, i + 1, j)) = IF i + 1 <= j THEN j - (i + 1) + 1 ELSE 0
  BY <1>1, <1>2, SubSeqProperties
<1> QED BY <1>1, <1>3 DEF CharSeq

LEMMA NameBounds ==
  ASSUME NEW h \in CharSeq, NEW i \in Nat
  PROVE  /\ NameFrom(h, i) \in 0..Len(h)
         /\ i <= Len(h) => i <= NameFrom(h, i)
         /\ NameTo(h, NameFrom(h, i)) \in NameFrom(h, i)..Len(h)
         /\ NameFrom(h, i) < Len(h) => NameFrom(h, i) < NameTo(h, NameFrom(h, i))
         /\ NameFrom(h, i) < Len(h) => i <= NameFrom(h, i)
         /\ NameAt(h, NameFrom(h, i)) \in CharSeq
         /\ NameAt(h, NameFrom(h, i)) = <<>> <=> NameFrom(h, i) = Len(h)
<1>1. Len(h) \in Nat
  BY LenProperties DEF CharSeq
<1>2. PICK from \in 0..Len(h) : from = NameFrom(h, i) /\ (i <= Len(h) => i <= from)
  BY UptoTyped DEF NameFrom, CharSeq
<1>3. PICK to \in from..Len(h) : to = NameTo(h, from) /\ StopsAt(h, from, T!Blanks, to)
  <2>1. from \in 0..Len(h)
    OBVIOUS
  <2> QED BY <2>1, UptoStops DEF NameTo, CharSeq
<1>4. i > Len(h) => from = Len(h)
  BY <1>2, UptoBeyond DEF NameFrom, CharSeq
<1>5. ASSUME from < Len(h) PROVE from < to
  <2>1. i <= Len(h)
    BY <1>1, <1>4, <1>5
  <2>2. StopsAt(h, i, Nonblank, from)
    BY <1>1, <1>2, <2>1, UptoStops DEF NameFrom, CharSeq
  <2>3. h[from + 1] \in Nonblank
    BY <2>2, <1>5 DEF StopsAt
  <2>4. h[from + 1] \notin T!Blanks
    BY <2>3 DEF Nonblank
  <2>5. to # from
    BY <1>3, <1>5, <2>4 DEF StopsAt
  <2> QED BY <2>5, <1>3
<1>6. NameAt(h, from) \in CharSeq /\ Len(NameAt(h, from)) = (IF from < to THEN to - from ELSE 0)
  BY <1>1, <1>3, PartOfText DEF NameAt
<1>7. NameAt(h, from) = <<>> <=> Len(NameAt(h, from)) = 0
  BY <1>6, EmptySeq DEF CharSeq
<1>8. NameAt(h, from) = <<>> <=> from = Len(h)
  BY <1>1, <1>2, <1>3, <1>5, <1>6, <1>7
<1> QED BY <1>1, <1>2, <1>3, <1>4, <1>5, <1>6, <1>8

LEMMA LimitBounds ==
  ASSUME NEW h \in CharSeq, NEW i \in 0..Len(h), NEW S
  PROVE  LimitAt(h, i, S).next \in i..Len(h) /\ LimitAt(h, i, S).text \in CharSeq
<1>1. Len(h) \in Nat
  BY LenProperties DEF CharSeq
<1>2. PICK from \in Nat : from = LimitFrom(h, i, S) /\ from >= i
  BY <1>1 DEF LimitFrom
<1>3. PICK to \in 0..Len(h) : to = LimitTo(h, i, S) /\ (from <= Len(h) => from <= to)
                              /\ (from > Len(h) => to = Len(h))
  <2>1. T!Upto(h, from, S) \in 0..Len(h) /\ (from <= Len(h) => from <= T!Upto(h, from, S))
    BY UptoTyped DEF CharSeq
  <2>2. from > Len(h) => T!Upto(h, from, S) = Len(h)
    BY <1>1, UptoBeyond DEF CharSeq
  <2> QED BY <1>2, <2>1, <2>2 DEF LimitTo
<1>4. to >= i
  BY <1>1, <1>2, <1>3
<1>5. LimitAt(h, i, S).text = SubSeq(h, from + 1, to)
  BY <1>2, <1>3 DEF LimitAt
<1>6. LimitAt(h, i, S).next = IF to < Len(h) /\ h[to + 1] = ")" THEN to + 1 ELSE to
  BY <1>3 DEF LimitAt
<1>7. SubSeq(h, from + 1, to) \in CharSeq
  BY PartOfText
<1> QED BY <1>1, <1>3, <1>4, <1>5, <1>6, <1>7

(* What a text means from a place on depends on what is behind it.         *)
LEMMA MeantDepends ==
  ASSUME NEW f, NEW h \in CharSeq, NEW i \in 0..(Len(h) + 2), NEW m, NEW k,
         \A j \in 1..(Len(h) + 1) : j > i => m[j] = k[j]
  PROVE  MeantFrom(f, h, m, NameFrom(h, i)) = MeantFrom(f, h, k, NameFrom(h, i))
<1>1. Len(h) \in Nat /\ i \in Nat
  BY LenProperties DEF CharSeq
<1>2. PICK from \in 0..Len(h) : from = NameFrom(h, i) /\ (from < Len(h) => i <= from)
  BY <1>1, NameBounds
<1>3. PICK to \in from..Len(h) : to = NameTo(h, from) /\ (from < Len(h) => from < to)
  BY <1>1, <1>2, NameBounds
<1>4. NameAt(h, from) = <<>> <=> from = Len(h)
  BY <1>1, <1>2, NameBounds
<1>5. CASE NameAt(h, from) = <<>>
  BY <1>2, <1>5 DEF MeantFrom
<1>6. CASE NameAt(h, from) # <<>>
  <2>1. from < Len(h) /\ to > i /\ to \in Nat
    BY <1>1, <1>2, <1>3, <1>4, <1>6
  <2>2. ASSUME NEW j \in to..(Len(h) + 1) PROVE m[j] = k[j]
    BY <1>1, <2>1
  <2>3. T!Upto(h, to, T!Eols) + 1 \in to..(Len(h) + 1)
    <3>1. T!Upto(h, to, T!Eols) \in 0..Len(h) /\ (to <= Len(h) => to <= T!Upto(h, to, T!Eols))
      BY <2>1, UptoTyped DEF CharSeq
    <3> QED BY <1>1, <3>1
  <2>4. ASSUME NEW S PROVE LimitAt(h, to, S).next \in to..(Len(h) + 1)
    <3>1. LimitAt(h, to, S).next \in to..Len(h)
      BY <1>1, <2>1, LimitBounds
    <3> QED BY <1>1, <3>1
  <2>5. NameTo(h, NameFrom(h, to)) \in to..(Len(h) + 1)
    <3>1. PICK from2 \in 0..Len(h) : from2 = NameFrom(h, to) /\ to <= from2
      BY <2>1, NameBounds
    <3>2. NameTo(h, from2) \in from2..Len(h)
      BY <2>1, <3>1, NameBounds
    <3> QED BY <1>1, <3>1, <3>2
  <2>6. to \in to..(Len(h) + 1)
    BY <1>1
  <2> DEFINE upto == T!Upto(h, to, T!Eols) + 1
             paren == LimitAt(h, to, CommentEnds(f)).next
             parse == LimitAt(h, to, T!Eols \cup {")"}).next
             second == NameTo(h, NameFrom(h, to))
  <2>7. m[upto] = k[upto] /\ m[paren] = k[paren] /\ m[parse] = k[parse]
        /\ m[second] = k[second] /\ m[to] = k[to]
    BY <2>2, <2>3, <2>4, <2>5, <2>6
  <2> QED BY <1>2, <1>3, <2>7 DEF MeantFrom
<1> QED BY <1>5, <1>6

LEMMA MeantTyped ==
  ASSUME NEW f, NEW h \in CharSeq, NEW i \in 0..(Len(h) + 2), NEW m \in Meanings(h)
  PROVE  MeantFrom(f, h, m, NameFrom(h, i)) \in NameWords
<1>1. Len(h) \in Nat /\ i \in Nat
  BY LenProperties DEF CharSeq
<1>2. PICK from \in 0..Len(h) : from = NameFrom(h, i)
  BY <1>1, NameBounds
<1>3. PICK to \in 0..Len(h) : to = NameTo(h, from)
  <2>1. NameTo(h, from) \in from..Len(h)
    BY <1>1, <1>2, NameBounds
  <2> QED BY <1>1, <2>1
<1>4. PICK name \in CharSeq : name = NameAt(h, from)
  BY <1>1, <1>2, NameBounds
<1>5. ASSUME NEW j \in 0..(Len(h) + 1) PROVE m[j] \in NameWords
  <2>1. j \in 0..(Len(h) + 2)
    BY <1>1
  <2> QED BY <2>1 DEF Meanings
<1>6. m[T!Upto(h, to, T!Eols) + 1] \in NameWords
  <2>1. T!Upto(h, to, T!Eols) \in 0..Len(h)
    BY UptoTyped DEF CharSeq
  <2> QED BY <1>1, <1>5, <2>1
<1>7. ASSUME NEW S PROVE m[LimitAt(h, to, S).next] \in NameWords /\ LimitAt(h, to, S).text \in CharSeq
  <2>1. LimitAt(h, to, S).next \in to..Len(h) /\ LimitAt(h, to, S).text \in CharSeq
    BY LimitBounds
  <2>2. LimitAt(h, to, S).next \in 0..(Len(h) + 1)
    BY <1>1, <2>1
  <2> QED BY <1>5, <2>1, <2>2
<1>8. PICK from2 \in 0..Len(h) : from2 = NameFrom(h, to)
  <2>1. to \in Nat
    BY <1>1
  <2> QED BY <2>1, NameBounds
<1>9. NameAt(h, from2) \in CharSeq /\ m[NameTo(h, from2)] \in NameWords
  <2>1. NameAt(h, from2) \in CharSeq /\ NameTo(h, from2) \in from2..Len(h)
    BY <1>8, NameBounds
  <2>2. NameTo(h, from2) \in 0..(Len(h) + 1)
    BY <1>1, <2>1
  <2> QED BY <1>5, <2>1, <2>2
<1>10. m[to] \in NameWords
  <2>1. to \in 0..(Len(h) + 1)
    BY <1>1
  <2> QED BY <1>5, <2>1
<1>11. ASSUME NEW w \in CharSeq, NEW v \in CharSeq, NEW rest \in NameWords
       PROVE  /\ <<>> \in NameWords /\ <<w>> \in NameWords /\ <<w, v>> \in NameWords
              /\ <<w>> \o rest \in NameWords /\ <<w, v>> \o rest \in NameWords
  <2>1. <<>> \in NameWords /\ <<w>> \in NameWords /\ <<w, v>> \in NameWords
    BY DEF NameWords
  <2> QED BY <2>1, ConcatProperties DEF NameWords
<1> DEFINE parse == LimitAt(h, to, T!Eols \cup {")"})
           paren == LimitAt(h, to, CommentEnds(f))
<1>12. m[paren.next] \in NameWords /\ m[parse.next] \in NameWords /\ parse.text \in CharSeq
  BY <1>7
<1>13. <<name, parse.text>> \o m[parse.next] \in NameWords
  BY <1>11, <1>12
<1>14. <<name, NameAt(h, from2)>> \o m[NameTo(h, from2)] \in NameWords
  BY <1>9, <1>11
<1>15. <<name>> \o m[to] \in NameWords /\ <<name>> \in NameWords /\ <<>> \in NameWords
  BY <1>10, <1>11
<1> HIDE DEF parse, paren
<1> QED BY <1>2, <1>3, <1>4, <1>6, <1>8, <1>12, <1>13, <1>14, <1>15 DEF MeantFrom, parse, paren

(* There is what a text means: the places are given their meaning from the *)
(* last one on.                                                            *)
LEMMA MeaningExists ==
  ASSUME NEW f, NEW h \in CharSeq PROVE \E m \in Meanings(h) : IsMeaning(f, h, m)
<1>1. PICK last \in Nat : last = Len(h) + 2
  BY LenProperties DEF CharSeq
<1> DEFINE Means(m, i) == m[i] = MeantFrom(f, h, m, NameFrom(h, i))
           Nums == {k \in Nat : \E m \in Meanings(h) : \A i \in 0..last : i > last - k => Means(m, i)}
<1>2. 0 \in Nums
  <2>1. <<>> \in NameWords
    BY DEF NameWords
  <2>2. [i \in 0..last |-> <<>>] \in Meanings(h)
    BY <1>1, <2>1 DEF Meanings
  <2> QED BY <2>2
<1>3. ASSUME NEW k \in 1..(last + 1), k - 1 \in Nums PROVE k \in Nums
  <2>1. PICK m \in Meanings(h) : \A i \in 0..last : i > last - (k - 1) => Means(m, i)
    BY <1>3
  <2>2. PICK spot \in 0..last : spot = last - (k - 1)
    BY <1>1
  <2>3. PICK v \in NameWords : v = MeantFrom(f, h, m, NameFrom(h, spot))
    BY <1>1, <2>1, <2>2, MeantTyped
  <2> DEFINE n == [m EXCEPT ![spot] = v]
  <2>4. n \in Meanings(h)
    BY <1>1, <2>1, <2>2, <2>3 DEF Meanings
  <2>5. n[spot] = v /\ \A i \in 0..last : i # spot => n[i] = m[i]
    BY <1>1, <2>1, <2>2, <2>3 DEF Meanings
  <2> HIDE DEF n
  <2>6. ASSUME NEW i \in 0..last, i > last - k PROVE Means(n, i)
    <3>1. i >= spot
      BY <2>2, <2>6
    <3>2. \A j \in 1..(Len(h) + 1) : j > i => n[j] = m[j]
      BY <1>1, <2>2, <2>5, <3>1
    <3>3. MeantFrom(f, h, n, NameFrom(h, i)) = MeantFrom(f, h, m, NameFrom(h, i))
      BY <1>1, <3>2, MeantDepends
    <3>4. CASE i = spot
      BY <2>3, <2>5, <3>3, <3>4
    <3>5. CASE i # spot
      <4>1. i > last - (k - 1)
        BY <2>2, <3>1, <3>5
      <4>2. Means(m, i)
        BY <2>1, <4>1
      <4> QED BY <2>5, <3>3, <3>5, <4>2
    <3> QED BY <3>4, <3>5
  <2> HIDE DEF Means
  <2> QED BY <2>4, <2>6
<1>4. last + 1 \in Nums
  <2> HIDE DEF Nums
  <2>1. last + 1 \in Nat /\ last + 1 \in 0..(last + 1)
    OBVIOUS
  <2>2. \A k \in 0..(last + 1) : k \in Nums
    BY <1>2, <1>3, <2>1, UpTo
  <2> QED BY <2>1, <2>2
<1>5. PICK m \in Meanings(h) : \A i \in 0..last : i > last - (last + 1) => Means(m, i)
  BY <1>4
<1>6. \A i \in 0..last : Means(m, i)
  BY <1>5
<1>7. m = [i \in 0..last |-> m[i]]
  BY <1>1 DEF Meanings
<1> QED BY <1>1, <1>6, <1>7 DEF IsMeaning

(* And only one. *)
LEMMA MeaningUnique ==
  ASSUME NEW f, NEW h \in CharSeq, NEW m, NEW k, IsMeaning(f, h, m), IsMeaning(f, h, k)
  PROVE  m = k
<1>1. PICK last \in Nat : last = Len(h) + 2
  BY LenProperties DEF CharSeq
<1>2. \A i \in 0..last : m[i] = MeantFrom(f, h, m, NameFrom(h, i))
  BY <1>1 DEF IsMeaning
<1>3. \A i \in 0..last : k[i] = MeantFrom(f, h, k, NameFrom(h, i))
  BY <1>1 DEF IsMeaning
<1> DEFINE Nums == {n \in Nat : \A i \in 0..last : i > last - n => m[i] = k[i]}
<1>4. 0 \in Nums
  OBVIOUS
<1>5. ASSUME NEW n \in 1..(last + 1), n - 1 \in Nums PROVE n \in Nums
  <2>1. \A i \in 0..last : i > last - (n - 1) => m[i] = k[i]
    BY <1>5
  <2>2. ASSUME NEW i \in 0..last, i > last - n PROVE m[i] = k[i]
    <3>1. \A j \in 1..(Len(h) + 1) : j > i => m[j] = k[j]
      BY <1>1, <2>1, <2>2
    <3>2. MeantFrom(f, h, m, NameFrom(h, i)) = MeantFrom(f, h, k, NameFrom(h, i))
      BY <1>1, <3>1, MeantDepends
    <3> QED BY <1>2, <1>3, <3>2
  <2> QED BY <2>2
<1>6. \A i \in 0..last : m[i] = k[i]
  <2>1. last + 1 \in Nat /\ last + 1 \in 0..(last + 1)
    OBVIOUS
  <2>2. last + 1 \in Nums
    <3> HIDE DEF Nums
    <3>1. \A n \in 0..(last + 1) : n \in Nums
      BY <1>4, <1>5, <2>1, UpTo
    <3> QED BY <2>1, <3>1
  <2> QED BY <2>2
<1>7. m = [i \in 0..last |-> m[i]] /\ k = [i \in 0..last |-> k[i]]
  <2>1. m = [i \in 0..last |-> MeantFrom(f, h, m, NameFrom(h, i))]
    BY <1>1 DEF IsMeaning
  <2>2. k = [i \in 0..last |-> MeantFrom(f, h, k, NameFrom(h, i))]
    BY <1>1 DEF IsMeaning
  <2> QED BY <2>1, <2>2, <1>2, <1>3
<1> QED BY <1>6, <1>7

LEMMA MeaningIsOne ==
  ASSUME NEW f, NEW h \in CharSeq, NEW k, k = Meaning(f, h)
  PROVE  k \in Meanings(h) /\ IsMeaning(f, h, k)
<1>1. PICK m \in Meanings(h) : IsMeaning(f, h, m)
  BY MeaningExists
<1>2. IsMeaning(f, h, k)
  BY <1>1 DEF Meaning
<1>3. k = m
  BY <1>1, <1>2, MeaningUnique
<1> QED BY <1>1, <1>3

LEMMA MeaningGives ==
  ASSUME NEW f, NEW h \in CharSeq, NEW m, m = Meaning(f, h), NEW i \in 0..(Len(h) + 2)
  PROVE  m[i] = MeantFrom(f, h, m, NameFrom(h, i))
<1>1. IsMeaning(f, h, m)
  BY MeaningIsOne
<1>2. m = [j \in 0..(Len(h) + 2) |-> MeantFrom(f, h, m, NameFrom(h, j))]
  BY <1>1 DEF IsMeaning
<1> QED BY <1>2

LEMMA MeaningTyped ==
  ASSUME NEW f, NEW h \in CharSeq, NEW m, m = Meaning(f, h), NEW i \in 0..(Len(h) + 2)
  PROVE  m[i] \in NameWords
<1>1. m \in Meanings(h)
  BY MeaningIsOne
<1> QED BY <1>1 DEF Meanings

(* A text t that is a piece of h, behind its first b characters: all of    *)
(* it, a line with its newline, or a line whose newline is behind it.      *)
Piece(f, h, t, b) ==
  /\ h \in CharSeq /\ t \in CharSeq /\ b \in Nat /\ b + Len(t) <= Len(h)
  /\ \A j \in 1..Len(t) : h[b + j] = t[j]
  /\ f \in {"load", "include", "main"}
  /\ f = "include" => b + Len(t) = Len(h)
  /\ f = "main" => Len(t) > 0 /\ t[Len(t)] = "n"
  /\ f = "load" => b + Len(t) < Len(h) /\ h[b + Len(t) + 1] = "n"
  /\ f # "include" => \A j \in 1..(Len(t) - 1) : t[j] # "n"
  /\ f = "load" => \A j \in 1..Len(t) : t[j] # "n"

(* Where the text behind a piece begins.                                   *)
EndOfPiece(f, t, b) == IF f = "load" THEN b + Len(t) + 1 ELSE b + Len(t)

LEMMA PieceUpto ==
  ASSUME NEW f, NEW h, NEW t, NEW b, Piece(f, h, t, b), NEW i \in 0..Len(t), NEW S,
         \/ T!Upto(t, i, S) < Len(t)
         \/ b + Len(t) = Len(h)
         \/ b + Len(t) < Len(h) /\ h[b + Len(t) + 1] \in S
  PROVE  T!Upto(h, b + i, S) = b + T!Upto(t, i, S)
<1>1. /\ h \in CharSeq /\ t \in CharSeq /\ b \in Nat /\ Len(h) \in Nat /\ Len(t) \in Nat
      /\ b + Len(t) <= Len(h) /\ \A j \in 1..Len(t) : h[b + j] = t[j]
  BY LenProperties DEF Piece, CharSeq
<1>2. PICK u \in i..Len(t) : u = T!Upto(t, i, S) /\ StopsAt(t, i, S, u)
  BY <1>1, UptoStops DEF CharSeq
<1>3. u < Len(t) => t[u + 1] \in S
  BY <1>2 DEF StopsAt
<1>4. ASSUME NEW j \in (b + i)..(b + u - 1) PROVE h[j + 1] \notin S
  <2>1. PICK k \in i..(u - 1) : k = j - b
    BY <1>1, <1>2
  <2>2. t[k + 1] \notin S
    BY <1>2, <2>1 DEF StopsAt
  <2>3. k + 1 \in 1..Len(t) /\ b + (k + 1) = j + 1
    BY <1>1, <1>2, <2>1
  <2> QED BY <1>1, <2>2, <2>3, SMTT(30)
<1>5. ASSUME b + u < Len(h) PROVE h[b + u + 1] \in S
  <2>1. CASE u < Len(t)
    <3>0. u \in Nat /\ b \in Nat /\ Len(t) \in Nat
      BY <1>1, <1>2
    <3>1. PICK k \in 1..Len(t) : k = u + 1 /\ b + k = b + u + 1
      BY <3>0, <2>1
    <3> QED BY <1>1, <1>3, <2>1, <3>1
  <2>2. CASE u = Len(t)
    BY <1>2, <1>5, <2>2
  <2> QED BY <1>1, <1>2, <2>1, <2>2
<1>6. StopsAt(h, b + i, S, b + u)
  <2>1. b + u \in (b + i)..Len(h)
    BY <1>1, <1>2
  <2>2. (b + u) - 1 = b + u - 1 /\ (b + u) + 1 = b + u + 1
    BY <1>1, <1>2
  <2> QED BY <1>4, <1>5, <2>1, <2>2 DEF StopsAt
<1>7. b + i \in 0..Len(h)
  BY <1>1
<1> QED BY <1>1, <1>2, <1>6, <1>7, UptoIs DEF CharSeq

(* Blanks before a name do not matter. *)
LEMMA SameFrom ==
  ASSUME NEW h \in CharSeq, NEW i \in Nat, NEW j \in Nat, i <= j,
         \A k \in i..(j - 1) : k < Len(h) => h[k + 1] \in T!Blanks
  PROVE  NameFrom(h, i) = NameFrom(h, j)
<1>1. Len(h) \in Nat
  BY LenProperties DEF CharSeq
<1>2. CASE i >= Len(h)
  <2>1. NameFrom(h, i) = Len(h) /\ NameFrom(h, j) = Len(h)
    BY <1>1, <1>2, UptoBeyond DEF NameFrom, CharSeq
  <2> QED BY <2>1
<1>3. CASE i < Len(h)
  <2>1. PICK u \in 0..Len(h) : u = NameFrom(h, j) /\ u >= i /\ (j <= Len(h) => u >= j)
                               /\ (j > Len(h) => u = Len(h))
    <3>1. NameFrom(h, j) \in 0..Len(h) /\ (j <= Len(h) => j <= NameFrom(h, j))
      BY NameBounds
    <3>2. j > Len(h) => NameFrom(h, j) = Len(h)
      BY <1>1, UptoBeyond DEF NameFrom, CharSeq
    <3> QED BY <1>1, <1>3, <3>1, <3>2
  <2>2. u < Len(h) => h[u + 1] \in Nonblank
    <3>1. SUFFICES ASSUME u < Len(h) PROVE h[u + 1] \in Nonblank
      OBVIOUS
    <3>2. j \in 0..Len(h)
      BY <1>1, <2>1, <3>1
    <3>3. StopsAt(h, j, Nonblank, u)
      BY <2>1, <3>2, UptoStops DEF NameFrom, CharSeq
    <3> QED BY <3>1, <3>3 DEF StopsAt
  <2>3. ASSUME NEW k \in i..(u - 1) PROVE h[k + 1] \notin Nonblank
    <3>1. CASE k < j
      <4>1. k \in i..(j - 1) /\ k < Len(h)
        BY <1>1, <2>1, <3>1
      <4>2. h[k + 1] \in T!Blanks
        BY <4>1
      <4> QED BY <4>2 DEF Nonblank
    <3>2. CASE k >= j
      <4>1. j \in 0..Len(h) /\ k \in j..(u - 1)
        BY <1>1, <2>1, <3>2
      <4>2. StopsAt(h, j, Nonblank, u)
        BY <2>1, <4>1, UptoStops DEF NameFrom, CharSeq
      <4> QED BY <4>1, <4>2 DEF StopsAt
    <3> QED BY <2>1, <3>1, <3>2
  <2>4. StopsAt(h, i, Nonblank, u)
    BY <1>1, <1>3, <2>1, <2>2, <2>3 DEF StopsAt
  <2>5. i \in 0..Len(h)
    BY <1>1, <1>3
  <2>6. NameFrom(h, i) = u
    BY <2>4, <2>5, UptoIs DEF NameFrom, CharSeq
  <2> QED BY <2>1, <2>6
<1> QED BY <1>1, <1>2, <1>3

(* What is not read of a word that takes a name: the name, and the rest.   *)
WaitFrom(h, m, from) ==
  IF from = NameTo(h, from) THEN <<>> ELSE <<NameAt(h, from)>> \o m[NameTo(h, from)]

(* The same is meant and waited for where only blanks are between.         *)
Same(f, h, i, j) ==
  /\ Meaning(f, h)[i] = Meaning(f, h)[j]
  /\ WaitFrom(h, Meaning(f, h), NameFrom(h, i)) = WaitFrom(h, Meaning(f, h), NameFrom(h, j))

LEMMA SameMeaning ==
  ASSUME NEW f, NEW h \in CharSeq, NEW i \in 0..(Len(h) + 2), NEW j \in 0..(Len(h) + 2), i <= j,
         \A k \in i..(j - 1) : k < Len(h) => h[k + 1] \in T!Blanks
  PROVE  Same(f, h, i, j) /\ Same(f, h, j, i)
<1>1. Len(h) \in Nat
  BY LenProperties DEF CharSeq
<1>2. NameFrom(h, i) = NameFrom(h, j)
  BY <1>1, SameFrom
<1>3. PICK m : m = Meaning(f, h)
  OBVIOUS
<1>4. m[i] = MeantFrom(f, h, m, NameFrom(h, i)) /\ m[j] = MeantFrom(f, h, m, NameFrom(h, j))
  BY <1>3, MeaningGives
<1>5. m[i] = m[j]
  BY <1>2, <1>4
<1> QED BY <1>2, <1>3, <1>5 DEF Same

LEMMA PieceTypes ==
  ASSUME NEW f, NEW h, NEW t, NEW b, Piece(f, h, t, b)
  PROVE  /\ h \in CharSeq /\ t \in CharSeq /\ Len(h) \in Nat /\ Len(t) \in Nat /\ b \in Nat
         /\ b + Len(t) <= Len(h)
         /\ EndOfPiece(f, t, b) \in (b + Len(t))..Len(h)
         /\ \A k \in (b + Len(t))..(EndOfPiece(f, t, b) - 1) : h[k + 1] \in T!Blanks
         /\ f # "include" => f \in {"load", "main"}
<1>1. h \in CharSeq /\ t \in CharSeq /\ Len(h) \in Nat /\ Len(t) \in Nat /\ b \in Nat
      /\ b + Len(t) <= Len(h)
  BY LenProperties DEF Piece, CharSeq
<1>2. f = "load" => b + Len(t) < Len(h) /\ h[b + Len(t) + 1] = "n"
  BY DEF Piece
<1>3. f # "include" => f \in {"load", "main"}
  BY DEF Piece
<1>4. "n" \in T!Blanks
  BY DEF T!Blanks, T!Eols
<1>5. CASE f = "load"
  BY <1>1, <1>2, <1>3, <1>4, <1>5 DEF EndOfPiece
<1>6. CASE f # "load"
  BY <1>1, <1>3, <1>6 DEF EndOfPiece
<1> QED BY <1>5, <1>6

LEMMA PieceAt ==
  ASSUME NEW f, NEW h, NEW t, NEW b, Piece(f, h, t, b), NEW k \in 0..(Len(t) - 1)
  PROVE  h[b + k + 1] = t[k + 1] /\ t[k + 1] \in T!Chars
<1>1. t \in CharSeq /\ Len(t) \in Nat /\ b \in Nat /\ \A j \in 1..Len(t) : h[b + j] = t[j]
  BY LenProperties DEF Piece, CharSeq
<1>2. PICK j \in 1..Len(t) : j = k + 1 /\ b + j = b + k + 1
  BY <1>1
<1>3. t[j] \in T!Chars
  BY <1>1, ElementOfSeq DEF CharSeq
<1> QED BY <1>1, <1>2, <1>3

Part(h, i, j) == SubSeq(h, i + 1, j)

LEMMA PiecePart ==
  ASSUME NEW f, NEW h, NEW t, NEW b, Piece(f, h, t, b), NEW i \in Nat, NEW j \in 0..Len(t)
  PROVE  Part(h, b + i, b + j) = Part(t, i, j)
<1>1. h \in CharSeq /\ t \in CharSeq /\ Len(h) \in Nat /\ Len(t) \in Nat /\ b \in Nat
      /\ b + Len(t) <= Len(h)
  BY PieceTypes
<1>2. \A k \in 0..(Len(t) - 1) : h[b + k + 1] = t[k + 1] /\ t[k + 1] \in T!Chars
  BY PieceAt
<1>3. PICK m \in Int : m = i + 1
  OBVIOUS
<1>4. PICK n \in Int : n = b + i + 1
  BY <1>1
<1>5. PICK last \in Int : last = b + j
  BY <1>1
<1>6. ASSUME NEW k \in m..j PROVE t[k] \in T!Chars /\ h[b + k] = t[k]
  <2>1. PICK l \in 0..(Len(t) - 1) : l + 1 = k /\ b + l + 1 = b + k
    BY <1>1, <1>3
  <2> QED BY <1>2, <2>1
<1>7. ASSUME NEW k \in n..last PROVE h[k] \in T!Chars
  <2>1. PICK l \in m..j : b + l = k
    BY <1>1, <1>3, <1>4, <1>5
  <2>2. h[b + l] = t[l] /\ t[l] \in T!Chars
    BY <1>6
  <2> QED BY <2>1, <2>2
<1>8. /\ SubSeq(t, m, j) \in Seq(T!Chars)
      /\ Len(SubSeq(t, m, j)) = IF m <= j THEN j - m + 1 ELSE 0
      /\ \A k \in 1..(j - m + 1) : SubSeq(t, m, j)[k] = t[m + k - 1]
  BY <1>6, SubSeqProperties
<1>9. /\ SubSeq(h, n, last) \in Seq(T!Chars)
      /\ Len(SubSeq(h, n, last)) = IF n <= last THEN last - n + 1 ELSE 0
      /\ \A k \in 1..(last - n + 1) : SubSeq(h, n, last)[k] = h[n + k - 1]
  BY <1>7, SubSeqProperties
<1>10. last - n + 1 = j - m + 1 /\ (n <= last <=> m <= j) /\ j - m + 1 \in Int
       /\ (~ m <= j => j - m + 1 <= 0)
  BY <1>1, <1>3, <1>4, <1>5
<1>11. Len(SubSeq(t, m, j)) = Len(SubSeq(h, n, last))
  BY <1>8, <1>9, <1>10
<1>12. ASSUME NEW k \in 1..Len(SubSeq(h, n, last)) PROVE SubSeq(h, n, last)[k] = SubSeq(t, m, j)[k]
  <2>1. k \in 1..(last - n + 1) /\ k \in 1..(j - m + 1)
    BY <1>9, <1>10
  <2>2. PICK l \in m..j : l = m + k - 1 /\ b + l = n + k - 1
    BY <1>1, <1>3, <1>4, <2>1
  <2> QED BY <1>6, <1>8, <1>9, <2>1, <2>2
<1>13. SubSeq(h, n, last) = SubSeq(t, m, j)
  <2> DEFINE begin == SubSeq(h, n, last)
             second == SubSeq(t, m, j)
  <2>1. begin \in Seq(T!Chars) /\ second \in Seq(T!Chars) /\ Len(begin) = Len(second)
    BY <1>8, <1>9, <1>11
  <2>2. \A k \in 1..Len(begin) : begin[k] = second[k]
    BY <1>12
  <2> HIDE DEF begin, second
  <2>3. begin = second
    BY <2>1, <2>2, SeqEqual
  <2> QED BY <2>3 DEF begin, second
<1>14. Part(h, b + i, b + j) = SubSeq(h, n, last) /\ Part(t, i, j) = SubSeq(t, m, j)
  BY <1>3, <1>4, <1>5 DEF Part
<1> QED BY <1>13, <1>14

(* Where a piece has no name, it is gone on behind it.                     *)
LEMMA PieceNoName ==
  ASSUME NEW f, NEW h, NEW t, NEW b, Piece(f, h, t, b), NEW i \in 0..Len(t),
         NameAt(t, NameFrom(t, i)) = <<>>
  PROVE  Same(f, h, b + i, EndOfPiece(f, t, b))
<1>1. /\ h \in CharSeq /\ t \in CharSeq /\ Len(h) \in Nat /\ Len(t) \in Nat /\ b \in Nat
      /\ EndOfPiece(f, t, b) \in (b + Len(t))..Len(h)
      /\ \A k \in (b + Len(t))..(EndOfPiece(f, t, b) - 1) : h[k + 1] \in T!Blanks
  BY PieceTypes
<1>2. PICK end \in Nat : end = EndOfPiece(f, t, b)
  BY <1>1
<1>3. NameFrom(t, i) = Len(t)
  BY <1>1, NameBounds
<1>4. StopsAt(t, i, Nonblank, Len(t))
  BY <1>1, <1>3, UptoStops DEF NameFrom, CharSeq
<1>5. ASSUME NEW k \in (b + i)..(end - 1) PROVE h[k + 1] \in T!Blanks
  <2>1. CASE k < b + Len(t)
    <3>1. PICK j \in 0..(Len(t) - 1) : j = k - b /\ j >= i /\ b + j + 1 = k + 1
      BY <1>1, <1>2, <2>1
    <3>2. h[b + j + 1] = t[j + 1] /\ t[j + 1] \in T!Chars
      BY PieceAt
    <3>3. j \in i..(Len(t) - 1)
      BY <3>1
    <3>4. t[j + 1] \notin Nonblank
      BY <1>4, <3>3 DEF StopsAt
    <3> QED BY <3>1, <3>2, <3>4 DEF Nonblank
  <2>2. CASE k >= b + Len(t)
    <3>1. k \in (b + Len(t))..(end - 1)
      BY <1>1, <2>2
    <3> QED BY <1>1, <1>2, <3>1
  <2> QED BY <1>1, <1>2, <2>1, <2>2
<1>6. PICK begin \in 0..(Len(h) + 2) : begin = b + i /\ begin <= end
  BY <1>1, <1>2
<1>7. end \in 0..(Len(h) + 2)
  BY <1>1, <1>2
<1>8. \A k \in begin..(end - 1) : k < Len(h) => h[k + 1] \in T!Blanks
  BY <1>5, <1>6
<1>9. Same(f, h, begin, end)
  BY <1>1, <1>6, <1>7, <1>8, SameMeaning
<1> QED BY <1>2, <1>6, <1>9

NextAt(t, to) == IF to < Len(t) THEN to + 1 ELSE to

(* A name of a piece is one of the text.                                   *)
LEMMA PieceName ==
  ASSUME NEW f, NEW h, NEW t, NEW b, Piece(f, h, t, b), NEW i \in 0..Len(t),
         NEW from, from = NameFrom(t, i), NameAt(t, from) # <<>>, NEW to, to = NameTo(t, from)
  PROVE  /\ NameFrom(h, b + i) = b + from
         /\ NameTo(h, b + from) = b + to
         /\ NameAt(h, b + from) = NameAt(t, from)
         /\ from \in i..(to - 1) /\ to \in (i + 1)..Len(t)
         /\ to < Len(t) => t[to + 1] \in T!Blanks
         /\ to = Len(t) => f # "main"
         /\ NextAt(t, to) \in to..Len(t)
<1>1. /\ h \in CharSeq /\ t \in CharSeq /\ Len(h) \in Nat /\ Len(t) \in Nat /\ b \in Nat
      /\ f # "include" => f \in {"load", "main"}
  BY PieceTypes
<1>2. from \in i..Len(t) /\ from < Len(t) /\ to \in from..Len(t) /\ from < to
  <2>1. i \in Nat /\ i <= Len(t)
    BY <1>1
  <2>2. /\ NameFrom(t, i) \in 0..Len(t)
        /\ i <= NameFrom(t, i)
        /\ NameTo(t, NameFrom(t, i)) \in NameFrom(t, i)..Len(t)
        /\ NameFrom(t, i) < Len(t) => NameFrom(t, i) < NameTo(t, NameFrom(t, i))
        /\ NameAt(t, NameFrom(t, i)) = <<>> <=> NameFrom(t, i) = Len(t)
    BY <1>1, <2>1, NameBounds
  <2>3. from \in 0..Len(t) /\ i <= from /\ to \in from..Len(t) /\ (from < Len(t) => from < to)
        /\ from # Len(t)
    BY <2>2
  <2> QED BY <1>1, <2>1, <2>3
<1>3. NameFrom(h, b + i) = b + from
  BY <1>2, PieceUpto DEF NameFrom
<1>4. from \in 0..Len(t)
  BY <1>1, <1>2
<1>5. StopsAt(t, from, T!Blanks, to)
  BY <1>1, <1>4, UptoStops DEF NameTo, CharSeq
<1>6. to < Len(t) => t[to + 1] \in T!Blanks
  BY <1>5 DEF StopsAt
<1>7. "n" \in T!Blanks
  BY DEF T!Blanks, T!Eols
<1>8. to = Len(t) => f # "main"
  <2> SUFFICES ASSUME to = Len(t), f = "main" PROVE FALSE
    OBVIOUS
  <2>1. PICK j \in from..(to - 1) : j + 1 = Len(t)
    BY <1>1, <1>2
  <2>2. t[j + 1] \notin T!Blanks
    BY <1>5 DEF StopsAt
  <2>3. t[Len(t)] = "n"
    BY DEF Piece
  <2> QED BY <1>7, <2>1, <2>2, <2>3
<1>9. NameTo(h, b + from) = b + to
  <2>1. f = "include" => b + Len(t) = Len(h)
    BY DEF Piece
  <2>2. f = "load" => b + Len(t) < Len(h) /\ h[b + Len(t) + 1] \in T!Blanks
    BY <1>7 DEF Piece
  <2>3. \/ to < Len(t) \/ b + Len(t) = Len(h)
        \/ b + Len(t) < Len(h) /\ h[b + Len(t) + 1] \in T!Blanks
    BY <1>1, <1>2, <1>8, <2>1, <2>2
  <2> QED BY <1>4, <2>3, PieceUpto DEF NameTo
<1>10. NameAt(h, b + from) = NameAt(t, from)
  <2>1. PICK k \in 0..Len(t) : k = to
    BY <1>1, <1>2
  <2>2. PICK j \in Nat : j = from
    BY <1>1, <1>2
  <2>3. Part(h, b + j, b + k) = Part(t, j, k)
    BY PiecePart
  <2>4. NameAt(h, b + from) = Part(h, b + j, b + k) /\ NameAt(t, from) = Part(t, j, k)
    BY <1>9, <2>1, <2>2 DEF NameAt, Part
  <2> QED BY <2>3, <2>4
<1> QED BY <1>1, <1>2, <1>3, <1>6, <1>8, <1>9, <1>10, SMTT(30) DEF NextAt

(* At i, a piece has a name from from to to.                               *)
Named(f, h, t, b, i, from, to) ==
  /\ Piece(f, h, t, b) /\ i \in 0..Len(t)
  /\ from = NameFrom(t, i) /\ to = NameTo(t, from) /\ NameAt(t, from) # <<>>

LEMMA NamedFacts ==
  ASSUME NEW f, NEW h, NEW t, NEW b, NEW i, NEW from, NEW to, Named(f, h, t, b, i, from, to)
  PROVE  /\ h \in CharSeq /\ t \in CharSeq /\ Len(h) \in Nat /\ Len(t) \in Nat /\ b \in Nat
         /\ b + Len(t) <= Len(h)
         /\ i \in 0..Len(t) /\ from \in i..(to - 1) /\ to \in (i + 1)..Len(t)
         /\ NameFrom(h, b + i) = b + from /\ NameTo(h, b + from) = b + to
         /\ NameAt(h, b + from) = NameAt(t, from)
         /\ NextAt(t, to) \in to..Len(t)
         /\ NameAt(t, from) \in CharSeq
<1>1. /\ h \in CharSeq /\ t \in CharSeq /\ Len(h) \in Nat /\ Len(t) \in Nat /\ b \in Nat
      /\ b + Len(t) <= Len(h) /\ i \in 0..Len(t)
  <2>1. Piece(f, h, t, b) /\ i \in 0..Len(t)
    BY DEF Named
  <2> QED BY <2>1, PieceTypes
<1>2. /\ from \in i..(to - 1) /\ to \in (i + 1)..Len(t)
      /\ NameFrom(h, b + i) = b + from /\ NameTo(h, b + from) = b + to
      /\ NameAt(h, b + from) = NameAt(t, from)
      /\ NextAt(t, to) \in to..Len(t)
  BY PieceName DEF Named
<1>3. NameAt(t, from) \in CharSeq
  <2>1. from = NameFrom(t, i)
    BY DEF Named
  <2>2. i \in Nat
    BY <1>1
  <2>3. NameAt(t, NameFrom(t, i)) \in CharSeq
    BY <1>1, <2>2, NameBounds
  <2> QED BY <2>1, <2>3
<1> QED BY <1>1, <1>2, <1>3

LEMMA NamedNext ==
  ASSUME NEW f, NEW h, NEW t, NEW b, NEW i, NEW from, NEW to, Named(f, h, t, b, i, from, to)
  PROVE  Same(f, h, b + to, b + NextAt(t, to))
<1>1. /\ h \in CharSeq /\ t \in CharSeq /\ Len(h) \in Nat /\ Len(t) \in Nat /\ b \in Nat
      /\ b + Len(t) <= Len(h) /\ i \in 0..Len(t) /\ to \in (i + 1)..Len(t)
  BY NamedFacts
<1>2. CASE to < Len(t)
  <2>1. t[to + 1] \in T!Blanks
    BY <1>2, PieceName DEF Named
  <2>2. to \in 0..(Len(t) - 1) /\ Piece(f, h, t, b)
    BY <1>1, <1>2 DEF Named
  <2>3. h[b + to + 1] \in T!Blanks
    BY <2>1, <2>2, PieceAt
  <2>4. PICK p \in 0..(Len(h) + 2) : p = b + to
    BY <1>1
  <2>5. PICK q \in 0..(Len(h) + 2) : q = b + NextAt(t, to) /\ q = p + 1
    BY <1>1, <1>2, <2>4 DEF NextAt
  <2>6. \A k \in p..(q - 1) : k < Len(h) => h[k + 1] \in T!Blanks
    <3>1. \A k \in p..(q - 1) : k = p
      BY <2>5
    <3> QED BY <2>3, <2>4, <3>1
  <2>7. Same(f, h, p, q)
    BY <1>1, <2>5, <2>6, SameMeaning
  <2> QED BY <2>4, <2>5, <2>7
<1>3. CASE to = Len(t)
  BY <1>1, <1>3 DEF NextAt, Same
<1> QED BY <1>1, <1>2, <1>3

(* What is meant, and waited for by a word that takes a name, from i on.   *)
Means(f, h, i) == Meaning(f, h)[i]

Waits(f, h, i) == WaitFrom(h, Meaning(f, h), NameFrom(h, i))

LEMMA SameMeans ==
  ASSUME NEW f, NEW h, NEW i, NEW j, Same(f, h, i, j)
  PROVE  Means(f, h, i) = Means(f, h, j) /\ Waits(f, h, i) = Waits(f, h, j)
BY DEF Same, Means, Waits

LEMMA MeansTyped ==
  ASSUME NEW f, NEW h \in CharSeq, NEW i \in 0..(Len(h) + 2) PROVE Means(f, h, i) \in NameWords
BY MeaningTyped DEF Means

LEMMA PairOf ==
  ASSUME NEW name \in CharSeq, NEW second \in CharSeq, NEW rest \in NameWords
  PROVE  /\ <<name>> \in NameWords /\ <<name, second>> \in NameWords
         /\ <<name>> \o <<>> = <<name>>
         /\ <<name>> \o (<<second>> \o rest) = <<name, second>> \o rest
<1>1. <<name>> \in NameWords /\ <<second>> \in NameWords /\ <<name, second>> \in NameWords
  BY DEF NameWords
<1>2. <<name>> \o <<>> = <<name>>
  BY <1>1, ConcatEmptySeq DEF NameWords
<1>3. (<<name>> \o <<second>>) \o rest = <<name>> \o (<<second>> \o rest)
  BY <1>1, ConcatAssociative DEF NameWords
<1>4. <<name>> \o <<second>> = <<name, second>>
  <2> DEFINE one == <<name>>
             two == <<second>>
             both == <<name, second>>
  <2>1. one \in Seq(CharSeq) /\ two \in Seq(CharSeq) /\ both \in Seq(CharSeq) /\ Len(one) = 1
        /\ Len(two) = 1 /\ Len(both) = 2 /\ one[1] = name /\ two[1] = second
        /\ both[1] = name /\ both[2] = second
    BY <1>1
  <2> HIDE DEF one, two, both
  <2>2. /\ one \o two \in Seq(CharSeq)
        /\ Len(one \o two) = Len(one) + Len(two)
        /\ \A i \in 1..(Len(one) + Len(two)) :
             (one \o two)[i] = IF i <= Len(one) THEN one[i] ELSE two[i - Len(one)]
    BY <2>1, ConcatProperties
  <2>3. Len(one \o two) = 2 /\ (one \o two)[1] = name /\ (one \o two)[2] = second
    BY <2>1, <2>2
  <2> DEFINE concat == one \o two
  <2>4. concat \in Seq(CharSeq) /\ Len(concat) = Len(both)
        /\ \A i \in 1..Len(concat) : concat[i] = both[i]
    BY <2>1, <2>2, <2>3
  <2> HIDE DEF concat
  <2>5. concat = both
    BY <2>1, <2>4, SeqEqual
  <2> QED BY <2>5 DEF concat, one, two, both
<1> QED BY <1>1, <1>2, <1>3, <1>4

(* A name is what is waited for.                                           *)
LEMMA NamedWaits ==
  ASSUME NEW f, NEW h, NEW t, NEW b, NEW i, NEW from, NEW to, Named(f, h, t, b, i, from, to)
  PROVE  Waits(f, h, b + i) = <<NameAt(t, from)>> \o Means(f, h, b + NextAt(t, to))
<1>1. /\ h \in CharSeq /\ t \in CharSeq /\ Len(h) \in Nat /\ Len(t) \in Nat /\ b \in Nat
      /\ b + Len(t) <= Len(h) /\ i \in 0..Len(t) /\ from \in i..(to - 1) /\ to \in (i + 1)..Len(t)
      /\ NameFrom(h, b + i) = b + from /\ NameTo(h, b + from) = b + to
      /\ NameAt(h, b + from) = NameAt(t, from)
  BY NamedFacts
<1>2. Same(f, h, b + to, b + NextAt(t, to))
  BY NamedNext
<1>3. /\ Means(f, h, b + to) = Means(f, h, b + NextAt(t, to))
      /\ Waits(f, h, b + to) = Waits(f, h, b + NextAt(t, to))
  BY <1>2, SameMeans
<1>6. b + from # b + to
  BY <1>1
<1>7. Waits(f, h, b + i) = <<NameAt(t, from)>> \o Means(f, h, b + to)
  BY <1>1, <1>6 DEF WaitFrom, Waits, Means
<1> QED BY <1>3, <1>7

(* What is meant from i on, by the name.                                   *)
LEMMA NamedMeant ==
  ASSUME NEW f, NEW h, NEW t, NEW b, NEW i, NEW from, NEW to, Named(f, h, t, b, i, from, to)
  PROVE  Means(f, h, b + i) = MeantFrom(f, h, Meaning(f, h), b + from)
<1>1. /\ h \in CharSeq /\ Len(h) \in Nat /\ Len(t) \in Nat /\ b \in Nat
      /\ b + Len(t) <= Len(h) /\ i \in 0..Len(t) /\ NameFrom(h, b + i) = b + from
  BY NamedFacts
<1>2. b + i \in 0..(Len(h) + 2)
  BY <1>1
<1>3. PICK m : m = Meaning(f, h)
  OBVIOUS
<1>4. m[b + i] = MeantFrom(f, h, m, NameFrom(h, b + i))
  BY <1>1, <1>2, <1>3, MeaningGives
<1>5. NameFrom(h, b + i) = b + from
  BY <1>1
<1> QED BY <1>3, <1>4, <1>5 DEF Means

Parsing == {<<"\\">>, <<"(">>, <<"'">>, <<"s">>}

LEMMA MeansName ==
  ASSUME NEW f, NEW h, NEW t, NEW b, NEW i, NEW from, NEW to, Named(f, h, t, b, i, from, to),
         NameAt(t, from) \notin Parsing
  PROVE  Means(f, h, b + i) = <<NameAt(t, from)>> \o Means(f, h, b + NextAt(t, to))
<1>1. NameTo(h, b + from) = b + to /\ NameAt(h, b + from) = NameAt(t, from)
  BY NamedFacts
<1>2. Means(f, h, b + i) = MeantFrom(f, h, Meaning(f, h), b + from)
  BY NamedMeant
<1>5. Means(f, h, b + to) = Means(f, h, b + NextAt(t, to))
  BY NamedNext, SameMeans
<1>3. NameAt(t, from) # <<>>
  BY DEF Named
<1>4. MeantFrom(f, h, Meaning(f, h), b + from) = <<NameAt(t, from)>> \o Means(f, h, b + to)
  BY <1>1, <1>3 DEF MeantFrom, Parsing, Means
<1> QED BY <1>2, <1>4, <1>5

LEMMA MeansTick ==
  ASSUME NEW f, NEW h, NEW t, NEW b, NEW i, NEW from, NEW to, Named(f, h, t, b, i, from, to),
         NameAt(t, from) = <<"'">>
  PROVE  Means(f, h, b + i) = <<NameAt(t, from)>> \o Waits(f, h, b + NextAt(t, to))
<1>1. NameTo(h, b + from) = b + to /\ NameAt(h, b + from) = NameAt(t, from)
      /\ NameAt(t, from) \in CharSeq /\ h \in CharSeq
  BY NamedFacts
<1>2. Means(f, h, b + i) = MeantFrom(f, h, Meaning(f, h), b + from)
  BY NamedMeant
<1>12. Waits(f, h, b + to) = Waits(f, h, b + NextAt(t, to))
  BY NamedNext, SameMeans
<1>3. PICK name \in CharSeq : name = NameAt(t, from) /\ name = <<"'">>
  BY <1>1
<1>4. PICK q \in Nat : q = b + to
  <2>1. b \in Nat /\ i \in 0..Len(t) /\ to \in (i + 1)..Len(t) /\ Len(t) \in Nat
    BY NamedFacts
  <2> QED BY <2>1
<1>5. PICK p \in 0..Len(h) : p = NameFrom(h, q) /\ NameTo(h, p) \in p..Len(h)
  BY <1>1, <1>4, NameBounds
<1>6. PICK second \in CharSeq : second = NameAt(h, p)
  BY <1>1, <1>4, <1>5, NameBounds
<1>7. PICK rest \in NameWords : rest = Means(f, h, NameTo(h, p))
  <2>1. NameTo(h, p) \in 0..(Len(h) + 2)
    <3>1. Len(h) \in Nat
      BY <1>1, LenProperties DEF CharSeq
    <3> QED BY <1>5, <3>1
  <2> QED BY <1>1, <2>1, MeansTyped
<1>8. MeantFrom(f, h, Meaning(f, h), b + from)
        = IF p = NameTo(h, p) THEN <<name>> ELSE <<name, second>> \o rest
  <2>1. NameAt(h, b + from) = <<"'">> /\ NameFrom(h, NameTo(h, b + from)) = p
    BY <1>1, <1>3, <1>4, <1>5
  <2>2. rest = Meaning(f, h)[NameTo(h, p)]
    BY <1>7 DEF Means
  <2>6. name # <<>> /\ name # <<"\\">> /\ name # <<"(">> /\ name # <<"s">>
    <3>1. name = <<"'">>
      BY <1>3
    <3> QED BY <3>1
  <2>7. name = NameAt(h, b + from)
    BY <1>1, <1>3
  <2>5. /\ NameAt(h, b + from) # <<>> /\ NameAt(h, b + from) # <<"\\">>
        /\ NameAt(h, b + from) # <<"(">> /\ NameAt(h, b + from) # <<"s">>
    BY <2>6, <2>7, Zenon
  <2>3. CASE p = NameTo(h, p)
    <3>1. MeantFrom(f, h, Meaning(f, h), b + from) = <<NameAt(h, b + from)>>
      BY <2>1, <2>3, <2>5 DEF MeantFrom
    <3> QED BY <1>1, <1>3, <2>3, <3>1
  <2>4. CASE p # NameTo(h, p)
    <3>1. MeantFrom(f, h, Meaning(f, h), b + from)
            = <<NameAt(h, b + from), NameAt(h, p)>> \o Meaning(f, h)[NameTo(h, p)]
      BY <2>1, <2>4, <2>5 DEF MeantFrom
    <3> QED BY <1>1, <1>3, <1>6, <2>2, <2>4, <3>1
  <2> QED BY <2>3, <2>4
<1>9. Waits(f, h, q) = IF p = NameTo(h, p) THEN <<>> ELSE <<second>> \o rest
  BY <1>5, <1>6, <1>7 DEF WaitFrom, Waits, Means
<1>10. <<name>> \o <<>> = <<name>> /\ <<name>> \o (<<second>> \o rest) = <<name, second>> \o rest
  BY PairOf
<1>11. MeantFrom(f, h, Meaning(f, h), b + from) = <<name>> \o Waits(f, h, q)
  BY <1>8, <1>9, <1>10
<1> QED BY <1>2, <1>3, <1>4, <1>11, <1>12

TookEolAt(t, n) ==
  /\ n > 0 /\ n < Len(t)
  /\ t[n] \in T!Eols /\ t[n + 1] \notin T!Eols

OverEolAt(t, stop) ==
  IF stop = Len(t) THEN stop
  ELSE IF stop + 1 < Len(t) /\ {t[stop + 1], t[stop + 2]} = T!Eols THEN stop + 2
  ELSE stop + 1

ParseAt(t, i, S) ==
  [text |-> SubSeq(t, i + 1, T!Upto(t, i, S)),
   next |-> IF T!Upto(t, i, S) < Len(t) /\ t[T!Upto(t, i, S) + 1] = ")"
            THEN T!Upto(t, i, S) + 1 ELSE T!Upto(t, i, S)]

(* Blanks of a piece, and its end, do not matter. *)
LEMMA PieceSame ==
  ASSUME NEW f, NEW h, NEW t, NEW b, Piece(f, h, t, b), NEW i \in 0..Len(t), NEW j \in i..Len(t),
         \A k \in i..(j - 1) : t[k + 1] \in T!Blanks
  PROVE  Means(f, h, b + i) = Means(f, h, b + j)
<1>1. /\ h \in CharSeq /\ Len(h) \in Nat /\ Len(t) \in Nat /\ b \in Nat /\ b + Len(t) <= Len(h)
  BY PieceTypes
<1>2. PICK p \in 0..(Len(h) + 2) : p = b + i
  BY <1>1
<1>3. PICK q \in 0..(Len(h) + 2) : q = b + j /\ p <= q
  BY <1>1, <1>2
<1>4. ASSUME NEW k \in p..(q - 1) PROVE h[k + 1] \in T!Blanks
  <2>1. PICK l \in 0..(Len(t) - 1) : l = k - b /\ b + l + 1 = k + 1 /\ l \in i..(j - 1)
    BY <1>1, <1>2, <1>3
  <2>2. h[b + l + 1] = t[l + 1]
    BY PieceAt
  <2>3. t[l + 1] \in T!Blanks
    BY <2>1
  <2> QED BY <2>1, <2>2, <2>3
<1>5. Same(f, h, p, q)
  BY <1>1, <1>3, <1>4, SameMeaning
<1>6. Means(f, h, p) = Means(f, h, q)
  BY <1>5, SameMeans
<1> QED BY <1>2, <1>3, <1>6

LEMMA PieceEnd ==
  ASSUME NEW f, NEW h, NEW t, NEW b, Piece(f, h, t, b), f # "main"
  PROVE  Means(f, h, b + Len(t)) = Means(f, h, b + Len(t) + 1)
<1>1. /\ h \in CharSeq /\ Len(h) \in Nat /\ Len(t) \in Nat /\ b \in Nat /\ b + Len(t) <= Len(h)
  BY PieceTypes
<1>2. /\ f = "include" => b + Len(t) = Len(h)
      /\ f = "load" => h[b + Len(t) + 1] = "n"
      /\ f \in {"load", "include"}
  BY DEF Piece
<1>3. PICK p \in 0..(Len(h) + 2) : p = b + Len(t)
  BY <1>1
<1>4. PICK q \in 0..(Len(h) + 2) : q = b + Len(t) + 1 /\ q = p + 1
  BY <1>1, <1>3
<1>5. "n" \in T!Blanks
  BY DEF T!Blanks, T!Eols
<1>6. p < Len(h) => h[p + 1] \in T!Blanks
  BY <1>2, <1>3, <1>5
<1>7. \A k \in p..(q - 1) : k < Len(h) => h[k + 1] \in T!Blanks
  <2>1. \A k \in p..(q - 1) : k = p
    BY <1>4
  <2> QED BY <1>6, <2>1
<1>8. Same(f, h, p, q)
  BY <1>1, <1>4, <1>7, SameMeaning
<1>9. Means(f, h, p) = Means(f, h, q)
  BY <1>8, SameMeans
<1> QED BY <1>3, <1>4, <1>9

(* The end of the line is where it is in the text.                         *)
LEMMA PieceEol ==
  ASSUME NEW f, NEW h, NEW t, NEW b, Piece(f, h, t, b), NEW i \in 0..Len(t), NEW S, "n" \in S,
         f = "main" => i < Len(t)
  PROVE  /\ T!Upto(h, b + i, S) = b + T!Upto(t, i, S)
         /\ T!Upto(t, i, S) \in i..Len(t) /\ StopsAt(t, i, S, T!Upto(t, i, S))
         /\ f = "main" => T!Upto(t, i, S) < Len(t)
<1>1. /\ t \in CharSeq /\ Len(h) \in Nat /\ Len(t) \in Nat /\ b \in Nat /\ b + Len(t) <= Len(h)
  BY PieceTypes
<1>2. /\ f \in {"load", "include", "main"}
      /\ f = "include" => b + Len(t) = Len(h)
      /\ f = "load" => b + Len(t) < Len(h) /\ h[b + Len(t) + 1] = "n"
      /\ f = "main" => t[Len(t)] = "n"
  BY DEF Piece
<1>3. PICK u \in i..Len(t) : u = T!Upto(t, i, S) /\ StopsAt(t, i, S, u)
  BY <1>1, UptoStops DEF CharSeq
<1>4. ASSUME f = "main" PROVE u < Len(t)
  <2> SUFFICES ASSUME u = Len(t) PROVE FALSE
    BY <1>1, <1>3
  <2>1. PICK k \in i..(u - 1) : k + 1 = Len(t)
    BY <1>1, <1>3, <1>4
  <2>2. t[k + 1] \notin S
    BY <1>3 DEF StopsAt
  <2> QED BY <1>2, <1>4, <2>1, <2>2
<1>5. \/ u < Len(t) \/ b + Len(t) = Len(h)
      \/ b + Len(t) < Len(h) /\ h[b + Len(t) + 1] \in S
  BY <1>2, <1>4
<1>6. T!Upto(h, b + i, S) = b + u
  BY <1>3, <1>5, PieceUpto
<1> QED BY <1>3, <1>4, <1>6

LEMMA OverEolBounds ==
  ASSUME NEW t \in CharSeq, NEW stop \in 0..Len(t), stop < Len(t) => t[stop + 1] \in T!Eols
  PROVE  /\ OverEolAt(t, stop) \in stop..Len(t)
         /\ stop < Len(t) => OverEolAt(t, stop) >= stop + 1
         /\ \A k \in stop..(OverEolAt(t, stop) - 1) : t[k + 1] \in T!Blanks
<1>1. Len(t) \in Nat
  BY LenProperties DEF CharSeq
<1>2. CASE stop = Len(t)
  <2>1. OverEolAt(t, stop) = stop
    BY <1>2 DEF OverEolAt
  <2> QED BY <1>1, <1>2, <2>1
<1>3. CASE stop # Len(t) /\ stop + 1 < Len(t) /\ {t[stop + 1], t[stop + 2]} = T!Eols
  <2>1. OverEolAt(t, stop) = stop + 2
    BY <1>3, Zenon DEF OverEolAt
  <2>2. t[stop + 1] \in T!Blanks /\ t[stop + 2] \in T!Blanks
    BY <1>3 DEF T!Blanks
  <2>3. ASSUME NEW k \in stop..(stop + 2 - 1) PROVE k = stop \/ (k = stop + 1 /\ k + 1 = stop + 2)
    OBVIOUS
  <2>4. \A k \in stop..(stop + 2 - 1) : t[k + 1] \in T!Blanks
    BY <2>2, <2>3
  <2> QED BY <1>1, <1>3, <2>1, <2>4
<1>4. CASE stop # Len(t) /\ ~ (stop + 1 < Len(t) /\ {t[stop + 1], t[stop + 2]} = T!Eols)
  <2>1. OverEolAt(t, stop) = stop + 1
    BY <1>4, Zenon DEF OverEolAt
  <2>2. \A k \in stop..(stop + 1 - 1) : k = stop
    OBVIOUS
  <2>4. stop < Len(t)
    BY <1>1, <1>4
  <2>3. t[stop + 1] \in T!Blanks
    BY <2>4 DEF T!Blanks
  <2> QED BY <1>1, <2>1, <2>2, <2>3, <2>4
<1> QED BY <1>2, <1>3, <1>4

(* \ ends with its line, unless it took the end of it for its blank.       *)
LEMMA MeansBackslash ==
  ASSUME NEW f, NEW h, NEW t, NEW b, NEW i, NEW from, NEW to, Named(f, h, t, b, i, from, to),
         NameAt(t, from) = <<"\\">>, NEW n, n = NextAt(t, to), ~ TookEolAt(t, n)
  PROVE  /\ Means(f, h, b + i) = Means(f, h, b + OverEolAt(t, T!Upto(t, n, T!Eols)))
         /\ OverEolAt(t, T!Upto(t, n, T!Eols)) \in 0..Len(t)
<1>1. /\ h \in CharSeq /\ t \in CharSeq /\ Len(h) \in Nat /\ Len(t) \in Nat /\ b \in Nat
      /\ b + Len(t) <= Len(h) /\ i \in 0..Len(t) /\ to \in (i + 1)..Len(t) /\ n \in to..Len(t)
  BY NamedFacts
<1>2. NameTo(h, b + from) = b + to /\ NameAt(h, b + from) = NameAt(t, from)
  BY NamedFacts
<1>3. Piece(f, h, t, b)
  BY DEF Named
<1>4. /\ to < Len(t) => t[to + 1] \in T!Blanks
      /\ to = Len(t) => f # "main"
  BY PieceName DEF Named
<1>5. Means(f, h, b + i) = Means(f, h, T!Upto(h, b + to, T!Eols) + 1)
  <2>1. Means(f, h, b + i) = MeantFrom(f, h, Meaning(f, h), b + from)
    BY NamedMeant
  <2>2. NameAt(h, b + from) = <<"\\">>
    BY <1>2
  <2>3. NameAt(h, b + from) # <<>>
    <3>1. <<"\\">> # <<>>
      OBVIOUS
    <3> QED BY <2>2, <3>1, Zenon
  <2>4. MeantFrom(f, h, Meaning(f, h), b + from) = Meaning(f, h)[T!Upto(h, b + to, T!Eols) + 1]
    BY <1>2, <2>2, <2>3, Zenon DEF MeantFrom
  <2> QED BY <2>1, <2>4 DEF Means
<1>6. "n" \in T!Eols
  BY DEF T!Eols
<1>7. PICK u \in to..Len(t) : /\ u = T!Upto(t, to, T!Eols) /\ StopsAt(t, to, T!Eols, u)
                              /\ T!Upto(h, b + to, T!Eols) = b + u
                              /\ f = "main" => u < Len(t)
  <2>1. to \in 0..Len(t) /\ (f = "main" => to < Len(t))
    BY <1>1, <1>4
  <2> QED BY <1>3, <1>6, <2>1, PieceEol
<1>8. PICK stop \in n..Len(t) : stop = T!Upto(t, n, T!Eols) /\ StopsAt(t, n, T!Eols, stop)
  <2>1. n \in 0..Len(t)
    BY <1>1
  <2> QED BY <1>1, <2>1, UptoStops DEF CharSeq
<1>9. PICK over \in stop..Len(t) :
        /\ over = OverEolAt(t, stop) /\ (stop < Len(t) => over >= stop + 1)
        /\ \A k \in stop..(over - 1) : t[k + 1] \in T!Blanks
  <2>1. stop \in 0..Len(t)
    BY <1>1
  <2>2. stop < Len(t) => t[stop + 1] \in T!Eols
    BY <1>8 DEF StopsAt
  <2> QED BY <1>1, <2>1, <2>2, OverEolBounds
<1>10. Means(f, h, b + u + 1) = Means(f, h, b + over)
  <2>1. ASSUME u = stop PROVE Means(f, h, b + u + 1) = Means(f, h, b + over)
    <3>1. CASE stop = Len(t)
      <4>1. over = Len(t) /\ u = Len(t)
        BY <1>1, <1>9, <2>1, <3>1
      <4>2. f # "main"
        BY <1>1, <1>7, <4>1
      <4> QED BY <1>3, <4>1, <4>2, PieceEnd
    <3>2. CASE stop < Len(t)
      <4>1. PICK begin \in 0..Len(t) : begin = stop + 1 /\ b + begin = b + u + 1
        BY <1>1, <2>1, <3>2
      <4>2. over \in begin..Len(t)
        BY <1>1, <1>9, <3>2, <4>1
      <4>3. \A k \in begin..(over - 1) : t[k + 1] \in T!Blanks
        BY <1>1, <1>9, <4>1
      <4>4. Means(f, h, b + begin) = Means(f, h, b + over)
        BY <1>3, <4>2, <4>3, PieceSame
      <4> QED BY <4>1, <4>4
    <3> QED BY <1>1, <3>1, <3>2
  <2>2. CASE to = Len(t)
    <3>1. n = Len(t) /\ u = Len(t) /\ stop = Len(t)
      BY <1>1, <2>2
    <3> QED BY <2>1, <3>1
  <2>3. CASE to < Len(t) /\ t[to + 1] \notin T!Eols
    <3>1. n = to + 1
      BY <2>3 DEF NextAt
    <3>2. u # to
      BY <1>1, <1>7, <2>3 DEF StopsAt
    <3>3. StopsAt(t, n, T!Eols, u)
      BY <1>1, <1>7, <3>1, <3>2 DEF StopsAt
    <3>4. u = stop
      <4>1. n \in 0..Len(t)
        BY <1>1
      <4> QED BY <1>1, <1>8, <3>3, <4>1, UptoIs DEF CharSeq
    <3> QED BY <2>1, <3>4
  <2>4. CASE to < Len(t) /\ t[to + 1] \in T!Eols
    <3>1. n = to + 1 /\ n > 0
      BY <1>1, <2>4 DEF NextAt
    <3>2. u = to
      <4>1. ~ to <= u - 1
        <5> SUFFICES ASSUME to <= u - 1 PROVE FALSE
          OBVIOUS
        <5>1. to \in to..(u - 1)
          BY <1>1
        <5> QED BY <1>7, <2>4, <5>1 DEF StopsAt
      <4> QED BY <1>1, <4>1
    <3>3. stop = n
      <4>1. CASE n = Len(t)
        BY <1>1, <4>1
      <4>2. CASE n < Len(t)
        <5>1. t[n] \in T!Eols
          BY <2>4, <3>1
        <5>2. t[n + 1] \in T!Eols
          BY <3>1, <4>2, <5>1 DEF TookEolAt
        <5>3. ~ n <= stop - 1
          <6> SUFFICES ASSUME n <= stop - 1 PROVE FALSE
            OBVIOUS
          <6>1. n \in n..(stop - 1)
            BY <1>1
          <6> QED BY <1>8, <5>2, <6>1 DEF StopsAt
        <5> QED BY <1>1, <5>3
      <4> QED BY <1>1, <4>1, <4>2
    <3>4. n \in 0..Len(t) /\ over \in n..Len(t)
      BY <1>1, <1>9, <3>3
    <3>5. \A k \in n..(over - 1) : t[k + 1] \in T!Blanks
      BY <1>9, <3>3
    <3>6. Means(f, h, b + n) = Means(f, h, b + over)
      BY <1>3, <3>4, <3>5, PieceSame
    <3>7. b + u + 1 = b + n
      BY <1>1, <3>1, <3>2
    <3> QED BY <3>6, <3>7
  <2> QED BY <1>1, <2>2, <2>3, <2>4
<1>11. over \in 0..Len(t)
  BY <1>1, <1>9
<1> QED BY <1>5, <1>7, <1>8, <1>9, <1>10, <1>11

(* What is read up to a limit, and where it is gone on. *)
LEMMA LimitNextIs ==
  ASSUME NEW h, NEW i, NEW S, NEW u, LimitTo(h, i, S) = u
  PROVE  LimitAt(h, i, S).next = IF u < Len(h) /\ h[u + 1] = ")" THEN u + 1 ELSE u
BY DEF LimitAt

LEMMA LimitTextIs ==
  ASSUME NEW h, NEW i, NEW S, NEW u, LimitTo(h, i, S) = u
  PROVE  LimitAt(h, i, S).text = Part(h, LimitFrom(h, i, S), u)
BY DEF LimitAt, Part

LEMMA ParseNextIs ==
  ASSUME NEW t, NEW i, NEW S, NEW u, T!Upto(t, i, S) = u
  PROVE  ParseAt(t, i, S).next = IF u < Len(t) /\ t[u + 1] = ")" THEN u + 1 ELSE u
BY DEF ParseAt

LEMMA ParseTextIs ==
  ASSUME NEW t, NEW i, NEW S, NEW u, T!Upto(t, i, S) = u
  PROVE  ParseAt(t, i, S).text = Part(t, i, u)
BY DEF ParseAt, Part

LEMMA ParseBounds ==
  ASSUME NEW t \in CharSeq, NEW i \in 0..Len(t), NEW S
  PROVE  ParseAt(t, i, S).next \in i..Len(t) /\ ParseAt(t, i, S).text \in CharSeq
<1>1. Len(t) \in Nat
  BY LenProperties DEF CharSeq
<1>2. PICK u \in i..Len(t) : u = T!Upto(t, i, S)
  BY UptoStops DEF CharSeq
<1>3. ParseAt(t, i, S).next = (IF u < Len(t) /\ t[u + 1] = ")" THEN u + 1 ELSE u)
      /\ ParseAt(t, i, S).text = SubSeq(t, i + 1, u)
  BY <1>2 DEF ParseAt
<1>4. i \in Nat /\ u \in 0..Len(t)
  BY <1>1
<1>5. SubSeq(t, i + 1, u) \in CharSeq
  BY <1>4, PartOfText
<1> QED BY <1>1, <1>3, <1>5

(* Two indexes with nothing between them. *)
LEMMA EmptyPart == ASSUME NEW w, NEW i \in Nat, NEW j \in Nat, j <= i PROVE Part(w, i, j) = <<>>
<1>1. PICK m \in Int : m = i + 1 /\ j < m
  OBVIOUS
<1>2. SubSeq(w, m, j) = <<>>
  BY <1>1, SubSeqEmpty
<1> QED BY <1>1, <1>2 DEF Part

(* ( ends with its bracket, or with the line where lines are texts.        *)
LEMMA MeansParenthesis ==
  ASSUME NEW f, NEW h, NEW t, NEW b, NEW i, NEW from, NEW to, Named(f, h, t, b, i, from, to),
         NameAt(t, from) = <<"(">>, NEW n, n = NextAt(t, to)
  PROVE  Means(f, h, b + i) = Means(f, h, b + ParseAt(t, n, {")"}).next)
<1>1. /\ h \in CharSeq /\ t \in CharSeq /\ Len(h) \in Nat /\ Len(t) \in Nat /\ b \in Nat
      /\ b + Len(t) <= Len(h) /\ i \in 0..Len(t) /\ to \in (i + 1)..Len(t) /\ n \in to..Len(t)
  BY NamedFacts
<1>2. NameTo(h, b + from) = b + to /\ NameAt(h, b + from) = NameAt(t, from)
  BY NamedFacts
<1>3. Piece(f, h, t, b)
  BY DEF Named
<1>4. /\ to < Len(t) => t[to + 1] \in T!Blanks
      /\ to = Len(t) => f # "main"
  BY PieceName DEF Named
<1> DEFINE S == CommentEnds(f)
           lim == LimitAt(h, b + to, S).next
           next == ParseAt(t, n, {")"}).next
<1>5. Means(f, h, b + i) = Means(f, h, lim)
  <2>1. Means(f, h, b + i) = MeantFrom(f, h, Meaning(f, h), b + from)
    BY NamedMeant
  <2>2. NameAt(h, b + from) = <<"(">>
    BY <1>2
  <2>3. NameAt(h, b + from) # <<>> /\ NameAt(h, b + from) # <<"\\">>
    <3>1. <<"(">> # <<>> /\ <<"(">> # <<"\\">>
      OBVIOUS
    <3> QED BY <2>2, <3>1, Zenon
  <2>4. MeantFrom(f, h, Meaning(f, h), b + from) = Meaning(f, h)[lim]
    BY <1>2, <2>2, <2>3, Zenon DEF MeantFrom
  <2> QED BY <2>1, <2>4 DEF Means
<1>6. PICK q \in Nat : q = b + to /\ q <= Len(h)
  BY <1>1
<1>7. to < Len(t) => h[q + 1] = t[to + 1] /\ h[q + 1] # ")" /\ q + 1 = b + n /\ n = to + 1
  <2> SUFFICES ASSUME to < Len(t)
               PROVE  h[q + 1] = t[to + 1] /\ h[q + 1] # ")" /\ q + 1 = b + n /\ n = to + 1
    OBVIOUS
  <2>1. to \in 0..(Len(t) - 1)
    BY <1>1
  <2>2. h[b + to + 1] = t[to + 1]
    BY <1>3, <2>1, PieceAt
  <2>3. t[to + 1] # ")"
    BY <1>4 DEF T!Blanks, T!Eols
  <2>4. n = to + 1
    BY DEF NextAt
  <2> QED BY <1>1, <1>6, <2>2, <2>3, <2>4
<1>8. to = Len(t) => n = Len(t)
  BY DEF NextAt
<1>9. PICK stop \in n..Len(t) : stop = T!Upto(t, n, {")"}) /\ StopsAt(t, n, {")"}, stop)
  <2>1. n \in 0..Len(t)
    BY <1>1
  <2> QED BY <1>1, <2>1, UptoStops DEF CharSeq
<1>10. next = IF stop < Len(t) /\ t[stop + 1] = ")" THEN stop + 1 ELSE stop
  BY <1>9, ParseNextIs
<1>11. stop < Len(t) => t[stop + 1] = ")"
  BY <1>9 DEF StopsAt
<1>12. n \in 0..Len(t) /\ n \in Nat
  BY <1>1
<1> SUFFICES Means(f, h, b + i) = Means(f, h, b + next)
  OBVIOUS
<1> HIDE DEF lim, next
<1>13. CASE f = "include"
  <2>1. b + Len(t) = Len(h) /\ S = {")"}
    BY <1>3, <1>13 DEF Piece, CommentEnds
  <2>2. LimitFrom(h, b + to, S) = q + 1
    BY <1>1, <1>6, <1>7, <2>1 DEF LimitFrom
  <2>3. CASE to < Len(t)
    <3>1. T!Upto(h, b + n, {")"}) = b + stop
      BY <1>3, <1>9, <1>12, <2>1, PieceUpto
    <3>2. LimitTo(h, b + to, S) = b + stop
      BY <1>7, <2>1, <2>2, <2>3, <3>1 DEF LimitTo
    <3>3. lim = IF b + stop < Len(h) /\ h[b + stop + 1] = ")" THEN b + stop + 1 ELSE b + stop
      BY <3>2, LimitNextIs DEF lim
    <3>4. stop < Len(t) => h[b + stop + 1] = t[stop + 1]
      <4>1. stop < Len(t) => stop \in 0..(Len(t) - 1)
        BY <1>1, <1>9
      <4> QED BY <1>3, <4>1, PieceAt
    <3>5. lim = b + next
      BY <1>1, <1>9, <1>10, <1>11, <2>1, <3>3, <3>4, SMTT(30)
    <3> QED BY <1>5, <3>5
  <2>4. CASE to = Len(t)
    <3>1. q = Len(h) /\ stop = Len(t)
      BY <1>1, <1>6, <1>8, <1>9, <2>1, <2>4
    <3>2. T!Upto(h, q + 1, S) = Len(h)
      <4>1. q + 1 \in Nat /\ q + 1 >= Len(h)
        BY <1>1, <3>1
      <4> QED BY <1>1, <4>1, UptoBeyond DEF CharSeq
    <3>3. LimitTo(h, b + to, S) = Len(h)
      BY <2>2, <3>2 DEF LimitTo
    <3>4. lim = Len(h)
      BY <1>1, <3>3, LimitNextIs DEF lim
    <3>5. next = Len(t)
      BY <1>1, <1>10, <3>1
    <3> QED BY <1>5, <2>1, <3>4, <3>5
  <2> QED BY <1>1, <2>3, <2>4
<1>14. CASE f # "include"
  <2>1. S = {")", "n"}
    BY <1>14 DEF CommentEnds
  <2>2. /\ \A j \in 1..(Len(t) - 1) : t[j] # "n"
        /\ f = "load" => \A j \in 1..Len(t) : t[j] # "n"
        /\ f = "load" => q < Len(h) /\ (to = Len(t) => h[q + 1] = "n")
        /\ f \in {"load", "main"}
        /\ f = "main" => Len(t) > 0 /\ t[Len(t)] = "n"
    BY <1>1, <1>3, <1>6, <1>14 DEF Piece
  <2>3. CASE (to < Len(t) => t[to + 1] = "n")
    <3>1. q < Len(h) /\ h[q + 1] = "n"
      BY <1>1, <1>4, <1>6, <1>7, <2>2, <2>3
    <3>2. n = Len(t)
      <4>1. CASE to = Len(t)
        BY <1>8, <4>1
      <4>2. CASE to < Len(t)
        <5>1. PICK j \in 1..Len(t) : j = to + 1 /\ t[j] = "n"
          BY <1>1, <2>3, <4>2
        <5>2. j = Len(t)
          BY <1>1, <2>2, <5>1
        <5> QED BY <1>7, <4>2, <5>1, <5>2
      <4> QED BY <1>1, <4>1, <4>2
    <3>3. next = n
      BY <1>1, <1>9, <1>10, <3>2
    <3>4. LimitFrom(h, q, S) = q
      BY <2>1, <3>1 DEF LimitFrom
    <3>5. StopsAt(h, q, S, q)
      BY <1>1, <1>6, <2>1, <3>1 DEF StopsAt
    <3>6. q \in 0..Len(h)
      BY <1>1, <1>6
    <3>7. LimitTo(h, q, S) = q
      BY <1>1, <3>4, <3>5, <3>6, UptoIs DEF LimitTo, CharSeq
    <3>8. lim = q
      <4>1. lim = IF q < Len(h) /\ h[q + 1] = ")" THEN q + 1 ELSE q
        BY <1>6, <3>7, LimitNextIs DEF lim
      <4> QED BY <3>1, <4>1
    <3>9. Means(f, h, b + to) = Means(f, h, b + n)
      BY NamedNext, SameMeans
    <3> QED BY <1>5, <1>6, <3>3, <3>8, <3>9
  <2>4. CASE to < Len(t) /\ t[to + 1] # "n"
    <3>1. LimitFrom(h, b + to, S) = b + n
      BY <1>1, <1>6, <1>7, <2>1, <2>4 DEF LimitFrom
    <3>2. f = "main" => n < Len(t)
      BY <1>1, <1>7, <2>2, <2>4
    <3>3. PICK u \in n..Len(t) : /\ u = T!Upto(t, n, S) /\ StopsAt(t, n, S, u)
                                 /\ T!Upto(h, b + n, S) = b + u
                                 /\ f = "main" => u < Len(t)
      <4>1. "n" \in S
        BY <2>1
      <4> QED BY <1>3, <1>12, <3>2, <4>1, PieceEol
    <3>4. lim = IF b + u < Len(h) /\ h[b + u + 1] = ")" THEN b + u + 1 ELSE b + u
      <4>1. LimitTo(h, b + to, S) = b + u
        BY <3>1, <3>3 DEF LimitTo
      <4> QED BY <4>1, LimitNextIs DEF lim
    <3>5. u < Len(t) => h[b + u + 1] = t[u + 1] /\ (t[u + 1] = ")" \/ t[u + 1] = "n")
      <4>1. u < Len(t) => u \in 0..(Len(t) - 1)
        BY <1>1, <3>3, SMTT(30)
      <4>2. u < Len(t) => t[u + 1] \in S
        BY <3>3 DEF StopsAt
      <4> QED BY <1>3, <2>1, <4>1, <4>2, PieceAt
    <3>6. ASSUME NEW k \in n..(u - 1) PROVE t[k + 1] # ")"
      <4>1. t[k + 1] \notin S
        BY <3>3 DEF StopsAt
      <4> QED BY <2>1, <4>1
    <3>7. CASE u < Len(t) /\ t[u + 1] = ")"
      <4>1. StopsAt(t, n, {")"}, u)
        BY <3>3, <3>6, <3>7 DEF StopsAt
      <4>2. stop = u
        BY <1>1, <1>9, <1>12, <4>1, UptoIs DEF CharSeq
      <4>3. lim = b + next
        BY <1>1, <1>10, <3>3, <3>4, <3>5, <3>7, <4>2, SMTT(60)
      <4> QED BY <1>5, <4>3
    <3>8. CASE u < Len(t) /\ t[u + 1] = "n"
      <4>1. u + 1 = Len(t)
        <5>1. PICK j \in 1..Len(t) : j = u + 1 /\ t[j] = "n"
          BY <1>1, <3>3, <3>8, SMTT(30)
        <5> QED BY <1>1, <2>2, <5>1
      <4>2. stop = Len(t)
        <5>1. ASSUME NEW k \in n..(Len(t) - 1) PROVE t[k + 1] \notin {")"}
          <6>1. CASE k = u
            BY <3>8, <6>1
          <6>2. CASE k # u
            <7>1. k \in n..(u - 1)
              BY <1>1, <4>1, <6>2
            <7> QED BY <3>6, <7>1
          <6> QED BY <6>1, <6>2
        <5>2. StopsAt(t, n, {")"}, Len(t))
          BY <1>1, <5>1 DEF StopsAt
        <5> QED BY <1>1, <1>9, <1>12, <5>2, UptoIs DEF CharSeq
      <4>3. next = Len(t)
        BY <1>1, <1>10, <4>2
      <4>4. lim = b + u
        BY <3>4, <3>5, <3>8
      <4>5. u \in 0..Len(t) /\ Len(t) \in u..Len(t) /\ \A k \in u..(Len(t) - 1) : k = u
        BY <1>1, <3>3, <4>1, SMTT(30)
      <4>6. t[u + 1] \in T!Blanks
        BY <3>8 DEF T!Blanks, T!Eols
      <4>7. \A k \in u..(Len(t) - 1) : t[k + 1] \in T!Blanks
        BY <4>5, <4>6
      <4>8. Means(f, h, b + u) = Means(f, h, b + Len(t))
        BY <1>3, <4>5, <4>7, PieceSame
      <4> QED BY <1>5, <4>3, <4>4, <4>8
    <3>9. CASE u = Len(t)
      <4>1. StopsAt(t, n, {")"}, Len(t))
        BY <1>1, <3>3, <3>6, <3>9 DEF StopsAt
      <4>2. stop = Len(t)
        BY <1>1, <1>9, <1>12, <4>1, UptoIs DEF CharSeq
      <4>3. next = Len(t)
        BY <1>1, <1>10, <4>2
      <4>4. h[b + Len(t) + 1] = "n"
        BY <1>3, <2>2, <3>3, <3>9 DEF Piece
      <4>5. lim = b + Len(t)
        BY <3>4, <3>9, <4>4
      <4> QED BY <1>5, <4>3, <4>5
    <3> QED BY <1>1, <3>3, <3>5, <3>7, <3>8, <3>9, SMTT(30)
  <2> QED BY <1>1, <2>3, <2>4
<1> QED BY <1>13, <1>14

ParseEnds == T!Eols \cup {")"}

(* The text of a PARSE ends with its delimiter or with the line.           *)
LEMMA MeansParse ==
  ASSUME NEW f, NEW h, NEW t, NEW b, NEW i, NEW from, NEW to, Named(f, h, t, b, i, from, to),
         NameAt(t, from) = <<"s">>, NEW n, n = NextAt(t, to), ~ TookEolAt(t, n)
  PROVE  Means(f, h, b + i)
           = <<NameAt(t, from), ParseAt(t, n, ParseEnds).text>>
               \o Means(f, h, b + ParseAt(t, n, ParseEnds).next)
<1>1. /\ h \in CharSeq /\ t \in CharSeq /\ Len(h) \in Nat /\ Len(t) \in Nat /\ b \in Nat
      /\ b + Len(t) <= Len(h) /\ i \in 0..Len(t) /\ to \in (i + 1)..Len(t) /\ n \in to..Len(t)
  BY NamedFacts
<1>2. NameTo(h, b + from) = b + to /\ NameAt(h, b + from) = NameAt(t, from)
  BY NamedFacts
<1>3. Piece(f, h, t, b)
  BY DEF Named
<1>4. /\ to < Len(t) => t[to + 1] \in T!Blanks
      /\ to = Len(t) => f # "main"
  BY PieceName DEF Named
<1> DEFINE S == ParseEnds
           limit == LimitAt(h, b + to, S).text
           lim == LimitAt(h, b + to, S).next
           parsed == ParseAt(t, n, S).text
           next == ParseAt(t, n, S).next
<1>5. Means(f, h, b + i) = <<NameAt(t, from), limit>> \o Means(f, h, lim)
  <2>1. Means(f, h, b + i) = MeantFrom(f, h, Meaning(f, h), b + from)
    BY NamedMeant
  <2>2. NameAt(h, b + from) = <<"s">>
    BY <1>2
  <2>3. NameAt(h, b + from) # <<>> /\ NameAt(h, b + from) # <<"\\">>
        /\ NameAt(h, b + from) # <<"(">>
    <3>1. <<"s">> # <<>> /\ <<"s">> # <<"\\">> /\ <<"s">> # <<"(">>
      OBVIOUS
    <3> QED BY <2>2, <3>1, Zenon
  <2>4. MeantFrom(f, h, Meaning(f, h), b + from)
          = <<NameAt(h, b + from), limit>> \o Meaning(f, h)[lim]
    BY <1>2, <2>2, <2>3, Zenon DEF MeantFrom, ParseEnds
  <2>5. MeantFrom(f, h, Meaning(f, h), b + from)
          = <<NameAt(t, from), limit>> \o Meaning(f, h)[lim]
    BY <1>2, <2>4, Zenon
  <2>6. Means(f, h, lim) = Meaning(f, h)[lim]
    BY DEF Means
  <2> HIDE DEF lim, limit
  <2> QED BY <2>1, <2>5, <2>6, Zenon
<1>6. PICK q \in Nat : q = b + to /\ q <= Len(h)
  BY <1>1
<1>7. n \in 0..Len(t) /\ n \in Nat
  BY <1>1
<1>8. "n" \in S /\ ")" \in S /\ ")" \notin T!Blanks /\ "n" # ")"
  BY DEF ParseEnds, T!Eols, T!Blanks
<1>9. PICK stop \in n..Len(t) : stop = T!Upto(t, n, S) /\ StopsAt(t, n, S, stop)
  BY <1>1, <1>7, UptoStops DEF CharSeq
<1>10. next = IF stop < Len(t) /\ t[stop + 1] = ")" THEN stop + 1 ELSE stop
  BY <1>9, ParseNextIs
<1>11. parsed = Part(t, n, stop)
  BY <1>9, ParseTextIs
<1>12. to < Len(t) => h[q + 1] = t[to + 1] /\ h[q + 1] # ")" /\ q + 1 = b + n /\ n = to + 1
  <2> SUFFICES ASSUME to < Len(t)
               PROVE  h[q + 1] = t[to + 1] /\ h[q + 1] # ")" /\ q + 1 = b + n /\ n = to + 1
    OBVIOUS
  <2>1. to \in 0..(Len(t) - 1)
    BY <1>1
  <2>2. h[b + to + 1] = t[to + 1]
    BY <1>3, <2>1, PieceAt
  <2>3. t[to + 1] # ")"
    BY <1>4, <1>8
  <2>4. n = to + 1
    BY DEF NextAt
  <2> QED BY <1>1, <1>6, <2>2, <2>3, <2>4
<1>13. to = Len(t) => n = Len(t)
  BY DEF NextAt
<1>14. /\ f = "include" => b + Len(t) = Len(h)
       /\ f = "load" => b + Len(t) < Len(h) /\ h[b + Len(t) + 1] = "n"
       /\ f = "main" => Len(t) > 0 /\ t[Len(t)] = "n"
       /\ f \in {"load", "include", "main"}
  BY <1>3 DEF Piece
<1> HIDE DEF S, limit, lim, parsed, next
<1>15. limit = parsed /\ Means(f, h, lim) = Means(f, h, b + next)
  \* The line ends with the name.
  <2>1. CASE q < Len(h) /\ h[q + 1] \in T!Eols
    <3>1. LimitFrom(h, b + to, S) = q
      BY <1>6, <2>1 DEF LimitFrom, ParseEnds, S
    <3>2. StopsAt(h, q, S, q)
      BY <1>1, <1>6, <2>1 DEF StopsAt, ParseEnds, S
    <3>3. q \in 0..Len(h)
      BY <1>1, <1>6
    <3>4. LimitTo(h, b + to, S) = q
      BY <1>1, <3>1, <3>2, <3>3, UptoIs DEF LimitTo, CharSeq
    <3>5. lim = q
      <4>1. lim = IF q < Len(h) /\ h[q + 1] = ")" THEN q + 1 ELSE q
        BY <3>4, LimitNextIs DEF lim
      <4>2. h[q + 1] # ")"
        BY <1>8, <2>1 DEF T!Blanks
      <4> QED BY <4>1, <4>2
    <3>6. limit = <<>>
      <4>1. limit = Part(h, q, q)
        BY <3>1, <3>4, LimitTextIs DEF limit
      <4> QED BY <4>1, EmptyPart
    <3>7. stop = n /\ next = n
      <4>1. CASE n = Len(t)
        BY <1>1, <1>9, <1>10, <4>1
      <4>2. CASE n < Len(t)
        <5>1. to < Len(t) /\ n > 0
          BY <1>1, <1>13, <4>2
        <5>2. t[n] \in T!Eols
          BY <1>12, <2>1, <5>1
        <5>3. t[n + 1] \in T!Eols
          BY <4>2, <5>1, <5>2 DEF TookEolAt
        <5>4. ~ n <= stop - 1
          <6> SUFFICES ASSUME n <= stop - 1 PROVE FALSE
            OBVIOUS
          <6>1. n \in n..(stop - 1)
            BY <1>1, <1>9
          <6> QED BY <1>9, <5>3, <6>1 DEF StopsAt, ParseEnds, S
        <5>5. t[n + 1] # ")"
          BY <1>8, <5>3 DEF T!Blanks
        <5> QED BY <1>1, <1>9, <1>10, <5>4, <5>5
      <4> QED BY <1>1, <4>1, <4>2
    <3>8. parsed = <<>>
      BY <1>7, <1>11, <3>7, EmptyPart
    <3>9. Means(f, h, b + to) = Means(f, h, b + n)
      BY NamedNext, SameMeans
    <3> QED BY <1>6, <3>5, <3>6, <3>7, <3>8, <3>9
  \* The text ends with the name.
  <2>2. CASE q = Len(h)
    <3>1. n = Len(t) /\ b + Len(t) = Len(h)
      BY <1>1, <1>6, <1>13, <2>2
    <3>2. stop = n /\ next = n
      BY <1>1, <1>9, <1>10, <3>1
    <3>3. parsed = <<>>
      BY <1>7, <1>11, <3>2, EmptyPart
    <3>4. LimitFrom(h, b + to, S) = q + 1
      BY <1>6, <2>2 DEF LimitFrom
    <3>5. LimitTo(h, b + to, S) = q
      <4>1. q + 1 \in Nat /\ q + 1 >= Len(h)
        BY <1>1, <2>2
      <4>2. T!Upto(h, q + 1, S) = Len(h)
        BY <1>1, <4>1, UptoBeyond DEF CharSeq
      <4> QED BY <2>2, <3>4, <4>2 DEF LimitTo
    <3>6. lim = q
      BY <2>2, <3>5, LimitNextIs DEF lim
    <3>7. limit = <<>>
      <4>1. limit = Part(h, q + 1, q)
        BY <3>4, <3>5, LimitTextIs DEF limit
      <4>2. q + 1 \in Nat /\ q <= q + 1
        OBVIOUS
      <4> QED BY <4>1, <4>2, EmptyPart
    <3> QED BY <2>2, <3>1, <3>2, <3>3, <3>6, <3>7
  \* A blank behind the name that does not end the line.
  <2>3. CASE q < Len(h) /\ h[q + 1] \notin T!Eols
    <3>1. to < Len(t)
      <4>1. to # Len(t)
        <5> SUFFICES ASSUME to = Len(t) PROVE FALSE
          OBVIOUS
        <5>1. f = "load" /\ q = b + Len(t)
          BY <1>1, <1>4, <1>6, <1>14, <2>3
        <5>2. h[q + 1] = "n"
          BY <1>14, <5>1
        <5> QED BY <2>3, <5>2 DEF T!Eols
      <4> QED BY <1>1, <4>1
    <3>2. LimitFrom(h, b + to, S) = b + n
      BY <1>6, <1>12, <2>3, <3>1 DEF LimitFrom, ParseEnds, S
    <3>3. f = "main" => n < Len(t)
      <4> SUFFICES ASSUME f = "main", n = Len(t) PROVE FALSE
        BY <1>1
      <4>1. t[to + 1] = "n"
        BY <1>12, <1>14, <3>1
      <4> QED BY <1>12, <2>3, <3>1, <4>1 DEF T!Eols
    <3>4. T!Upto(h, b + n, S) = b + stop /\ (f = "main" => stop < Len(t))
      BY <1>3, <1>7, <1>8, <1>9, <3>3, PieceEol
    <3>5. LimitTo(h, b + to, S) = b + stop
      BY <3>2, <3>4 DEF LimitTo
    <3>6. limit = parsed
      <4>1. limit = Part(h, b + n, b + stop)
        BY <3>2, <3>5, LimitTextIs DEF limit
      <4>2. stop \in 0..Len(t)
        BY <1>1, <1>9
      <4>3. Part(h, b + n, b + stop) = Part(t, n, stop)
        BY <1>3, <1>7, <4>2, PiecePart
      <4> QED BY <1>11, <4>1, <4>3
    <3>7. lim = b + next
      <4>1. lim = IF b + stop < Len(h) /\ h[b + stop + 1] = ")" THEN b + stop + 1 ELSE b + stop
        BY <3>5, LimitNextIs DEF lim
      <4>2. CASE stop < Len(t)
        <5>1. stop \in 0..(Len(t) - 1)
          BY <1>1, <1>9, <4>2
        <5>2. h[b + stop + 1] = t[stop + 1]
          BY <1>3, <5>1, PieceAt
        <5> QED BY <1>1, <1>9, <1>10, <4>1, <4>2, <5>2, SMTT(30)
      <4>3. CASE stop = Len(t)
        <5>1. ~ (b + stop < Len(h) /\ h[b + stop + 1] = ")")
          BY <1>1, <1>8, <1>14, <3>4, <4>3
        <5>2. next = stop
          BY <1>1, <1>9, <1>10, <4>3
        <5> QED BY <4>1, <5>1, <5>2
      <4> QED BY <1>1, <1>9, <4>2, <4>3
    <3> QED BY <3>6, <3>7
  <2> QED BY <1>1, <1>6, <2>1, <2>2, <2>3
<1> QED BY <1>5, <1>15, Zenon DEF parsed, next, S

(* The line that is left over begins behind the last newline. *)
LineStart(c, k) == k = 0 \/ c[k] = "n"

LEMMA GreatestOf ==
  ASSUME NEW S \in SUBSET Nat, NEW b \in Nat, S # {}, \A x \in S : x <= b
  PROVE  \E x \in S : \A y \in S : x >= y
<1> DEFINE Nums == {b - x : x \in S}
<1>0. \A x \in S : b - x \in Nat
  OBVIOUS
<1>1. Nums \in SUBSET Nat /\ Nums # {}
  BY <1>0
<1>2. PICK m \in Nums : \A n \in Nums : m <= n
  BY <1>1, Least
<1>3. PICK x \in S : m = b - x
  OBVIOUS
<1>4. ASSUME NEW y \in S PROVE x >= y
  <2>1. b - y \in Nums
    OBVIOUS
  <2>2. b - x <= b - y
    BY <1>2, <1>3, <2>1
  <2> QED BY <2>2
<1> QED BY <1>4

LEMMA RestIs ==
  ASSUME NEW c \in CharSeq
  PROVE  \E p \in 0..Len(c) : /\ LineStart(c, p) /\ (\A j \in (p + 1)..Len(c) : c[j] # "n")
                              /\ T!Rest(c) = Part(c, p, Len(c)) /\ Len(T!Rest(c)) = Len(c) - p
<1>1. Len(c) \in Nat /\ DOMAIN c = 1..Len(c)
  BY LenProperties DEF CharSeq
<1> DEFINE Starts == {0} \cup {i \in DOMAIN c : c[i] = "n"}
<1>2. Starts \in SUBSET Nat /\ Starts # {} /\ \A x \in Starts : x <= Len(c)
  BY <1>1
<1>3. PICK x \in Starts : \A y \in Starts : x >= y
  <2> HIDE DEF Starts
  <2> QED BY <1>1, <1>2, GreatestOf
<1> DEFINE last == CHOOSE z \in Starts : \A y \in Starts : z >= y
<1>4. last \in Starts /\ \A y \in Starts : last >= y
  BY <1>3
<1>5. T!Rest(c) = SubSeq(c, last + 1, Len(c))
  BY DEF T!Rest, T!Max
<1> HIDE DEF last
<1>6. last \in 0..Len(c) /\ LineStart(c, last)
  BY <1>1, <1>2, <1>4 DEF LineStart
<1>7. \A j \in (last + 1)..Len(c) : c[j] # "n"
  <2> SUFFICES ASSUME NEW j \in (last + 1)..Len(c), c[j] = "n" PROVE FALSE
    OBVIOUS
  <2>1. j \in Starts
    BY <1>1, <1>6
  <2> HIDE DEF Starts
  <2> QED BY <1>1, <1>4, <1>6, <2>1
<1>8. T!Rest(c) = Part(c, last, Len(c))
  BY <1>5 DEF Part
<1>9. Len(T!Rest(c)) = Len(c) - last
  <2>1. Len(c) \in 0..Len(c) /\ last \in Nat
    BY <1>1, <1>6
  <2>2. Len(SubSeq(c, last + 1, Len(c))) = (IF last < Len(c) THEN Len(c) - last ELSE 0)
    BY <2>1, PartOfText
  <2>3. Len(T!Rest(c)) = (IF last < Len(c) THEN Len(c) - last ELSE 0)
    BY <1>5, <2>2
  <2>4. PICK n \in Nat : n = Len(c)
    BY <1>1
  <2>5. PICK m \in 0..n : m = last
    BY <1>6, <2>4
  <2>6. Len(T!Rest(c)) = (IF m < n THEN n - m ELSE 0)
    BY <2>3, <2>4, <2>5
  <2>7. Len(T!Rest(c)) = n - m
    BY <2>4, <2>6
  <2> QED BY <2>4, <2>5, <2>7
<1> QED BY <1>6, <1>7, <1>8, <1>9

(* There is one such line. *)
LEMMA RestAt ==
  ASSUME NEW c \in CharSeq, NEW e \in 0..Len(c), LineStart(c, e),
         \A j \in (e + 1)..Len(c) : c[j] # "n"
  PROVE  Len(T!Rest(c)) = Len(c) - e /\ (T!Rest(c) = <<>> <=> e = Len(c))
<1>1. Len(c) \in Nat
  BY LenProperties DEF CharSeq
<1>2. PICK p \in 0..Len(c) : /\ LineStart(c, p) /\ (\A j \in (p + 1)..Len(c) : c[j] # "n")
                             /\ T!Rest(c) = Part(c, p, Len(c)) /\ Len(T!Rest(c)) = Len(c) - p
  BY RestIs
<1>3. ~ p < e
  <2> SUFFICES ASSUME p < e PROVE FALSE
    OBVIOUS
  <2>1. e \in (p + 1)..Len(c) /\ e # 0
    BY <1>1, <1>2
  <2> QED BY <1>2, <2>1 DEF LineStart
<1>4. ~ e < p
  <2> SUFFICES ASSUME e < p PROVE FALSE
    OBVIOUS
  <2>1. p \in (e + 1)..Len(c) /\ p # 0
    BY <1>1, <1>2
  <2> QED BY <1>2, <2>1 DEF LineStart
<1>5. p = e
  BY <1>1, <1>3, <1>4
<1>6. T!Rest(c) \in CharSeq
  <2>1. e \in Nat /\ Len(c) \in 0..Len(c)
    BY <1>1
  <2>2. SubSeq(c, e + 1, Len(c)) \in CharSeq
    BY <2>1, PartOfText
  <2> QED BY <1>2, <1>5, <2>2 DEF Part
<1>7. T!Rest(c) = <<>> <=> Len(T!Rest(c)) = 0
  BY <1>6, EmptySeq DEF CharSeq
<1> QED BY <1>1, <1>2, <1>5, <1>7

DroppedBy(f, c) == f = "load" /\ Len(T!Rest(c)) = 1

HeardBy(f, c) == IF DroppedBy(f, c) THEN SubSeq(c, 1, Len(c) - 1) ELSE c

(* What is heard of a file is all, but perhaps a last character that does  *)
(* not end a line.                                                         *)
LEMMA HeardIs ==
  ASSUME NEW f, NEW c \in CharSeq, NEW h, h = HeardBy(f, c)
  PROVE  /\ h \in CharSeq /\ Len(h) \in Nat /\ Len(h) <= Len(c)
         /\ \A j \in 1..Len(h) : h[j] = c[j]
         /\ \A j \in 1..Len(c) : c[j] = "n" => j <= Len(h)
         /\ DroppedBy(f, c) => Len(h) = Len(c) - 1
         /\ ~ DroppedBy(f, c) => h = c
<1>1. Len(c) \in Nat
  BY LenProperties DEF CharSeq
<1>2. CASE ~ DroppedBy(f, c)
  <2>1. h = c
    BY <1>2 DEF HeardBy
  <2> QED BY <1>1, <1>2, <2>1
<1>3. CASE DroppedBy(f, c)
  <2>1. PICK p \in 0..Len(c) : /\ \A j \in (p + 1)..Len(c) : c[j] # "n"
                               /\ Len(T!Rest(c)) = Len(c) - p
    BY RestIs
  <2>2. p = Len(c) - 1 /\ Len(c) > 0
    <3>1. Len(T!Rest(c)) = 1
      BY <1>3 DEF DroppedBy
    <3>2. PICK m \in Nat : m = Len(c)
      BY <1>1
    <3>3. 1 = m - p
      BY <2>1, <3>1, <3>2
    <3>4. p = m - 1 /\ m > 0
      BY <3>2, <3>3
    <3> QED BY <3>2, <3>4
  <2>3. PICK last \in 0..Len(c) : last = Len(c) - 1
    BY <1>1, <2>2
  <2>4. PICK zero \in Int : zero = 0
    OBVIOUS
  <2>5. PICK one \in Int : one = 1
    OBVIOUS
  <2>6. \A k \in one..last : c[k] \in T!Chars
    <3>1. \A k \in one..last : k \in 1..Len(c)
      BY <1>1, <2>5
    <3> QED BY <3>1, ElementOfSeq DEF CharSeq
  <2>7. /\ SubSeq(c, one, last) \in Seq(T!Chars)
        /\ Len(SubSeq(c, one, last)) = IF one <= last THEN last - one + 1 ELSE 0
        /\ \A k \in 1..(last - one + 1) : SubSeq(c, one, last)[k] = c[one + k - 1]
    BY <2>6, SubSeqProperties
  <2>8. h = SubSeq(c, one, last)
    BY <1>3, <2>3, <2>5 DEF HeardBy
  <2>9. Len(h) = last
    BY <2>5, <2>7, <2>8
  <2>10. h \in CharSeq
    BY <2>7, <2>8 DEF CharSeq
  <2>11. ASSUME NEW j \in 1..Len(h) PROVE h[j] = c[j]
    <3>1. j \in 1..(last - one + 1) /\ one + j - 1 = j
      BY <2>5, <2>9
    <3>2. SubSeq(c, one, last)[j] = c[one + j - 1]
      BY <2>7, <3>1
    <3> QED BY <2>8, <3>1, <3>2
  <2>12. ASSUME NEW j \in 1..Len(c), c[j] = "n" PROVE j <= Len(h)
    <3>1. ~ j \in (p + 1)..Len(c)
      BY <2>1, <2>12
    <3> QED BY <1>1, <2>2, <2>3, <2>9, <3>1
  <2> QED BY <1>1, <1>3, <2>3, <2>9, <2>10, <2>11, <2>12
<1> QED BY <1>2, <1>3

(* The line that fgets takes: up to a newline, the size of the buffer or   *)
(* the end of the file.                                                    *)
LineOf(r) == T!Min({LineBuffer - 1, T!Upto(r, 0, {"n"}) + 1, Len(r)})

LEMMA FgetsIs ==
  ASSUME NEW r \in CharSeq, r # <<>>
  PROVE  /\ LineOf(r) \in 1..Len(r) /\ LineOf(r) <= LineBuffer - 1
         /\ \A j \in 1..(LineOf(r) - 1) : r[j] # "n"
         /\ r[LineOf(r)] = "n" \/ LineOf(r) = LineBuffer - 1 \/ LineOf(r) = Len(r)
<1>1. LineBuffer \in Nat /\ LineBuffer > 2
  BY InputAssumption DEF T!InputAssumption
<1>2. Len(r) \in Nat /\ Len(r) > 0
  BY EmptySeq DEF CharSeq
<1>3. PICK u \in 0..Len(r) : u = T!Upto(r, 0, {"n"}) /\ StopsAt(r, 0, {"n"}, u)
  <2>1. PICK zero \in 0..Len(r) : zero = 0
    BY <1>2
  <2> QED BY <1>2, <2>1, UptoStops DEF CharSeq
<1>4. PICK limit \in Nat : limit = LineBuffer - 1
  BY <1>1
<1>5. PICK end \in Nat : end = u + 1
  <2>1. u + 1 \in Nat
    BY <1>2, <1>3
  <2> QED BY <2>1
<1> DEFINE S == {limit, end, Len(r)}
<1>6. S \in SUBSET Nat /\ S # {}
  BY <1>2
<1>7. PICK x \in S : \A y \in S : x <= y
  BY <1>6, Least
<1> DEFINE g == CHOOSE z \in S : \A y \in S : z <= y
<1>8. g \in S /\ \A y \in S : g <= y
  BY <1>7
<1>9. LineOf(r) = g
  BY <1>3, <1>4, <1>5 DEF LineOf, T!Min
<1> HIDE DEF g
<1>10. /\ g \in Nat /\ g <= limit /\ g <= end /\ g <= Len(r)
       /\ g = limit \/ g = end \/ g = Len(r)
  BY <1>2, <1>8
<1>11. g \in 1..Len(r) /\ g <= LineBuffer - 1
  BY <1>1, <1>2, <1>4, <1>5, <1>10
<1>12. ASSUME NEW j \in 1..(g - 1) PROVE r[j] # "n"
  <2>1. PICK k \in 0..(u - 1) : k + 1 = j
    BY <1>3, <1>5, <1>10
  <2> QED BY <1>3, <2>1 DEF StopsAt
<1>13. r[g] = "n" \/ g = LineBuffer - 1 \/ g = Len(r)
  <2>1. SUFFICES ASSUME g = end, g # Len(r) PROVE r[g] = "n"
    BY <1>4, <1>10
  <2>2. u < Len(r) /\ g = u + 1
    BY <1>5, <1>10, <2>1
  <2> QED BY <1>3, <2>2 DEF StopsAt
<1> QED BY <1>9, <1>11, <1>12, <1>13

(* A text from which a line has been taken.                                *)
LEMMA Leftover ==
  ASSUME NEW r \in CharSeq, NEW g \in 1..Len(r)
  PROVE  /\ Part(r, g, Len(r)) \in CharSeq /\ Len(Part(r, g, Len(r))) = Len(r) - g
         /\ \A j \in 1..(Len(r) - g) : Part(r, g, Len(r))[j] = r[g + j]
         /\ Part(r, g, Len(r)) = <<>> <=> g = Len(r)
<1>0. PICK k : k = Part(r, g, Len(r))
  OBVIOUS
<1>1. Len(r) \in Nat
  BY LenProperties DEF CharSeq
<1>2. PICK m \in Int : m = g + 1
  BY <1>1
<1>3. PICK n \in Int : n = Len(r)
  BY <1>1
<1>4. \A i \in m..n : r[i] \in T!Chars
  <2>1. \A i \in m..n : i \in 1..Len(r)
    BY <1>1, <1>2, <1>3
  <2> QED BY <2>1, ElementOfSeq DEF CharSeq
<1>5. /\ SubSeq(r, m, n) \in Seq(T!Chars)
      /\ Len(SubSeq(r, m, n)) = IF m <= n THEN n - m + 1 ELSE 0
      /\ \A i \in 1..(n - m + 1) : SubSeq(r, m, n)[i] = r[m + i - 1]
  BY <1>4, SubSeqProperties
<1>6. k = SubSeq(r, m, n)
  BY <1>0, <1>2, <1>3 DEF Part
<1>7. k \in CharSeq /\ Len(k) = Len(r) - g
  BY <1>1, <1>2, <1>3, <1>5, <1>6 DEF CharSeq
<1>8. ASSUME NEW j \in 1..Len(k) PROVE k[j] = r[g + j]
  <2>1. j \in 1..(n - m + 1) /\ m + j - 1 = g + j
    BY <1>1, <1>2, <1>3, <1>7
  <2>2. SubSeq(r, m, n)[j] = r[m + j - 1]
    BY <1>5, <2>1
  <2> QED BY <1>6, <2>1, <2>2
<1>9. k = <<>> <=> Len(k) = 0
  BY <1>7, EmptySeq DEF CharSeq
<1> QED BY <1>0, <1>1, <1>7, <1>8, <1>9

(* The first characters of a text.                                         *)
Start(r, g) == SubSeq(r, 1, g)

LEMMA StartIs ==
  ASSUME NEW r \in CharSeq, NEW g \in 0..Len(r)
  PROVE  Start(r, g) \in CharSeq /\ Len(Start(r, g)) = g /\ \A j \in 1..g : Start(r, g)[j] = r[j]
<1>0. PICK k : k = Start(r, g)
  OBVIOUS
<1>1. Len(r) \in Nat
  BY LenProperties DEF CharSeq
<1>2. PICK one \in Int : one = 1
  OBVIOUS
<1>3. \A i \in one..g : r[i] \in T!Chars
  <2>1. \A i \in one..g : i \in 1..Len(r)
    BY <1>1, <1>2
  <2> QED BY <2>1, ElementOfSeq DEF CharSeq
<1>4. /\ SubSeq(r, one, g) \in Seq(T!Chars)
      /\ Len(SubSeq(r, one, g)) = IF one <= g THEN g - one + 1 ELSE 0
      /\ \A i \in 1..(g - one + 1) : SubSeq(r, one, g)[i] = r[one + i - 1]
  BY <1>3, SubSeqProperties
<1>5. k = SubSeq(r, one, g)
  BY <1>0, <1>2 DEF Start
<1>6. k \in CharSeq /\ Len(k) = g
  BY <1>1, <1>2, <1>4, <1>5 DEF CharSeq
<1>7. ASSUME NEW j \in 1..g PROVE k[j] = r[j]
  <2>1. j \in 1..(g - one + 1) /\ one + j - 1 = j
    BY <1>2
  <2>2. SubSeq(r, one, g)[j] = r[one + j - 1]
    BY <1>4, <2>1
  <2> QED BY <1>5, <2>1, <2>2
<1> QED BY <1>0, <1>6, <1>7

(* What is left to read of a file is its end.                              *)
Placed(c, r) ==
  /\ c \in CharSeq /\ r \in CharSeq /\ Len(r) <= Len(c)
  /\ \A j \in 1..Len(r) : r[j] = c[Len(c) - Len(r) + j]

(* It begins with a line, where lines are texts.                           *)
AtLine(f, c, r) ==
  IF f = "include" THEN r = <<>> \/ Len(r) = Len(c)
  ELSE LineStart(c, Len(c) - Len(r)) \/ (DroppedBy(f, c) /\ r = <<>>)

LineFits(c, k) == T!Upto(c, k, {"n"}) + 1 - k <= LineBuffer - 1

(* The lines before it are not too long.                                   *)
Fitting(f, c, r) ==
  f # "include" => \A k \in 0..(Len(c) - Len(r) - 1) : LineStart(c, k) => LineFits(c, k)

FileInv(f, c, r) == Placed(c, r) /\ AtLine(f, c, r) /\ Fitting(f, c, r)

TooLongFor(f, c) ==
  \/ T!Rest(c) # <<>> /\ ~ DroppedBy(f, c)
  \/ \E k \in 0..(Len(c) - 1) : LineStart(c, k) /\ ~ LineFits(c, k)

(* The next line of a file, from s on: its g characters, and the rest k.   *)
LineTakes(c, r, s, g, k) ==
  /\ Placed(c, r) /\ r # <<>>
  /\ s = Len(c) - Len(r) /\ g = LineOf(r) /\ k = Part(r, g, Len(r))

LEMMA LineTaken ==
  ASSUME NEW c, NEW r, NEW s, NEW g, NEW k, LineTakes(c, r, s, g, k)
  PROVE  /\ Len(c) \in Nat /\ Len(r) \in Nat /\ s \in Nat /\ s + Len(r) = Len(c)
         /\ g \in 1..Len(r) /\ g <= LineBuffer - 1 /\ s + g <= Len(c)
         /\ \A j \in 1..g : r[j] = c[s + j]
         /\ \A j \in (s + 1)..(s + g - 1) : c[j] # "n"
         /\ r[g] = c[s + g]
         /\ c[s + g] = "n" \/ g = LineBuffer - 1 \/ g = Len(r)
         /\ Placed(c, k) /\ Len(k) = Len(r) - g /\ Len(c) - Len(k) = s + g
         /\ k = <<>> <=> g = Len(r)
<1>0. /\ Placed(c, r) /\ r # <<>>
      /\ s = Len(c) - Len(r) /\ g = LineOf(r) /\ k = Part(r, g, Len(r))
  BY DEF LineTakes
<1>1. /\ c \in CharSeq /\ r \in CharSeq /\ Len(r) <= Len(c) /\ Len(c) \in Nat /\ Len(r) \in Nat
      /\ \A j \in 1..Len(r) : r[j] = c[s + j]
  BY <1>0, LenProperties DEF Placed, CharSeq
<1>2. s \in Nat /\ s + Len(r) = Len(c)
  BY <1>0, <1>1
<1>3. /\ g \in 1..Len(r) /\ g <= LineBuffer - 1
      /\ \A j \in 1..(g - 1) : r[j] # "n"
      /\ r[g] = "n" \/ g = LineBuffer - 1 \/ g = Len(r)
  BY <1>0, <1>1, FgetsIs
<1>4. /\ k \in CharSeq /\ Len(k) = Len(r) - g
      /\ \A j \in 1..Len(k) : k[j] = r[g + j]
      /\ k = <<>> <=> g = Len(r)
  <2>1. r \in CharSeq /\ g \in 1..Len(r)
    BY <1>1, <1>3
  <2>2. /\ Part(r, g, Len(r)) \in CharSeq /\ Len(Part(r, g, Len(r))) = Len(r) - g
        /\ \A j \in 1..(Len(r) - g) : Part(r, g, Len(r))[j] = r[g + j]
        /\ Part(r, g, Len(r)) = <<>> <=> g = Len(r)
    BY <2>1, Leftover
  <2> QED BY <1>0, <2>2
<1>5. r[g] = c[s + g]
  BY <1>1, <1>3
<1>6. \A j \in 1..g : r[j] = c[s + j]
  BY <1>1, <1>3
<1>7. ASSUME NEW j \in (s + 1)..(s + g - 1) PROVE c[j] # "n"
  <2>1. PICK l \in 1..(g - 1) : s + l = j
    <3>1. j - s \in 1..(g - 1) /\ s + (j - s) = j
      <4>1. PICK m \in Nat : m = g
        BY <1>3
      <4>2. j \in (s + 1)..(s + m - 1)
        BY <4>1
      <4>3. j - s \in 1..(m - 1) /\ s + (j - s) = j
        BY <1>2, <4>2
      <4> QED BY <4>1, <4>3
    <3> QED BY <3>1
  <2>2. l \in 1..g
    BY <1>3
  <2> QED BY <1>3, <1>6, <2>1, <2>2
<1>8. Len(c) - Len(k) = s + g /\ s + g <= Len(c)
  <2>1. PICK m \in Nat : m = Len(r)
    BY <1>1
  <2>2. g \in 1..m /\ s + m = Len(c) /\ Len(k) = m - g
    BY <1>2, <1>3, <1>4, <2>1
  <2> QED BY <1>1, <1>2, <2>2, SMTT(30)
<1>9. Placed(c, k)
  <2>1. Len(k) \in Nat /\ Len(k) <= Len(c)
    BY <1>1, <1>3, <1>4
  <2>2. ASSUME NEW j \in 1..Len(k) PROVE k[j] = c[Len(c) - Len(k) + j]
    <3>1. g + j \in 1..Len(r) /\ s + (g + j) = Len(c) - Len(k) + j
      <4>1. PICK m \in Nat : m = g
        BY <1>3
      <4>2. PICK n \in Nat : n = Len(r)
        BY <1>1
      <4>3. j \in 1..(n - m) /\ m \in 1..n
        BY <1>3, <1>4, <4>1, <4>2
      <4>4. m + j \in 1..n /\ s + (m + j) = (s + m) + j
        BY <1>2, <4>3
      <4> QED BY <1>8, <4>1, <4>2, <4>4
    <3>2. k[j] = r[g + j] /\ r[g + j] = c[s + (g + j)]
      BY <1>1, <1>4, <3>1
    <3> QED BY <3>1, <3>2
  <2> QED BY <1>1, <1>4, <2>1, <2>2 DEF Placed
<1> QED BY <1>1, <1>2, <1>3, <1>4, <1>5, <1>6, <1>7, <1>8, <1>9

(* Where a line ends. *)
LEMMA LineUpto ==
  ASSUME NEW c \in CharSeq, NEW s \in Nat, NEW e \in (s + 1)..Len(c), c[e] = "n",
         \A j \in (s + 1)..(e - 1) : c[j] # "n"
  PROVE  T!Upto(c, s, {"n"}) = e - 1
<1>1. Len(c) \in Nat /\ s \in 0..Len(c)
  BY LenProperties DEF CharSeq
<1>2. StopsAt(c, s, {"n"}, e - 1)
  <2>1. e - 1 \in s..Len(c) /\ (e - 1) + 1 = e
    BY <1>1
  <2>2. ASSUME NEW j \in s..((e - 1) - 1) PROVE c[j + 1] \notin {"n"}
    <3>1. j + 1 \in (s + 1)..(e - 1)
      BY <1>1
    <3> QED BY <3>1
  <2> QED BY <2>1, <2>2 DEF StopsAt
<1> QED BY <1>1, <1>2, UptoIs DEF CharSeq

(* A line that is taken with its newline. *)
LEMMA LineWhole ==
  ASSUME NEW f, f # "include", NEW c, NEW r, FileInv(f, c, r),
         NEW s, NEW g, NEW k, LineTakes(c, r, s, g, k), c[s + g] = "n"
  PROVE  FileInv(f, c, k)
<1>1. Placed(c, r) /\ LineStart(c, s)
  BY DEF LineTakes, FileInv, AtLine
<1>0. s = Len(c) - Len(r)
  BY DEF LineTakes
<1>2. /\ Len(c) \in Nat /\ s \in Nat /\ g \in Nat /\ g > 0 /\ g <= LineBuffer - 1
      /\ s + g <= Len(c)
      /\ \A j \in (s + 1)..(s + g - 1) : c[j] # "n"
      /\ Placed(c, k) /\ Len(c) - Len(k) = s + g
  <2>1. g \in 1..Len(r) /\ Len(r) \in Nat
    BY LineTaken
  <2> QED BY <2>1, LineTaken
<1>3. c \in CharSeq
  BY <1>1 DEF Placed
<1>4. LineStart(c, s + g)
  BY DEF LineStart
<1>5. LineFits(c, s)
  <2>1. PICK e \in (s + 1)..Len(c) : e = s + g
    BY <1>2
  <2>2. T!Upto(c, s, {"n"}) = e - 1
    <3>1. s \in Nat /\ c[e] = "n" /\ \A j \in (s + 1)..(e - 1) : c[j] # "n"
      BY <1>2, <2>1
    <3> QED BY <1>3, <3>1, LineUpto
  <2> QED BY <1>2, <2>1, <2>2 DEF LineFits
<1>6. ASSUME NEW j \in 0..(s + g - 1), LineStart(c, j) PROVE LineFits(c, j)
  <2>1. CASE j < s
    <3>1. j \in 0..(s - 1)
      BY <1>2, <2>1
    <3> QED BY <1>0, <1>6, <3>1 DEF FileInv, Fitting
  <2>2. CASE j = s
    BY <1>5, <2>2
  <2>3. CASE s < j
    <3>1. j \in (s + 1)..(s + g - 1) /\ j # 0
      BY <1>2, <2>3
    <3> QED BY <1>2, <1>6, <3>1 DEF LineStart
  <2>4. j \in Nat /\ s \in Nat
    BY <1>2
  <2> QED BY <2>1, <2>2, <2>3, <2>4
<1>7. AtLine(f, c, k) /\ Fitting(f, c, k)
  BY <1>2, <1>4, <1>6 DEF AtLine, Fitting
<1> QED BY <1>2, <1>7 DEF FileInv

(* A line that is taken without.                                           *)
LEMMA LineCut ==
  ASSUME NEW f, f # "include", NEW c, NEW r, FileInv(f, c, r),
         NEW s, NEW g, NEW k, LineTakes(c, r, s, g, k), c[s + g] # "n"
  PROVE  /\ f = "load" /\ g = 1 => DroppedBy(f, c) /\ FileInv(f, c, k) /\ k = <<>>
         /\ ~ (f = "load" /\ g = 1) => TooLongFor(f, c)
<1>1. Placed(c, r) /\ LineStart(c, s)
  BY DEF LineTakes, FileInv, AtLine
<1>0. s = Len(c) - Len(r)
  BY DEF LineTakes
<1>2. /\ Len(c) \in Nat /\ s \in Nat /\ g \in Nat /\ g > 0 /\ g <= LineBuffer - 1
      /\ s + g <= Len(c) /\ s < Len(c) /\ s + Len(r) = Len(c)
      /\ \A j \in (s + 1)..(s + g - 1) : c[j] # "n"
      /\ g = LineBuffer - 1 \/ g = Len(r)
      /\ Placed(c, k) /\ Len(c) - Len(k) = s + g
      /\ k = <<>> <=> g = Len(r)
  <2>1. g \in 1..Len(r) /\ Len(r) \in Nat /\ s \in Nat /\ s + Len(r) = Len(c)
    BY LineTaken
  <2>2. /\ Len(c) \in Nat /\ s + g <= Len(c)
        /\ \A j \in (s + 1)..(s + g - 1) : c[j] # "n"
        /\ Placed(c, k) /\ Len(c) - Len(k) = s + g
        /\ k = <<>> <=> g = Len(r)
    BY LineTaken
  <2>3. c[s + g] = "n" \/ g = LineBuffer - 1 \/ g = Len(r)
    BY LineTaken
  <2>4. g \in Nat /\ g > 0
    BY <2>1
  <2>5. s < Len(c)
    BY <2>1, <2>2, <2>4
  <2>6. g <= LineBuffer - 1
    BY LineTaken
  <2> QED BY <2>1, <2>2, <2>3, <2>4, <2>5, <2>6
<1>3. c \in CharSeq /\ LineBuffer \in Nat /\ LineBuffer > 2
  BY <1>1, InputAssumption DEF Placed, T!InputAssumption
<1>4. \A j \in (s + 1)..(s + g) : c[j] # "n"
  <2> SUFFICES ASSUME NEW j \in (s + 1)..(s + g), j # s + g PROVE c[j] # "n"
    OBVIOUS
  <2>1. j \in (s + 1)..(s + g - 1)
    BY <1>2
  <2> QED BY <1>2, <2>1
\* The file ends without a newline.
<1>5. ASSUME g = Len(r)
      PROVE  /\ Len(T!Rest(c)) = g /\ T!Rest(c) # <<>>
             /\ f = "load" /\ g = 1 => DroppedBy(f, c) /\ FileInv(f, c, k) /\ k = <<>>
             /\ ~ (f = "load" /\ g = 1) => TooLongFor(f, c)
  <2>1. s \in 0..Len(c) /\ s + g = Len(c)
    BY <1>2, <1>5
  <2>2. \A j \in (s + 1)..Len(c) : c[j] # "n"
    BY <1>4, <2>1
  <2>3. Len(T!Rest(c)) = Len(c) - s /\ (T!Rest(c) = <<>> <=> s = Len(c))
    BY <1>1, <1>3, <2>1, <2>2, RestAt
  <2>4. Len(T!Rest(c)) = g /\ T!Rest(c) # <<>>
    BY <1>2, <2>1, <2>3
  <2>5. DroppedBy(f, c) <=> f = "load" /\ g = 1
    BY <2>4 DEF DroppedBy
  <2>6. ASSUME f = "load", g = 1 PROVE DroppedBy(f, c) /\ FileInv(f, c, k) /\ k = <<>>
    <3>1. DroppedBy(f, c) /\ k = <<>>
      BY <1>2, <1>5, <2>5, <2>6
    <3>2. AtLine(f, c, k)
      BY <3>1 DEF AtLine
    <3>3. LineFits(c, s)
      <4>1. T!Upto(c, s, {"n"}) \in s..Len(c)
        BY <1>3, <2>1, UptoStops DEF CharSeq
      <4>2. PICK u \in s..Len(c) : u = T!Upto(c, s, {"n"})
        BY <4>1
      <4>3. u + 1 - s <= LineBuffer - 1
        BY <1>2, <1>3, <2>1, <2>6
      <4> QED BY <4>2, <4>3 DEF LineFits
    <3>4. ASSUME NEW j \in 0..(Len(c) - Len(k) - 1), LineStart(c, j) PROVE LineFits(c, j)
      <4>1. j = s \/ j \in 0..(s - 1)
        <5>1. s \in Nat /\ j \in 0..s
          BY <1>2, <2>6
        <5> QED BY <5>1
      <4> QED BY <1>0, <3>3, <3>4, <4>1 DEF FileInv, Fitting
    <3>5. Fitting(f, c, k)
      BY <3>4 DEF Fitting
    <3> QED BY <1>2, <3>1, <3>2, <3>5 DEF FileInv
  <2> QED BY <2>4, <2>5, <2>6 DEF TooLongFor
\* The buffer is full.
<1>6. ASSUME g = LineBuffer - 1, g # Len(r) PROVE g # 1 /\ TooLongFor(f, c)
  <2>1. PICK u \in s..Len(c) : u = T!Upto(c, s, {"n"}) /\ StopsAt(c, s, {"n"}, u)
    <3>1. s \in 0..Len(c)
      BY <1>2
    <3> QED BY <1>3, <3>1, UptoStops DEF CharSeq
  <2>2. u >= s + g
    <3> SUFFICES ASSUME u < s + g PROVE FALSE
      BY <1>2
    <3>1. u < Len(c) /\ u + 1 \in (s + 1)..(s + g)
      BY <1>2
    <3>2. c[u + 1] = "n"
      BY <2>1, <3>1 DEF StopsAt
    <3> QED BY <1>4, <3>1, <3>2
  <2>3. ~ u + 1 - s <= LineBuffer - 1
    BY <1>2, <1>3, <1>6, <2>2
  <2>4. ~ LineFits(c, s)
    BY <2>1, <2>3 DEF LineFits
  <2>5. s \in 0..(Len(c) - 1)
    BY <1>2
  <2>6. g # 1
    BY <1>3, <1>6
  <2> QED BY <1>1, <2>4, <2>5, <2>6 DEF TooLongFor
<1> QED BY <1>2, <1>5, <1>6

(* Where the text of the interpreter begins in the file.                   *)
InputBase(f, c, r, t) == (Len(c) - Len(r)) - Len(t) - (IF f = "load" THEN 1 ELSE 0)

(* The text of the interpreter is a piece of what is heard.                *)
TextInv(f, c, r, t) == Piece(f, HeardBy(f, c), t, InputBase(f, c, r, t))

(* A line is a text of the main loop with its newline.                     *)
LEMMA LineIsPiece ==
  ASSUME NEW c, NEW r, NEW s, NEW g, NEW k, LineTakes(c, r, s, g, k), c[s + g] = "n"
  PROVE  TextInv("main", c, k, Start(r, g)) /\ InputBase("main", c, k, Start(r, g)) = s
<1>1. /\ Len(c) \in Nat /\ s \in Nat /\ g \in 1..Len(r) /\ Len(r) \in Nat
      /\ s + g <= Len(c)
      /\ \A j \in 1..g : r[j] = c[s + j]
      /\ \A j \in (s + 1)..(s + g - 1) : c[j] # "n"
      /\ Len(c) - Len(k) = s + g
  BY LineTaken
<1>2. c \in CharSeq /\ r \in CharSeq
  BY DEF LineTakes, Placed
<1>3. HeardBy("main", c) = c
  BY DEF HeardBy, DroppedBy
<1>4. g \in 0..Len(r) /\ g \in Nat /\ g > 0
  BY <1>1
<1>5. PICK t : t = Start(r, g)
  OBVIOUS
<1>6. t \in CharSeq /\ Len(t) = g /\ \A j \in 1..g : t[j] = r[j]
  BY <1>2, <1>4, <1>5, StartIs
<1>7. InputBase("main", c, k, t) = s
  BY <1>1, <1>4, <1>6 DEF InputBase
<1>8. \A j \in 1..g : t[j] = c[s + j]
  BY <1>1, <1>6
<1>9. t[g] = "n"
  BY <1>4, <1>8
<1>10. ASSUME NEW j \in 1..(g - 1) PROVE t[j] # "n"
  <2>1. s + j \in (s + 1)..(s + g - 1) /\ j \in 1..g
    BY <1>1, <1>4
  <2> QED BY <1>1, <1>8, <2>1
<1>11. Piece("main", c, t, s)
  BY <1>1, <1>2, <1>4, <1>6, <1>8, <1>9, <1>10 DEF Piece
<1> QED BY <1>3, <1>5, <1>7, <1>11 DEF TextInv

(* And of LOAD without it.                                                 *)
LEMMA LineIsStripped ==
  ASSUME NEW c, NEW r, NEW s, NEW g, NEW k, LineTakes(c, r, s, g, k), c[s + g] = "n",
         NEW t, t = Start(Start(r, g), g - 1)
  PROVE  TextInv("load", c, k, t) /\ InputBase("load", c, k, t) = s
<1>1. /\ Len(c) \in Nat /\ s \in Nat /\ g \in 1..Len(r) /\ Len(r) \in Nat
      /\ s + g <= Len(c)
      /\ \A j \in 1..g : r[j] = c[s + j]
      /\ \A j \in (s + 1)..(s + g - 1) : c[j] # "n"
      /\ Len(c) - Len(k) = s + g
  BY LineTaken
<1>2. c \in CharSeq /\ r \in CharSeq
  BY DEF LineTakes, Placed
<1>3. PICK h : h = HeardBy("load", c)
  OBVIOUS
<1>4. /\ h \in CharSeq /\ Len(h) \in Nat
      /\ \A j \in 1..Len(h) : h[j] = c[j]
      /\ \A j \in 1..Len(c) : c[j] = "n" => j <= Len(h)
  BY <1>2, <1>3, HeardIs
<1>5. PICK n \in Nat : n = g - 1 /\ n + 1 = g
  BY <1>1
<1>6. g \in 0..Len(r) /\ g \in Nat /\ g > 0
  BY <1>1
<1>7. /\ Start(r, g) \in CharSeq /\ Len(Start(r, g)) = g
      /\ \A j \in 1..g : Start(r, g)[j] = r[j]
  BY <1>2, <1>6, StartIs
<1>8. /\ t \in CharSeq /\ Len(t) = n /\ \A j \in 1..n : t[j] = Start(r, g)[j]
  <2>1. n \in 0..Len(Start(r, g)) /\ t = Start(Start(r, g), n)
    BY <1>5, <1>7
  <2> QED BY <1>7, <2>1, StartIs
<1>9. ASSUME NEW j \in 1..n PROVE t[j] = c[s + j] /\ t[j] # "n"
  <2>1. j \in 1..g /\ s + j \in (s + 1)..(s + g - 1)
    BY <1>1, <1>5
  <2> QED BY <1>1, <1>7, <1>8, <2>1, ZenonT(40)
<1>10. InputBase("load", c, k, t) = s
  BY <1>1, <1>5, <1>8 DEF InputBase
<1>11. s + g <= Len(h) /\ h[s + g] = "n"
  <2>1. s + g \in 1..Len(c)
    BY <1>1, <1>6
  <2>2. s + g <= Len(h)
    BY <1>4, <2>1
  <2>3. s + g \in 1..Len(h)
    BY <1>4, <2>1, <2>2
  <2> QED BY <1>4, <2>2, <2>3
<1>12. ASSUME NEW j \in 1..n PROVE h[s + j] = t[j]
  <2>1. s + j \in 1..Len(h)
    BY <1>1, <1>4, <1>5, <1>11
  <2> QED BY <1>4, <1>9, <2>1
<1>13. s + n < Len(h) /\ s + n <= Len(h) /\ h[s + n + 1] = "n"
  <2>1. s + n + 1 = s + g
    BY <1>1, <1>5
  <2> QED BY <1>1, <1>4, <1>5, <1>11, <2>1
<1>14. \A j \in 1..(n - 1) : t[j] # "n"
  <2>1. \A j \in 1..(n - 1) : j \in 1..n
    OBVIOUS
  <2> QED BY <1>9, <2>1
<1>15. Piece("load", h, t, s)
  BY <1>1, <1>4, <1>8, <1>9, <1>12, <1>13, <1>14 DEF Piece
<1> QED BY <1>3, <1>10, <1>15 DEF TextInv

(* A file is one text of INCLUDE-FILE.                                     *)
LEMMA FileIsPiece ==
  ASSUME NEW c, NEW r, FileInv("include", c, r), r # <<>>
  PROVE  TextInv("include", c, <<>>, r) /\ InputBase("include", c, <<>>, r) = 0
         /\ FileInv("include", c, <<>>) /\ r = c /\ HeardBy("include", c) = c
<1>1. c \in CharSeq /\ r \in CharSeq /\ Len(c) \in Nat /\ Len(r) = Len(c)
  BY LenProperties DEF FileInv, Placed, AtLine, CharSeq
<1>2. r = c
  <2>1. \A j \in 1..Len(r) : r[j] = c[Len(c) - Len(r) + j]
    BY DEF FileInv, Placed
  <2>2. \A j \in 1..Len(r) : r[j] = c[j]
    BY <1>1, <2>1
  <2>3. r \in Seq(T!Chars) /\ c \in Seq(T!Chars)
    BY <1>1 DEF CharSeq
  <2> QED BY <1>1, <2>2, <2>3, SeqEqual
<1>3. HeardBy("include", c) = c
  BY DEF HeardBy, DroppedBy
<1>4. <<>> \in CharSeq /\ Len(<<>>) = 0
  BY DEF CharSeq
<1>5. InputBase("include", c, <<>>, c) = 0
  BY <1>1, <1>4 DEF InputBase
<1>6. Piece("include", c, c, 0)
  BY <1>1 DEF Piece
<1>7. FileInv("include", c, <<>>)
  BY <1>1, <1>4 DEF FileInv, Placed, AtLine, Fitting
<1> QED BY <1>2, <1>3, <1>5, <1>6, <1>7 DEF TextInv

(* How much of what is heard was taken from the file.                      *)
Eaten(f, c, r) ==
  IF Len(c) - Len(r) <= Len(HeardBy(f, c)) THEN Len(c) - Len(r) ELSE Len(HeardBy(f, c))

LEMMA EatenText ==
  ASSUME NEW f, NEW c \in CharSeq, NEW r \in CharSeq, NEW t, TextInv(f, c, r, t)
  PROVE  Eaten(f, c, r) = EndOfPiece(f, t, InputBase(f, c, r, t))
<1>1. PICK b : b = InputBase(f, c, r, t)
  OBVIOUS
<1>2. PICK h : h = HeardBy(f, c)
  OBVIOUS
<1>3. Piece(f, h, t, b)
  BY <1>1, <1>2 DEF TextInv
<1>4. /\ Len(h) \in Nat /\ Len(t) \in Nat /\ b \in Nat
      /\ EndOfPiece(f, t, b) \in (b + Len(t))..Len(h)
  BY <1>3, PieceTypes
<1>5. Len(c) \in Nat /\ Len(r) \in Nat
  BY LenProperties DEF CharSeq
<1>6. EndOfPiece(f, t, b) = Len(c) - Len(r)
  <2>1. CASE f = "load"
    <3>1. b = (Len(c) - Len(r)) - Len(t) - 1 /\ EndOfPiece(f, t, b) = b + Len(t) + 1
      BY <1>1, <2>1 DEF InputBase, EndOfPiece
    <3> QED BY <1>4, <1>5, <3>1
  <2>2. CASE f # "load"
    <3>1. b = (Len(c) - Len(r)) - Len(t) - 0 /\ EndOfPiece(f, t, b) = b + Len(t)
      BY <1>1, <2>2 DEF InputBase, EndOfPiece
    <3> QED BY <1>4, <1>5, <3>1
  <2> QED BY <2>1, <2>2
<1>7. Len(c) - Len(r) <= Len(h)
  BY <1>4, <1>6
<1> QED BY <1>1, <1>2, <1>6, <1>7 DEF Eaten

LEMMA EatenLine ==
  ASSUME NEW f, NEW c, NEW r, NEW s, NEW g, NEW k, LineTakes(c, r, s, g, k)
  PROVE  /\ Eaten(f, c, r) = s /\ s \in Nat /\ s <= Len(HeardBy(f, c))
         /\ s + g <= Len(HeardBy(f, c)) => Eaten(f, c, k) = s + g
         /\ s + g > Len(HeardBy(f, c)) => Eaten(f, c, k) = Len(HeardBy(f, c))
<1>1. /\ Len(c) \in Nat /\ s \in Nat /\ g \in 1..Len(r) /\ Len(r) \in Nat
      /\ s + g <= Len(c) /\ Len(c) - Len(k) = s + g
  BY LineTaken
<1>2. c \in CharSeq /\ s = Len(c) - Len(r)
  BY DEF LineTakes, Placed
<1>3. PICK h : h = HeardBy(f, c)
  OBVIOUS
<1>4. Len(h) \in Nat /\ Len(h) >= Len(c) - 1
  <2>1. h \in CharSeq /\ Len(h) \in Nat /\ (DroppedBy(f, c) => Len(h) = Len(c) - 1)
        /\ (~ DroppedBy(f, c) => h = c)
    BY <1>2, <1>3, HeardIs
  <2> QED BY <1>1, <2>1
<1>5. s <= Len(h)
  BY <1>1, <1>4
<1>6. s + g <= Len(h) \/ s + g > Len(h)
  BY <1>1, <1>4
<1> QED BY <1>1, <1>2, <1>3, <1>4, <1>5, <1>6 DEF Eaten

LEMMA EatenStart ==
  ASSUME NEW f, NEW c, NEW r, NEW s, NEW g, NEW k, LineTakes(c, r, s, g, k)
  PROVE  Eaten(f, c, r) = s
<1>1. /\ Eaten(f, c, r) = s /\ s \in Nat /\ s <= Len(HeardBy(f, c))
      /\ s + g <= Len(HeardBy(f, c)) => Eaten(f, c, k) = s + g
      /\ s + g > Len(HeardBy(f, c)) => Eaten(f, c, k) = Len(HeardBy(f, c))
  BY EatenLine
<1> QED BY <1>1

(* What is meant by what the interpreter has not read yet.                 *)
Left(f, h, t, e, b, i, d, w) ==
  IF d \in {"fetch", "done"} THEN (IF w THEN Waits(f, h, e) ELSE Means(f, h, e))
  ELSE IF d = "text" THEN (IF w THEN Waits(f, h, b + i) ELSE Means(f, h, b + i))
  ELSE IF d = "'" THEN Waits(f, h, b + i)
  ELSE IF d = "\\" THEN Means(f, h, b + OverEolAt(t, T!Upto(t, i, T!Eols)))
  ELSE IF d = "(" THEN Means(f, h, b + ParseAt(t, i, {")"}).next)
  ELSE <<ParseAt(t, i, ParseEnds).text>> \o Means(f, h, b + ParseAt(t, i, ParseEnds).next)

Onwards(f, h, i, w) == IF w THEN Waits(f, h, i) ELSE Means(f, h, i)

LEMMA LeftToFetch ==
  ASSUME NEW f, NEW h, NEW t, NEW e, NEW b, NEW i, NEW w
  PROVE  /\ Left(f, h, t, e, b, i, "fetch", w) = Onwards(f, h, e, w)
         /\ Left(f, h, t, e, b, i, "done", w) = Onwards(f, h, e, w)
BY DEF Left, Onwards

LEMMA LeftInText ==
  ASSUME NEW f, NEW h, NEW t, NEW e, NEW b, NEW i, NEW w
  PROVE  Left(f, h, t, e, b, i, "text", w) = Onwards(f, h, b + i, w)
BY DEF Left, Onwards

LEMMA LeftToTick ==
  ASSUME NEW f, NEW h, NEW t, NEW e, NEW b, NEW i, NEW w
  PROVE  Left(f, h, t, e, b, i, "'", w) = Waits(f, h, b + i)
BY DEF Left

LEMMA LeftToBackslash ==
  ASSUME NEW f, NEW h, NEW t, NEW e, NEW b, NEW i, NEW w
  PROVE  Left(f, h, t, e, b, i, "\\", w) = Means(f, h, b + OverEolAt(t, T!Upto(t, i, T!Eols)))
BY DEF Left

LEMMA LeftToParenthesis ==
  ASSUME NEW f, NEW h, NEW t, NEW e, NEW b, NEW i, NEW w
  PROVE  Left(f, h, t, e, b, i, "(", w) = Means(f, h, b + ParseAt(t, i, {")"}).next)
BY DEF Left

LEMMA LeftToParse ==
  ASSUME NEW f, NEW h, NEW t, NEW e, NEW b, NEW i, NEW w
  PROVE  Left(f, h, t, e, b, i, "s", w)
           = <<ParseAt(t, i, ParseEnds).text>> \o Means(f, h, b + ParseAt(t, i, ParseEnds).next)
BY DEF Left

ReadInv(f, c, r, t, i, d, w, k) ==
  Means(f, HeardBy(f, c), 0)
    = k \o Left(f, HeardBy(f, c), t, Eaten(f, c, r), InputBase(f, c, r, t), i, d, w)

LEMMA LineTypes ==
  ASSUME NEW r \in CharSeq, r # <<>>, NEW g, g = LineOf(r)
  PROVE  /\ g \in 1..Len(r) /\ g \in Nat /\ Len(r) \in Nat
         /\ Part(r, g, Len(r)) \in CharSeq
         /\ Start(r, g) \in CharSeq /\ Len(Start(r, g)) = g /\ Start(r, g)[g] = r[g]
         /\ Start(Start(r, g), g - 1) \in CharSeq
<1>1. Len(r) \in Nat
  BY LenProperties DEF CharSeq
<1>2. g \in 1..Len(r)
  BY FgetsIs
<1>3. g \in Nat /\ g \in 0..Len(r) /\ g \in 1..g
  BY <1>1, <1>2
<1>4. Part(r, g, Len(r)) \in CharSeq
  BY <1>2, Leftover
<1>5. /\ Start(r, g) \in CharSeq /\ Len(Start(r, g)) = g
      /\ \A j \in 1..g : Start(r, g)[j] = r[j]
  BY <1>3, StartIs
<1>6. g - 1 \in 0..Len(Start(r, g))
  BY <1>2, <1>3, <1>5
<1>7. Start(Start(r, g), g - 1) \in CharSeq
  BY <1>5, <1>6, StartIs
<1> QED BY <1>1, <1>2, <1>3, <1>4, <1>5, <1>7

(* A new text begins where the file was left.                              *)
LEMMA NextText ==
  ASSUME NEW f, NEW c, NEW r, NEW k, NEW t, NEW u, NEW i, NEW w, NEW kept,
         Eaten(f, c, r) \in Nat, InputBase(f, c, k, u) = Eaten(f, c, r),
         ReadInv(f, c, r, t, i, "fetch", w, kept)
  PROVE  ReadInv(f, c, k, u, 0, "text", w, kept)
<1>0. PICK h : h = HeardBy(f, c)
  OBVIOUS
<1> DEFINE before == Left(f, h, t, Eaten(f, c, r), InputBase(f, c, r, t), i, "fetch", w)
           after == Left(f, h, u, Eaten(f, c, k), InputBase(f, c, k, u), 0, "text", w)
<1>1. PICK e \in Nat : e = Eaten(f, c, r) /\ e + 0 = e
  OBVIOUS
<1>2. before = Onwards(f, h, Eaten(f, c, r), w)
  BY LeftToFetch
<1>3. after = Onwards(f, h, InputBase(f, c, k, u) + 0, w)
  BY LeftInText
<1>4. InputBase(f, c, k, u) + 0 = Eaten(f, c, r)
  BY <1>1
<1> HIDE DEF before, after
<1>5. before = after
  BY <1>2, <1>3, <1>4
<1> QED BY <1>0, <1>5 DEF ReadInv, before, after

(* A line of one character is empty, or not heard.                         *)
LEMMA SkippedLine ==
  ASSUME NEW c, NEW r, FileInv("load", c, r), NEW s, NEW g, NEW k, LineTakes(c, r, s, g, k), g = 1,
         NEW t, NEW i, NEW w, NEW kept, ReadInv("load", c, r, t, i, "fetch", w, kept)
  PROVE  ReadInv("load", c, k, t, i, "fetch", w, kept)
<1>1. PICK f : f = "load"
  OBVIOUS
<1> DEFINE h == HeardBy(f, c)
           before == Left(f, h, t, Eaten(f, c, r), InputBase(f, c, r, t), i, "fetch", w)
           after == Left(f, h, t, Eaten(f, c, k), InputBase(f, c, k, t), i, "fetch", w)
<1>2. /\ Len(c) \in Nat /\ s \in Nat /\ s + g <= Len(c) /\ s + Len(r) = Len(c)
  BY LineTaken
<1>8. ASSUME k = <<>> PROVE g = Len(r)
  <2>1. Len(r) \in Nat /\ g \in 1..Len(r)
    BY LineTaken
  <2>2. Len(c) - Len(k) = s + g
    BY LineTaken
  <2>3. Len(k) = 0
    BY <1>8
  <2>4. PICK l \in Nat : l = Len(r)
    BY <2>1
  <2>5. PICK n \in Nat : n = Len(c)
    BY <1>2
  <2>6. PICK m \in Nat : m = g
    BY <2>1, <2>4
  <2>7. s + l = n /\ n - 0 = s + m
    BY <1>2, <2>2, <2>3, <2>4, <2>5, <2>6
  <2>8. m = l
    BY <1>2, <2>7
  <2> QED BY <2>4, <2>6, <2>8
<1>3. /\ Eaten(f, c, r) = s /\ s <= Len(h)
      /\ s + g <= Len(h) => Eaten(f, c, k) = s + g
      /\ s + g > Len(h) => Eaten(f, c, k) = Len(h)
  BY EatenLine
<1>4. c \in CharSeq
  BY DEF LineTakes, Placed
<1>5. /\ h \in CharSeq /\ Len(h) \in Nat
      /\ \A j \in 1..Len(h) : h[j] = c[j]
      /\ \A j \in 1..Len(c) : c[j] = "n" => j <= Len(h)
      /\ DroppedBy(f, c) => Len(h) = Len(c) - 1
  BY <1>4, HeardIs
<1> HIDE DEF h
<1>6. /\ Means(f, h, Eaten(f, c, r)) = Means(f, h, Eaten(f, c, k))
      /\ Waits(f, h, Eaten(f, c, r)) = Waits(f, h, Eaten(f, c, k))
  <2>1. CASE c[s + g] = "n"
    <3>1. s + 1 \in 1..Len(c)
      BY <1>2
    <3>2. s + 1 <= Len(h)
      BY <1>5, <2>1, <3>1
    <3>3. h[s + 1] = "n" /\ Eaten(f, c, k) = s + 1
      BY <1>2, <1>3, <1>5, <2>1, <3>2
    <3>4. Same(f, h, s, s + 1)
      <4>1. s \in 0..(Len(h) + 2) /\ s + 1 \in 0..(Len(h) + 2) /\ s <= s + 1
        BY <1>2, <1>5, <3>2
      <4>2. \A j \in s..((s + 1) - 1) : j < Len(h) => h[j + 1] \in T!Blanks
        <5>1. ASSUME NEW j \in s..((s + 1) - 1) PROVE j = s
          BY <1>2
        <5> QED BY <3>3, <5>1 DEF T!Blanks, T!Eols
      <4> QED BY <1>5, <4>1, <4>2, SameMeaning
    <3> QED BY <1>3, <3>3, <3>4, SameMeans
  <2>2. CASE c[s + g] # "n"
    <3>1. DroppedBy(f, c) /\ k = <<>>
      <4>1. f # "include" /\ FileInv(f, c, r)
        BY <1>1
      <4> QED BY <1>1, <2>2, <4>1, LineCut
    <3>2. s + g = Len(c)
      <4>1. g = Len(r)
        BY <1>8, <3>1
      <4> QED BY <1>2, <4>1
    <3>3. Len(h) = s
      BY <1>2, <1>5, <3>1, <3>2
    <3>4. s + g > Len(h)
      BY <1>2, <3>3
    <3> QED BY <1>3, <3>3, <3>4
  <2> QED BY <2>1, <2>2
<1>7. before = after
  <2>1. before = Onwards(f, h, Eaten(f, c, r), w)
    BY LeftToFetch
  <2>2. after = Onwards(f, h, Eaten(f, c, k), w)
    BY LeftToFetch
  <2> HIDE DEF before, after
  <2> QED BY <1>6, <2>1, <2>2 DEF Onwards
<1> QED BY <1>1, <1>7 DEF ReadInv, h

InputTypes ==
  /\ feed \in {"load", "include", "main"}
  /\ contents \in CharSeq /\ file \in CharSeq /\ tib \in CharSeq /\ index \in 0..Len(tib)
  /\ doing \in {"fetch", "text", "done", "'", "\\", "(", "s"}
  /\ restart \in BOOLEAN /\ rejected \in BOOLEAN /\ swallowed \in BOOLEAN
  /\ read \in NameWords

(* What was read, and what is meant by the rest, is what the file means.   *)
InputInv ==
  /\ InputTypes
  /\ ~ rejected => FileInv(feed, contents, file)
  /\ ~ rejected /\ doing \notin {"fetch", "done"} => TextInv(feed, contents, file, tib)
  /\ rejected => feed # "include" /\ TooLongFor(feed, contents)
  /\ doing = "done" => rejected \/ file = <<>>
  /\ restart => doing \in {"text", "fetch", "done"}
  /\ ~ rejected /\ ~ swallowed
       => ReadInv(feed, contents, file, tib, index, doing, restart, read)

LEMMA InputInitially == T!Init => InputInv
<1> SUFFICES ASSUME T!Init PROVE InputInv
  OBVIOUS
<1>1. file \in CharSeq /\ contents = file /\ Len(file) \in Nat
  BY InputAssumption, LenProperties DEF T!Init, T!InputAssumption, CharSeq
<1>2. <<>> \in CharSeq /\ <<>> \in NameWords /\ Len(<<>>) = 0
  BY DEF CharSeq, NameWords
<1>3. InputTypes
  <2>1. tib = <<>> /\ index = 0 /\ 0 \in 0..Len(<<>>)
    BY <1>2 DEF T!Init
  <2>2. index \in 0..Len(tib) /\ tib \in CharSeq
    BY <1>2, <2>1
  <2> QED BY <1>1, <1>2, <2>2 DEF T!Init, InputTypes
<1>4. FileInv(feed, contents, file)
  <2>1. Len(contents) - Len(file) = 0
    BY <1>1
  <2>2. Placed(contents, file)
    BY <1>1, <2>1 DEF Placed
  <2>3. AtLine(feed, contents, file) /\ Fitting(feed, contents, file)
    BY <1>1, <2>1 DEF AtLine, Fitting, LineStart
  <2> QED BY <2>2, <2>3 DEF FileInv
<1>5. ReadInv(feed, contents, file, tib, index, "fetch", FALSE, <<>>)
  <2>1. PICK h : h = HeardBy(feed, contents)
    OBVIOUS
  <2>2. h \in CharSeq /\ Len(h) \in Nat
    BY <1>1, <2>1, HeardIs
  <2>3. Eaten(feed, contents, file) = 0
    BY <1>1, <2>1, <2>2 DEF Eaten
  <2>0. PICK w : w = FALSE
    OBVIOUS
  <2>4. Left(feed, h, tib, Eaten(feed, contents, file), InputBase(feed, contents, file, tib),
             index, "fetch", w) = Onwards(feed, h, Eaten(feed, contents, file), w)
    BY LeftToFetch
  <2>5. Means(feed, h, 0) \in NameWords
    BY <2>2, MeansTyped
  <2>6. <<>> \o Means(feed, h, 0) = Means(feed, h, 0)
    BY <2>5, ConcatEmptySeq DEF NameWords
  <2> QED BY <2>0, <2>1, <2>3, <2>4, <2>6 DEF ReadInv, Onwards
<1>6. read = <<>> /\ doing = "fetch" /\ restart = FALSE /\ rejected = FALSE
  BY DEF T!Init
<1> QED BY <1>3, <1>4, <1>5, <1>6 DEF InputInv

(* The next line of the file, as the model takes it.                       *)
LEMMA FgetsTakes ==
  ASSUME InputInv, file # <<>>, ~ rejected
  PROVE  LineTakes(contents, file, Len(contents) - Len(file), LineOf(file),
               Part(file, LineOf(file), Len(file)))
BY DEF InputInv, FileInv, LineTakes

LEMMA LineIs ==
  /\ T!Fgets = LineOf(file)
  /\ SubSeq(file, 1, T!Fgets) = Start(file, LineOf(file))
  /\ SubSeq(file, T!Fgets + 1, Len(file)) = Part(file, LineOf(file), Len(file))
BY DEF T!Fgets, LineOf, Start, Part

LEMMA LoadLineKeeps == InputInv /\ T!LoadLine => InputInv'
<1> SUFFICES ASSUME InputInv, T!LoadLine PROVE InputInv'
  OBVIOUS
<1>1. PICK g : g = LineOf(file)
  OBVIOUS
<1>2. PICK k : k = Part(file, g, Len(file))
  OBVIOUS
<1>3. PICK s : s = Len(contents) - Len(file)
  OBVIOUS
<1>4. /\ doing = "fetch" /\ feed = "load" /\ file # <<>> /\ file' = k
      /\ UNCHANGED <<feed, contents, restart, read, swallowed>>
  BY <1>1, <1>2, LineIs DEF T!LoadLine
<1>5. /\ g \in 1..Len(file) /\ g \in Nat /\ Len(file) \in Nat /\ k \in CharSeq
      /\ Start(file, g) \in CharSeq /\ Len(Start(file, g)) = g /\ Start(file, g)[g] = file[g]
      /\ Start(Start(file, g), g - 1) \in CharSeq
  BY <1>1, <1>2, <1>4, LineTypes DEF InputInv, InputTypes
<1>6. \/ g = 1 /\ UNCHANGED <<tib, index, doing, rejected>>
      \/ /\ g > 1 /\ file[g] = "n" /\ tib' = Start(Start(file, g), g - 1) /\ index' = 0
         /\ doing' = "text" /\ UNCHANGED rejected
      \/ /\ g > 1 /\ file[g] # "n" /\ rejected' = TRUE /\ doing' = "done"
         /\ UNCHANGED <<tib, index>>
  BY <1>1, <1>5, LineIs DEF T!LoadLine, T!Ended, T!PushTib, T!Stripped, T!textVars, Start
<1>7. InputTypes'
  <2>1. 0 \in 0..Len(tib')
    BY <1>5, <1>6, LenProperties DEF InputInv, InputTypes, CharSeq
  <2> QED BY <1>4, <1>5, <1>6, <2>1 DEF InputInv, InputTypes
<1>8. CASE rejected
  BY <1>4, <1>6, <1>7, <1>8 DEF InputInv
<1>9. CASE ~ rejected
  <2>1. /\ FileInv(feed, contents, file) /\ LineTakes(contents, file, s, g, k)
        /\ file[g] = contents[s + g]
    <3>1. LineTakes(contents, file, s, g, k)
      BY <1>1, <1>2, <1>3, <1>4, <1>9, FgetsTakes
    <3> QED BY <1>9, <3>1, LineTaken DEF InputInv
  <2>2. FileInv("load", contents, file) /\ "load" # "include"
    BY <1>4, <2>1
  <2>3. CASE g = 1 /\ UNCHANGED <<tib, index, doing, rejected>>
    <3>1. FileInv("load", contents, k)
      BY <2>1, <2>2, <2>3, LineWhole, LineCut
    <3>2. ASSUME ~ swallowed
          PROVE  ReadInv("load", contents, k, tib, index, "fetch", restart, read)
      <4>1. ReadInv("load", contents, file, tib, index, "fetch", restart, read)
        BY <1>4, <1>9, <3>2 DEF InputInv
      <4> QED BY <2>1, <2>2, <2>3, <4>1, SkippedLine
    <3> QED BY <1>4, <1>7, <1>9, <2>3, <3>1, <3>2 DEF InputInv
  <2>4. CASE /\ g > 1 /\ file[g] = "n" /\ tib' = Start(Start(file, g), g - 1) /\ index' = 0
             /\ doing' = "text" /\ UNCHANGED rejected
    <3>1. FileInv("load", contents, k)
      BY <2>1, <2>2, <2>4, LineWhole
    <3>2. TextInv("load", contents, k, tib') /\ InputBase("load", contents, k, tib') = s
      <4>1. PICK t : t = Start(Start(file, g), g - 1) /\ t = tib'
        BY <2>4
      <4>2. contents[s + g] = "n"
        BY <2>1, <2>4
      <4>3. TextInv("load", contents, k, t)
        BY <2>1, <4>1, <4>2, LineIsStripped
      <4>4. InputBase("load", contents, k, t) = s
        BY <2>1, <4>1, <4>2, LineIsStripped
      <4> QED BY <4>1, <4>3, <4>4
    <3>3. ASSUME ~ swallowed
          PROVE  ReadInv("load", contents, k, tib', 0, "text", restart, read)
      <4>1. ReadInv("load", contents, file, tib, index, "fetch", restart, read)
        BY <1>4, <1>9, <3>3 DEF InputInv
      <4>2. Eaten("load", contents, file) = s /\ s \in Nat
        <5>1. Eaten("load", contents, file) = s
          BY <2>1, EatenStart
        <5>2. s \in Nat
          BY <2>1, LineTaken
        <5> QED BY <5>1, <5>2
      <4> QED BY <3>2, <4>1, <4>2, NextText
    <3> QED BY <1>4, <1>7, <1>9, <2>4, <3>1, <3>2, <3>3 DEF InputInv
  <2>5. CASE g > 1 /\ file[g] # "n" /\ rejected' = TRUE /\ doing' = "done"
    <3>1. TooLongFor("load", contents)
      <4>1. ~ ("load" = "load" /\ g = 1)
        BY <1>5, <2>5
      <4> QED BY <2>1, <2>2, <2>5, <4>1, LineCut
    <3> QED BY <1>4, <1>7, <2>5, <3>1 DEF InputInv
  <2> QED BY <1>6, <2>3, <2>4, <2>5
<1> QED BY <1>8, <1>9

LEMMA MainLineKeeps == InputInv /\ T!MainLine => InputInv'
<1> SUFFICES ASSUME InputInv, T!MainLine PROVE InputInv'
  OBVIOUS
<1>1. PICK g : g = LineOf(file)
  OBVIOUS
<1>2. PICK k : k = Part(file, g, Len(file))
  OBVIOUS
<1>3. PICK s : s = Len(contents) - Len(file)
  OBVIOUS
<1>4. /\ doing = "fetch" /\ feed = "main" /\ file # <<>> /\ file' = k
      /\ UNCHANGED <<feed, contents, read, swallowed>>
  BY <1>1, <1>2, LineIs DEF T!MainLine
<1>5. /\ g \in 1..Len(file) /\ g \in Nat /\ Len(file) \in Nat /\ k \in CharSeq
      /\ Start(file, g) \in CharSeq /\ Len(Start(file, g)) = g /\ Start(file, g)[g] = file[g]
  BY <1>1, <1>2, <1>4, LineTypes DEF InputInv, InputTypes
<1>6. \/ /\ file[g] = "n" /\ tib' = Start(file, g) /\ index' = 0
         /\ doing' = "text" /\ UNCHANGED <<restart, rejected>>
      \/ /\ file[g] # "n" /\ rejected' = TRUE /\ restart' = FALSE
         /\ UNCHANGED <<tib, index, doing>>
  BY <1>1, <1>5, LineIs DEF T!MainLine, T!Ended, T!PushTib, T!textVars
<1>7. InputTypes'
  <2>1. 0 \in 0..Len(tib')
    BY <1>5, <1>6, LenProperties DEF InputInv, InputTypes, CharSeq
  <2> QED BY <1>4, <1>5, <1>6, <2>1 DEF InputInv, InputTypes
<1>8. CASE rejected
  BY <1>4, <1>6, <1>7, <1>8 DEF InputInv
<1>9. CASE ~ rejected
  <2>1. /\ FileInv(feed, contents, file) /\ LineTakes(contents, file, s, g, k)
        /\ file[g] = contents[s + g]
    <3>1. LineTakes(contents, file, s, g, k)
      BY <1>1, <1>2, <1>3, <1>4, <1>9, FgetsTakes
    <3> QED BY <1>9, <3>1, LineTaken DEF InputInv
  <2>2. FileInv("main", contents, file) /\ "main" # "include" /\ "main" # "load"
    BY <1>4, <2>1
  <2>3. CASE /\ file[g] = "n" /\ tib' = Start(file, g) /\ index' = 0
             /\ doing' = "text" /\ UNCHANGED <<restart, rejected>>
    <3>1. FileInv("main", contents, k)
      BY <2>1, <2>2, <2>3, LineWhole
    <3>2. TextInv("main", contents, k, tib') /\ InputBase("main", contents, k, tib') = s
      <4>1. contents[s + g] = "n"
        BY <2>1, <2>3
      <4>2. /\ TextInv("main", contents, k, Start(file, g))
            /\ InputBase("main", contents, k, Start(file, g)) = s
        BY <2>1, <4>1, LineIsPiece
      <4> QED BY <2>3, <4>2
    <3>3. ASSUME ~ swallowed
          PROVE  ReadInv("main", contents, k, tib', 0, "text", restart, read)
      <4>1. ReadInv("main", contents, file, tib, index, "fetch", restart, read)
        BY <1>4, <1>9, <3>3 DEF InputInv
      <4>2. Eaten("main", contents, file) = s /\ s \in Nat
        <5>1. Eaten("main", contents, file) = s
          BY <2>1, EatenStart
        <5>2. s \in Nat
          BY <2>1, LineTaken
        <5> QED BY <5>1, <5>2
      <4> QED BY <3>2, <4>1, <4>2, NextText
    <3> QED BY <1>4, <1>7, <1>9, <2>3, <3>1, <3>2, <3>3 DEF InputInv
  <2>4. CASE file[g] # "n" /\ rejected' = TRUE /\ restart' = FALSE /\ UNCHANGED <<tib, index, doing>>
    <3>1. TooLongFor("main", contents)
      BY <2>1, <2>2, <2>4, LineCut
    <3> QED BY <1>4, <1>7, <2>4, <3>1 DEF InputInv
  <2> QED BY <1>6, <2>3, <2>4
<1> QED BY <1>8, <1>9

LEMMA IncludeFileKeeps == InputInv /\ T!IncludeFile => InputInv'
<1> SUFFICES ASSUME InputInv, T!IncludeFile PROVE InputInv'
  OBVIOUS
<1>1. /\ doing = "fetch" /\ feed = "include" /\ file # <<>>
      /\ tib' = file /\ index' = 0 /\ file' = <<>> /\ doing' = "text"
      /\ UNCHANGED <<feed, contents, restart, read, rejected, swallowed>>
  BY DEF T!IncludeFile, T!PushTib
<1>2. ~ rejected
  BY <1>1 DEF InputInv
<1>3. /\ TextInv("include", contents, <<>>, file)
      /\ InputBase("include", contents, <<>>, file) = 0
      /\ FileInv("include", contents, <<>>) /\ file = contents
      /\ HeardBy("include", contents) = contents
  <2>1. FileInv("include", contents, file)
    BY <1>1, <1>2 DEF InputInv
  <2> QED BY <1>1, <2>1, FileIsPiece
<1>4. InputTypes'
  <2>1. <<>> \in CharSeq
    BY DEF CharSeq
  <2>2. 0 \in 0..Len(file)
    BY LenProperties DEF InputInv, InputTypes, CharSeq
  <2> QED BY <1>1, <2>1, <2>2 DEF InputInv, InputTypes
<1>5. ASSUME ~ swallowed
      PROVE  ReadInv("include", contents, <<>>, file, 0, "text", restart, read)
  <2>1. ReadInv("include", contents, file, tib, index, "fetch", restart, read)
    BY <1>1, <1>2, <1>5 DEF InputInv
  <2>2. Len(contents) \in Nat
    BY LenProperties DEF InputInv, InputTypes, CharSeq
  <2>3. Eaten("include", contents, file) = 0
    BY <1>3, <2>2 DEF Eaten
  <2> QED BY <1>3, <2>1, <2>3, NextText
<1> QED BY <1>1, <1>2, <1>3, <1>4, <1>5 DEF InputInv

LEMMA EndOfFileKeeps == InputInv /\ T!EndOfFile => InputInv'
<1> SUFFICES ASSUME InputInv, T!EndOfFile PROVE InputInv'
  OBVIOUS
<1>1. /\ doing = "fetch" /\ file = <<>> /\ tib' = <<>> /\ index' = 0 /\ doing' = "done"
      /\ UNCHANGED <<feed, file, contents, restart, read, rejected, swallowed>>
  BY DEF T!EndOfFile, T!PushTib
<1>2. InputTypes'
  <2>1. <<>> \in CharSeq /\ 0 \in 0..Len(<<>>)
    BY DEF CharSeq
  <2> QED BY <1>1, <2>1 DEF InputInv, InputTypes
<1>3. ASSUME ReadInv(feed, contents, file, tib, index, "fetch", restart, read)
      PROVE  ReadInv(feed, contents, file, <<>>, 0, "done", restart, read)
  <2>1. PICK h : h = HeardBy(feed, contents)
    OBVIOUS
  <2>2. PICK e : e = Eaten(feed, contents, file)
    OBVIOUS
  <2>3. Left(feed, h, tib, e, InputBase(feed, contents, file, tib), index, "fetch", restart)
          = Onwards(feed, h, e, restart)
    BY LeftToFetch
  <2>4. Left(feed, h, <<>>, e, InputBase(feed, contents, file, <<>>), 0, "done", restart)
          = Onwards(feed, h, e, restart)
    BY LeftToFetch
  <2> QED BY <1>3, <2>1, <2>2, <2>3, <2>4 DEF ReadInv
<1> QED BY <1>1, <1>2, <1>3 DEF InputInv

LEMMA WaitsTyped ==
  ASSUME NEW f, NEW h \in CharSeq, NEW i \in 0..Len(h)
  PROVE  Waits(f, h, i) \in NameWords
<1>1. Len(h) \in Nat /\ i \in Nat
  BY LenProperties DEF CharSeq
<1>2. PICK from : from = NameFrom(h, i)
  OBVIOUS
<1>3. /\ from \in 0..Len(h) /\ NameTo(h, from) \in from..Len(h)
      /\ NameAt(h, from) \in CharSeq
  BY <1>1, <1>2, NameBounds
<1>4. PICK m : m = Meaning(f, h)
  OBVIOUS
<1>5. m[NameTo(h, from)] \in NameWords
  <2>1. NameTo(h, from) \in 0..(Len(h) + 2)
    BY <1>1, <1>3
  <2> QED BY <1>4, <2>1, MeaningTyped
<1>6. <<>> \in NameWords
  BY DEF NameWords
<1>7. <<NameAt(h, from)>> \o m[NameTo(h, from)] \in NameWords
  <2>1. <<NameAt(h, from)>> \in NameWords
    BY <1>3 DEF NameWords
  <2> QED BY <1>5, <2>1, ConcatProperties DEF NameWords
<1>8. Waits(f, h, i) = WaitFrom(h, m, from)
  BY <1>2, <1>4 DEF Waits
<1> QED BY <1>6, <1>7, <1>8 DEF WaitFrom

(* What is read first, and the rest. *)
LEMMA ReadMore ==
  ASSUME NEW k \in NameWords, NEW x \in CharSeq, NEW rest \in NameWords
  PROVE  k \o (<<x>> \o rest) = Append(k, x) \o rest /\ Append(k, x) \in NameWords
<1>1. <<x>> \in NameWords
  BY DEF NameWords
<1>2. Append(k, x) = k \o <<x>>
  BY AppendIsConcat DEF NameWords
<1>3. (k \o <<x>>) \o rest = k \o (<<x>> \o rest)
  BY <1>1, ConcatAssociative DEF NameWords
<1>4. Append(k, x) \in NameWords
  BY AppendProperties DEF NameWords
<1> QED BY <1>2, <1>3, <1>4

(* The steps of the interpreter, and what is left to mean.                 *)
LEMMA LeftRestarted ==
  ASSUME NEW f, NEW h, NEW t, NEW e, NEW b, NEW i, NEW w, NEW v
  PROVE  w = TRUE => Left(f, h, t, e, b, i, "text", w) = Left(f, h, t, e, b, i, "'", v)
<1>1. Left(f, h, t, e, b, i, "text", w) = Onwards(f, h, b + i, w)
  BY LeftInText
<1>2. Left(f, h, t, e, b, i, "'", v) = Waits(f, h, b + i)
  BY LeftToTick
<1> QED BY <1>1, <1>2 DEF Onwards

(* The step to the next text, from where d is done. *)
Emptied(f, h, t, b, i, n, d, w, v) ==
  Left(f, h, t, EndOfPiece(f, t, b), b, i, d, w) = Left(f, h, t, EndOfPiece(f, t, b), b, n, "fetch", v)

LEMMA LeftNoName ==
  ASSUME NEW f, NEW h, NEW t, NEW b, Piece(f, h, t, b), NEW i \in 0..Len(t),
         NameAt(t, NameFrom(t, i)) = <<>>, NEW n, NEW w
  PROVE  w = FALSE => Emptied(f, h, t, b, i, n, "text", w, w)
<1>1. PICK e : e = EndOfPiece(f, t, b)
  OBVIOUS
<1>2. Same(f, h, b + i, e)
  BY <1>1, PieceNoName
<1>3. Means(f, h, b + i) = Means(f, h, e)
  BY <1>2, SameMeans
<1>4. Left(f, h, t, e, b, i, "text", w) = Onwards(f, h, b + i, w)
  BY LeftInText
<1>5. Left(f, h, t, e, b, n, "fetch", w) = Onwards(f, h, e, w)
  BY LeftToFetch
<1> QED BY <1>1, <1>3, <1>4, <1>5 DEF Onwards, Emptied

LEMMA LeftNoTick ==
  ASSUME NEW f, NEW h, NEW t, NEW b, Piece(f, h, t, b), NEW i \in 0..Len(t),
         NameAt(t, NameFrom(t, i)) = <<>>, NEW n, NEW w, NEW v
  PROVE  v = TRUE => Emptied(f, h, t, b, i, n, "'", w, v)
<1>1. PICK e : e = EndOfPiece(f, t, b)
  OBVIOUS
<1>2. Same(f, h, b + i, e)
  BY <1>1, PieceNoName
<1>3. Waits(f, h, b + i) = Waits(f, h, e)
  BY <1>2, SameMeans
<1>4. Left(f, h, t, e, b, n, "fetch", v) = Onwards(f, h, e, v)
  BY LeftToFetch
<1>5. Left(f, h, t, e, b, i, "'", w) = Waits(f, h, b + i)
  BY LeftToTick
<1> QED BY <1>1, <1>3, <1>4, <1>5 DEF Onwards, Emptied

(* What is done behind a name. *)
DoingAt(name) == IF name \in Parsing THEN name[1] ELSE "text"

(* The step over a name. *)
Gone(f, h, t, e, b, i, n, name, w) ==
  /\ Left(f, h, t, e, b, n, DoingAt(name), w) \in NameWords
  /\ Left(f, h, t, e, b, i, "text", w)
       = IF name \in {<<"\\">>, <<"(">>} THEN Left(f, h, t, e, b, n, DoingAt(name), w)
         ELSE <<name>> \o Left(f, h, t, e, b, n, DoingAt(name), w)

LEMMA LeftName ==
  ASSUME NEW f, NEW h, NEW t, NEW b, NEW i, NEW from, NEW to, Named(f, h, t, b, i, from, to),
         NEW n, n = NextAt(t, to), NEW name, name = NameAt(t, from),
         ~ (name \in {<<"\\">>, <<"s">>} /\ TookEolAt(t, n)), NEW e, NEW w
  PROVE  w = FALSE => Gone(f, h, t, e, b, i, n, name, w)
<1>1. /\ h \in CharSeq /\ t \in CharSeq /\ Len(h) \in Nat /\ Len(t) \in Nat /\ b \in Nat
      /\ b + Len(t) <= Len(h) /\ i \in 0..Len(t) /\ to \in (i + 1)..Len(t) /\ n \in to..Len(t)
      /\ name \in CharSeq
  BY NamedFacts
<1>2. n \in 0..Len(t)
  BY <1>1
<1>3. \A x \in 0..Len(t) : b + x \in 0..Len(h) /\ b + x \in 0..(Len(h) + 2)
  BY <1>1
<1>4. \A x \in 0..Len(t) : Means(f, h, b + x) \in NameWords
  BY <1>1, <1>3, MeansTyped
<1>5. w = FALSE => Left(f, h, t, e, b, i, "text", w) = Means(f, h, b + i)
  <2>1. Left(f, h, t, e, b, i, "text", w) = Onwards(f, h, b + i, w)
    BY LeftInText
  <2> QED BY <2>1 DEF Onwards
<1>6. ASSUME name \notin Parsing
      PROVE  w = FALSE => /\ Left(f, h, t, e, b, n, "text", w) \in NameWords
                          /\ Left(f, h, t, e, b, i, "text", w) = <<name>> \o Left(f, h, t, e, b, n, "text", w)
  <2>1. Left(f, h, t, e, b, n, "text", w) = Onwards(f, h, b + n, w)
    BY LeftInText
  <2>2. w = FALSE => Left(f, h, t, e, b, n, "text", w) = Means(f, h, b + n)
    BY <2>1 DEF Onwards
  <2>3. Means(f, h, b + i) = <<name>> \o Means(f, h, b + n)
    BY <1>6, MeansName
  <2> QED BY <1>2, <1>4, <1>5, <2>2, <2>3
<1>7. ASSUME name = <<"'">>
      PROVE  w = FALSE => /\ Left(f, h, t, e, b, n, "'", w) \in NameWords
                          /\ Left(f, h, t, e, b, i, "text", w) = <<name>> \o Left(f, h, t, e, b, n, "'", w)
  <2>1. Left(f, h, t, e, b, n, "'", w) = Waits(f, h, b + n)
    BY LeftToTick
  <2>2. Means(f, h, b + i) = <<name>> \o Waits(f, h, b + n)
    <3>1. NameAt(t, from) = <<"'">>
      BY <1>7
    <3>2. Means(f, h, b + i) = <<NameAt(t, from)>> \o Waits(f, h, b + NextAt(t, to))
      BY <3>1, MeansTick
    <3> QED BY <3>2
  <2>3. Waits(f, h, b + n) \in NameWords
    BY <1>1, <1>2, <1>3, WaitsTyped
  <2> QED BY <1>5, <2>1, <2>2, <2>3
<1>8. ASSUME name = <<"\\">>
      PROVE  w = FALSE => /\ Left(f, h, t, e, b, n, "\\", w) \in NameWords
                          /\ Left(f, h, t, e, b, i, "text", w) = Left(f, h, t, e, b, n, "\\", w)
  <2>1. Left(f, h, t, e, b, n, "\\", w) = Means(f, h, b + OverEolAt(t, T!Upto(t, n, T!Eols)))
    BY LeftToBackslash
  <2>2. ~ TookEolAt(t, n)
    BY <1>8
  <2>3. /\ Means(f, h, b + i) = Means(f, h, b + OverEolAt(t, T!Upto(t, n, T!Eols)))
        /\ OverEolAt(t, T!Upto(t, n, T!Eols)) \in 0..Len(t)
    <3>1. NameAt(t, from) = <<"\\">>
      BY <1>8
    <3> QED BY <2>2, <3>1, MeansBackslash
  <2> QED BY <1>4, <1>5, <2>1, <2>3
<1>9. ASSUME name = <<"(">>
      PROVE  w = FALSE => /\ Left(f, h, t, e, b, n, "(", w) \in NameWords
                          /\ Left(f, h, t, e, b, i, "text", w) = Left(f, h, t, e, b, n, "(", w)
  <2>1. Left(f, h, t, e, b, n, "(", w) = Means(f, h, b + ParseAt(t, n, {")"}).next)
    BY LeftToParenthesis
  <2>2. Means(f, h, b + i) = Means(f, h, b + ParseAt(t, n, {")"}).next)
    <3>1. NameAt(t, from) = <<"(">>
      BY <1>9
    <3> QED BY <3>1, MeansParenthesis
  <2>3. Means(f, h, b + i) \in NameWords
    BY <1>1, <1>4
  <2> QED BY <1>5, <2>1, <2>2, <2>3
<1>10. ASSUME name = <<"s">>
       PROVE  w = FALSE => /\ Left(f, h, t, e, b, n, "s", w) \in NameWords
                           /\ Left(f, h, t, e, b, i, "text", w) = <<name>> \o Left(f, h, t, e, b, n, "s", w)
  <2>1. PICK second : second = ParseAt(t, n, ParseEnds).text
    OBVIOUS
  <2>2. PICK next : next = ParseAt(t, n, ParseEnds).next
    OBVIOUS
  <2>3. Left(f, h, t, e, b, n, "s", w) = <<second>> \o Means(f, h, b + next)
    BY <2>1, <2>2, LeftToParse
  <2>4. second \in CharSeq /\ next \in n..Len(t)
    BY <1>1, <1>2, <2>1, <2>2, ParseBounds
  <2>5. next \in 0..Len(t)
    BY <1>2, <2>4
  <2>6. ~ TookEolAt(t, n)
    BY <1>10
  <2>7. Means(f, h, b + i) = <<name, second>> \o Means(f, h, b + next)
    <3>1. NameAt(t, from) = <<"s">>
      BY <1>10
    <3>2. Means(f, h, b + i)
            = <<NameAt(t, from), ParseAt(t, n, ParseEnds).text>>
                \o Means(f, h, b + ParseAt(t, n, ParseEnds).next)
      BY <2>6, <3>1, MeansParse
    <3> QED BY <2>1, <2>2, <3>2
  <2>8. Means(f, h, b + next) \in NameWords
    BY <1>4, <2>5
  <2>9. <<name>> \o (<<second>> \o Means(f, h, b + next)) = <<name, second>> \o Means(f, h, b + next)
    BY <1>1, <2>4, <2>8, PairOf
  <2>10. <<second>> \in NameWords
    BY <2>4 DEF NameWords
  <2>11. <<second>> \o Means(f, h, b + next) \in NameWords
    BY <2>8, <2>10, ConcatProperties DEF NameWords
  <2> QED BY <1>5, <2>3, <2>7, <2>9, <2>11
<1> HIDE <1>1, <1>2, <1>3, <1>4, <1>5
<1>11. CASE name \notin Parsing
  <2>1. DoingAt(name) = "text" /\ name \notin {<<"\\">>, <<"(">>}
    BY <1>11 DEF DoingAt, Parsing
  <2> QED BY <1>6, <1>11, <2>1 DEF Gone
<1>12. CASE name = <<"'">>
  <2>1. DoingAt(name) = "'" /\ name \notin {<<"\\">>, <<"(">>}
    BY <1>12 DEF DoingAt, Parsing
  <2> QED BY <1>7, <1>12, <2>1 DEF Gone
<1>13. CASE name = <<"\\">>
  <2>1. DoingAt(name) = "\\" /\ name \in {<<"\\">>, <<"(">>}
    BY <1>13 DEF DoingAt, Parsing
  <2> QED BY <1>8, <1>13, <2>1 DEF Gone
<1>14. CASE name = <<"(">>
  <2>1. DoingAt(name) = "(" /\ name \in {<<"\\">>, <<"(">>}
    BY <1>14 DEF DoingAt, Parsing
  <2> QED BY <1>9, <1>14, <2>1 DEF Gone
<1>15. CASE name = <<"s">>
  <2>1. DoingAt(name) = "s" /\ name \notin {<<"\\">>, <<"(">>}
    BY <1>15 DEF DoingAt, Parsing
  <2> QED BY <1>10, <1>15, <2>1 DEF Gone
<1> QED BY <1>11, <1>12, <1>13, <1>14, <1>15 DEF Parsing

LEMMA ReadOn ==
  ASSUME NEW f, NEW c, NEW r, NEW t, NEW i, NEW d, NEW w, NEW k, ReadInv(f, c, r, t, i, d, w, k),
         NEW j, NEW q, NEW v,
         Left(f, HeardBy(f, c), t, Eaten(f, c, r), InputBase(f, c, r, t), i, d, w)
           = Left(f, HeardBy(f, c), t, Eaten(f, c, r), InputBase(f, c, r, t), j, q, v)
  PROVE  ReadInv(f, c, r, t, j, q, v, k)
BY DEF ReadInv

LEMMA ReadNext ==
  ASSUME NEW f, NEW c, NEW r, NEW t, NEW i, NEW d, NEW w, NEW k \in NameWords,
         ReadInv(f, c, r, t, i, d, w, k), NEW j, NEW q, NEW v, NEW x \in CharSeq, NEW rest \in NameWords,
         rest = Left(f, HeardBy(f, c), t, Eaten(f, c, r), InputBase(f, c, r, t), j, q, v),
         Left(f, HeardBy(f, c), t, Eaten(f, c, r), InputBase(f, c, r, t), i, d, w) = <<x>> \o rest
  PROVE  ReadInv(f, c, r, t, j, q, v, Append(k, x))
<1>1. Means(f, HeardBy(f, c), 0) = k \o (<<x>> \o rest)
  BY DEF ReadInv
<1>2. k \o (<<x>> \o rest) = Append(k, x) \o rest
  BY ReadMore
<1> QED BY <1>1, <1>2 DEF ReadInv

LEMMA NextBounds ==
  ASSUME NEW t \in CharSeq, NEW i \in 0..Len(t), NEW from, from = NameFrom(t, i)
  PROVE  NextAt(t, NameTo(t, from)) \in 0..Len(t) /\ NameAt(t, from) \in CharSeq
<1>1. Len(t) \in Nat /\ i \in Nat
  BY LenProperties DEF CharSeq
<1>2. /\ from \in 0..Len(t) /\ NameTo(t, from) \in from..Len(t) /\ NameAt(t, from) \in CharSeq
  BY <1>1, NameBounds
<1>3. PICK to \in 0..Len(t) : to = NameTo(t, from)
  BY <1>1, <1>2
<1>4. NextAt(t, to) \in 0..Len(t)
  BY <1>1, <1>3 DEF NextAt
<1> QED BY <1>2, <1>3, <1>4

LEMMA DoingTypes ==
  ASSUME NEW name
  PROVE  /\ DoingAt(name) \in {"text", "'", "\\", "(", "s"}
         /\ name \in {<<"\\">>, <<"(">>} => name \in Parsing
<1>1. ASSUME name \in Parsing PROVE name[1] \in {"'", "\\", "(", "s"}
  BY <1>1 DEF Parsing
<1> QED BY <1>1 DEF DoingAt, Parsing

LEMMA NameIs ==
  /\ T!GetWord0.word = NameAt(tib, NameFrom(tib, index))
  /\ T!GetWord0.next = NextAt(tib, NameTo(tib, NameFrom(tib, index)))
BY DEF T!GetWord0, NameAt, NameTo, NameFrom, NextAt, Nonblank

(* A step in the text. *)
LEMMA TextKeeps ==
  /\ InputInv /\ doing \notin {"fetch", "done"}
  /\ UNCHANGED <<feed, contents, file, tib, rejected>>
  /\ InputTypes' /\ doing' # "done" /\ (restart' => doing' \in {"text", "fetch"})
  /\ ~ rejected /\ ~ swallowed'
       => ReadInv(feed, contents, file, tib, index', doing', restart', read')
  => InputInv'
BY DEF InputInv

LEMMA InterpretKeeps == InputInv /\ T!Interpret => InputInv'
<1> SUFFICES ASSUME InputInv, T!Interpret PROVE InputInv'
  OBVIOUS
<1>1. PICK from : from = NameFrom(tib, index)
  OBVIOUS
<1>2. PICK to : to = NameTo(tib, from)
  OBVIOUS
<1>3. PICK n : n = NextAt(tib, to)
  OBVIOUS
<1>4. PICK name : name = NameAt(tib, from)
  OBVIOUS
<1>5. T!GetWord0.word = name /\ T!GetWord0.next = n
  BY <1>1, <1>2, <1>3, <1>4, NameIs
<1>6. doing = "text" /\ UNCHANGED <<feed, contents, file, tib, rejected>>
  BY DEF T!Interpret
<1>7. \/ restart /\ restart' = FALSE /\ doing' = "'" /\ UNCHANGED <<index, read, swallowed>>
      \/ /\ ~ restart /\ name = <<>> /\ doing' = "fetch" /\ index' = n
         /\ UNCHANGED <<restart, read, swallowed>>
      \/ /\ ~ restart /\ name # <<>>
         /\ read' = IF name \in {<<"\\">>, <<"(">>} THEN read ELSE Append(read, name)
         /\ doing' = DoingAt(name)
         /\ swallowed' = (swallowed \/ (name \in {<<"\\">>, <<"s">>} /\ TookEolAt(tib, n)))
         /\ index' = n /\ UNCHANGED restart
  BY <1>5 DEF T!Interpret, T!Restarted, T!OutOfText, T!Parsers, Parsing, DoingAt, T!TookEol, TookEolAt
<1>8. InputTypes
  BY DEF InputInv
<1>9. n \in 0..Len(tib) /\ name \in CharSeq
  BY <1>1, <1>2, <1>3, <1>4, <1>8, NextBounds DEF InputTypes
<1>10. InputTypes'
  <2>1. DoingAt(name) \in {"text", "'", "\\", "(", "s"}
    BY DoingTypes
  <2>2. Append(read, name) \in NameWords
    BY <1>8, <1>9, AppendProperties DEF InputTypes, NameWords
  <2>3. index' \in 0..Len(tib) /\ read' \in NameWords /\ restart' \in BOOLEAN
        /\ swallowed' \in BOOLEAN
        /\ doing' \in {"fetch", "text", "'", "\\", "(", "s"}
    BY <1>7, <1>8, <1>9, <2>1, <2>2 DEF InputTypes
  <2> QED BY <1>6, <1>8, <2>3 DEF InputTypes
<1>11. ASSUME ~ rejected, ~ swallowed'
       PROVE  ReadInv(feed, contents, file, tib, index', doing', restart', read')
  <2>1. ReadInv(feed, contents, file, tib, index, "text", restart, read)
    BY <1>6, <1>7, <1>11 DEF InputInv
  <2>2. PICK h : h = HeardBy(feed, contents)
    OBVIOUS
  <2>3. PICK e : e = Eaten(feed, contents, file)
    OBVIOUS
  <2>4. PICK b : b = InputBase(feed, contents, file, tib)
    OBVIOUS
  <2>5. Piece(feed, h, tib, b) /\ e = EndOfPiece(feed, tib, b)
    <3>1. TextInv(feed, contents, file, tib)
      BY <1>6, <1>11 DEF InputInv
    <3>2. e = EndOfPiece(feed, tib, b)
      BY <1>8, <2>3, <2>4, <3>1, EatenText DEF InputTypes
    <3> QED BY <2>2, <2>4, <3>1, <3>2 DEF TextInv
  <2>6. index \in 0..Len(tib) /\ read \in NameWords
    BY <1>8 DEF InputTypes
  <2>7. CASE restart /\ restart' = FALSE /\ doing' = "'" /\ UNCHANGED <<index, read, swallowed>>
    <3>1. restart = TRUE
      BY <1>8, <2>7 DEF InputTypes
    <3>2. restart = TRUE => Left(feed, h, tib, e, b, index, "text", restart)
                              = Left(feed, h, tib, e, b, index, "'", restart')
      BY LeftRestarted
    <3>3. ReadInv(feed, contents, file, tib, index, "'", restart', read)
      BY <2>1, <2>2, <2>3, <2>4, <3>1, <3>2, ReadOn
    <3> QED BY <2>7, <3>3
  <2>8. CASE /\ ~ restart /\ name = <<>> /\ doing' = "fetch" /\ index' = n
             /\ UNCHANGED <<restart, read, swallowed>>
    <3>1. restart = FALSE
      BY <1>8, <2>8 DEF InputTypes
    <3>2. restart = FALSE => Left(feed, h, tib, e, b, index, "text", restart)
                               = Left(feed, h, tib, e, b, n, "fetch", restart)
      <4>1. PICK w : w = restart
        OBVIOUS
      <4>2. NameAt(tib, NameFrom(tib, index)) = <<>>
        BY <1>1, <1>4, <2>8
      <4>3. w = FALSE => Emptied(feed, h, tib, b, index, n, "text", w, w)
        BY <2>5, <2>6, <4>2, LeftNoName
      <4> QED BY <2>5, <4>1, <4>3 DEF Emptied
    <3>3. ReadInv(feed, contents, file, tib, n, "fetch", restart, read)
      BY <2>1, <2>2, <2>3, <2>4, <3>1, <3>2, ReadOn
    <3> QED BY <2>8, <3>3
  <2>9. CASE /\ ~ restart /\ name # <<>>
             /\ read' = IF name \in {<<"\\">>, <<"(">>} THEN read ELSE Append(read, name)
             /\ doing' = DoingAt(name)
             /\ swallowed' = (swallowed \/ (name \in {<<"\\">>, <<"s">>} /\ TookEolAt(tib, n)))
             /\ index' = n /\ UNCHANGED restart
    <3>1. restart = FALSE
      BY <1>8, <2>9 DEF InputTypes
    <3>2. Named(feed, h, tib, b, index, from, to)
      BY <1>1, <1>2, <1>4, <2>5, <2>6, <2>9 DEF Named
    <3>3. ~ (name \in {<<"\\">>, <<"s">>} /\ TookEolAt(tib, n))
      BY <1>11, <2>9
    <3>4. PICK rest : rest = Left(feed, h, tib, e, b, n, DoingAt(name), restart)
      OBVIOUS
    <3>5. /\ rest \in NameWords
          /\ Left(feed, h, tib, e, b, index, "text", restart)
               = IF name \in {<<"\\">>, <<"(">>} THEN rest ELSE <<name>> \o rest
      <4>1. PICK w : w = restart
        OBVIOUS
      <4>2. w = FALSE => Gone(feed, h, tib, e, b, index, n, name, w)
        BY <1>3, <1>4, <3>2, <3>3, LeftName
      <4> QED BY <3>1, <3>4, <4>1, <4>2 DEF Gone
    <3>6. CASE name \in {<<"\\">>, <<"(">>}
      <4>1. ReadInv(feed, contents, file, tib, n, DoingAt(name), restart, read)
        BY <2>1, <2>2, <2>3, <2>4, <3>4, <3>5, <3>6, ReadOn
      <4> QED BY <2>9, <3>6, <4>1
    <3>7. CASE name \notin {<<"\\">>, <<"(">>}
      <4>1. ReadInv(feed, contents, file, tib, n, DoingAt(name), restart, Append(read, name))
        BY <1>9, <2>1, <2>2, <2>3, <2>4, <2>6, <3>4, <3>5, <3>7, ReadNext
      <4> QED BY <2>9, <3>7, <4>1
    <3> QED BY <3>6, <3>7
  <2> QED BY <1>7, <2>7, <2>8, <2>9
<1>12. doing' # "done" /\ (restart' => doing' \in {"text", "fetch"})
  <2>1. DoingAt(name) \in {"text", "'", "\\", "(", "s"}
    BY DoingTypes
  <2> QED BY <1>7, <2>1
<1> QED BY <1>6, <1>10, <1>11, <1>12, TextKeeps

LEMMA GetWordKeeps == InputInv /\ T!GetWord => InputInv'
<1> SUFFICES ASSUME InputInv, T!GetWord PROVE InputInv'
  OBVIOUS
<1>1. PICK from : from = NameFrom(tib, index)
  OBVIOUS
<1>2. PICK to : to = NameTo(tib, from)
  OBVIOUS
<1>3. PICK n : n = NextAt(tib, to)
  OBVIOUS
<1>4. PICK name : name = NameAt(tib, from)
  OBVIOUS
<1>5. T!GetWord0.word = name /\ T!GetWord0.next = n
  BY <1>1, <1>2, <1>3, <1>4, NameIs
<1>6. /\ doing = "'" /\ index' = n
      /\ UNCHANGED <<feed, contents, file, tib, rejected, swallowed>>
  BY <1>5 DEF T!GetWord
<1>7. \/ name = <<>> /\ restart' = TRUE /\ doing' = "fetch" /\ UNCHANGED read
      \/ name # <<>> /\ read' = Append(read, name) /\ doing' = "text" /\ UNCHANGED restart
  BY <1>5 DEF T!GetWord, T!OutOfText
<1>8. InputTypes /\ restart = FALSE
  BY <1>6 DEF InputInv, InputTypes
<1>9. n \in 0..Len(tib) /\ name \in CharSeq
  BY <1>1, <1>2, <1>3, <1>4, <1>8, NextBounds DEF InputTypes
<1>10. InputTypes'
  <2>1. Append(read, name) \in NameWords
    BY <1>8, <1>9, AppendProperties DEF InputTypes, NameWords
  <2> QED BY <1>6, <1>7, <1>8, <1>9, <2>1 DEF InputTypes
<1>11. ASSUME ~ rejected, ~ swallowed'
       PROVE  ReadInv(feed, contents, file, tib, index', doing', restart', read')
  <2>1. ReadInv(feed, contents, file, tib, index, "'", restart, read)
    BY <1>6, <1>11 DEF InputInv
  <2>2. PICK h : h = HeardBy(feed, contents)
    OBVIOUS
  <2>3. PICK e : e = Eaten(feed, contents, file)
    OBVIOUS
  <2>4. PICK b : b = InputBase(feed, contents, file, tib)
    OBVIOUS
  <2>5. Piece(feed, h, tib, b) /\ e = EndOfPiece(feed, tib, b)
    <3>1. TextInv(feed, contents, file, tib)
      BY <1>6, <1>11 DEF InputInv
    <3>2. e = EndOfPiece(feed, tib, b)
      BY <1>8, <2>3, <2>4, <3>1, EatenText DEF InputTypes
    <3> QED BY <2>2, <2>4, <3>1, <3>2 DEF TextInv
  <2>6. index \in 0..Len(tib) /\ read \in NameWords
    BY <1>8 DEF InputTypes
  <2>7. PICK w : w = restart /\ w = FALSE
    BY <1>8
  <2>8. CASE name = <<>> /\ restart' = TRUE /\ doing' = "fetch" /\ UNCHANGED read
    <3>1. PICK v : v = restart'
      OBVIOUS
    <3>2. NameAt(tib, NameFrom(tib, index)) = <<>>
      BY <1>1, <1>4, <2>8
    <3>3. v = TRUE => Emptied(feed, h, tib, b, index, n, "'", w, v)
      BY <2>5, <2>6, <3>2, LeftNoTick
    <3>4. Left(feed, h, tib, e, b, index, "'", w) = Left(feed, h, tib, e, b, n, "fetch", v)
      BY <2>5, <2>8, <3>1, <3>3 DEF Emptied
    <3>5. ReadInv(feed, contents, file, tib, n, "fetch", v, read)
      BY <2>1, <2>2, <2>3, <2>4, <2>7, <3>4, ReadOn
    <3> QED BY <1>6, <2>8, <3>1, <3>5
  <2>9. CASE name # <<>> /\ read' = Append(read, name) /\ doing' = "text" /\ UNCHANGED restart
    <3>1. Named(feed, h, tib, b, index, from, to)
      BY <1>1, <1>2, <1>4, <2>5, <2>6, <2>9 DEF Named
    <3>2. PICK rest : rest = Left(feed, h, tib, e, b, n, "text", w)
      OBVIOUS
    <3>3. rest = Means(feed, h, b + n)
      <4>1. rest = Onwards(feed, h, b + n, w)
        BY <3>2, LeftInText
      <4> QED BY <2>7, <4>1 DEF Onwards
    <3>4. Left(feed, h, tib, e, b, index, "'", w) = <<name>> \o rest
      <4>1. Left(feed, h, tib, e, b, index, "'", w) = Waits(feed, h, b + index)
        BY LeftToTick
      <4>2. Waits(feed, h, b + index) = <<NameAt(tib, from)>> \o Means(feed, h, b + NextAt(tib, to))
        BY <3>1, NamedWaits
      <4> QED BY <1>3, <1>4, <3>3, <4>1, <4>2
    <3>5. rest \in NameWords
      <4>1. /\ h \in CharSeq /\ Len(h) \in Nat /\ Len(tib) \in Nat /\ b \in Nat
            /\ b + Len(tib) <= Len(h)
        BY <2>5, PieceTypes
      <4>2. b + n \in 0..(Len(h) + 2)
        BY <1>9, <4>1
      <4> QED BY <3>3, <4>1, <4>2, MeansTyped
    <3>6. ReadInv(feed, contents, file, tib, n, "text", w, Append(read, name))
      BY <1>9, <2>1, <2>2, <2>3, <2>4, <2>6, <2>7, <3>2, <3>4, <3>5, ReadNext
    <3> QED BY <1>6, <2>7, <2>9, <3>6
  <2> QED BY <1>7, <2>8, <2>9
<1>12. doing' # "done" /\ (restart' => doing' \in {"text", "fetch"})
  BY <1>7
<1> QED BY <1>6, <1>10, <1>11, <1>12, TextKeeps

LEMMA BackslashIs ==
  T!Backslash => /\ doing = "\\" /\ UNCHANGED read
                 /\ index' = OverEolAt(tib, T!Upto(tib, index, T!Eols))
BY Zenon DEF T!Backslash, T!OverEol, OverEolAt

LEMMA ParenthesisIs ==
  T!Parenthesis => doing = "(" /\ UNCHANGED read /\ index' = ParseAt(tib, index, {")"}).next
<1>1. {")"} \cup {} = {")"}
  OBVIOUS
<1> QED BY <1>1 DEF T!Parenthesis, T!ParseStringEx, ParseAt

LEMMA ParseTextKeeps == InputInv /\ T!ParseText => InputInv'
<1> SUFFICES ASSUME InputInv, T!ParseText PROVE InputInv'
  OBVIOUS
<1>1. /\ doing' = "text" /\ UNCHANGED <<feed, contents, file, tib, restart, rejected, swallowed>>
  BY DEF T!ParseText
<1>0. PICK parsed : parsed = ParseAt(tib, index, ParseEnds)
  OBVIOUS
<1>2. \/ /\ doing = "\\" /\ index' = OverEolAt(tib, T!Upto(tib, index, T!Eols)) /\ UNCHANGED read
      \/ /\ doing = "(" /\ index' = ParseAt(tib, index, {")"}).next /\ UNCHANGED read
      \/ doing = "s" /\ index' = parsed.next /\ read' = Append(read, parsed.text)
  <2>1. \/ T!Backslash \/ T!Parenthesis \/ T!Parse
    BY DEF T!ParseText
  <2>2. CASE T!Backslash
    BY <2>2, BackslashIs
  <2>3. CASE T!Parenthesis
    BY <2>3, ParenthesisIs
  <2>4. CASE T!Parse
    <3>1. doing = "s"
      BY <2>4 DEF T!Parse
    <3>2. {")"} \cup T!Eols = ParseEnds
      BY DEF ParseEnds
    <3>3. index' = parsed.next
      BY <1>0, <2>4, <3>2 DEF T!Parse, T!ParseStringEx, ParseAt
    <3>4. read' = Append(read, parsed.text)
      BY <1>0, <2>4, <3>2 DEF T!Parse, T!ParseStringEx, ParseAt
    <3> QED BY <3>1, <3>3, <3>4
  <2> QED BY <2>1, <2>2, <2>3, <2>4
<1>3. InputTypes /\ restart = FALSE /\ doing \in {"\\", "(", "s"}
  BY <1>2 DEF InputInv, InputTypes
<1>4. /\ tib \in CharSeq /\ Len(tib) \in Nat /\ index \in 0..Len(tib) /\ read \in NameWords
  BY <1>3, LenProperties DEF InputTypes, CharSeq
<1>5. index' \in 0..Len(tib)
  <2>1. CASE index' = OverEolAt(tib, T!Upto(tib, index, T!Eols))
    <3>1. PICK stop \in 0..Len(tib) : /\ stop = T!Upto(tib, index, T!Eols)
                                      /\ StopsAt(tib, index, T!Eols, stop)
      <4>1. T!Upto(tib, index, T!Eols) \in index..Len(tib)
            /\ StopsAt(tib, index, T!Eols, T!Upto(tib, index, T!Eols))
        BY <1>4, UptoStops DEF CharSeq
      <4>2. T!Upto(tib, index, T!Eols) \in 0..Len(tib)
        BY <1>4, <4>1
      <4> QED BY <4>1, <4>2
    <3>2. OverEolAt(tib, stop) \in stop..Len(tib)
      BY <1>4, <3>1, OverEolBounds DEF StopsAt
    <3> QED BY <1>4, <2>1, <3>1, <3>2
  <2>2. ParseAt(tib, index, {")"}).next \in index..Len(tib)
    BY <1>4, ParseBounds
  <2>3. ParseAt(tib, index, ParseEnds).next \in index..Len(tib)
    BY <1>4, ParseBounds
  <2> QED BY <1>0, <1>2, <1>4, <2>1, <2>2, <2>3
<1>6. PICK second : second = parsed.text /\ second \in CharSeq
  BY <1>0, <1>4, ParseBounds
<1>7. InputTypes'
  <2>1. Append(read, second) \in NameWords
    BY <1>4, <1>6, AppendProperties DEF NameWords
  <2> QED BY <1>1, <1>2, <1>3, <1>5, <1>6, <2>1 DEF InputTypes
<1>8. ASSUME ~ rejected, ~ swallowed'
      PROVE  ReadInv(feed, contents, file, tib, index', doing', restart', read')
  <2>1. ReadInv(feed, contents, file, tib, index, doing, restart, read)
    BY <1>1, <1>8 DEF InputInv
  <2>2. PICK h : h = HeardBy(feed, contents)
    OBVIOUS
  <2>3. PICK e : e = Eaten(feed, contents, file)
    OBVIOUS
  <2>4. PICK b : b = InputBase(feed, contents, file, tib)
    OBVIOUS
  <2>5. Piece(feed, h, tib, b)
    <3>1. TextInv(feed, contents, file, tib)
      BY <1>3, <1>8 DEF InputInv
    <3> QED BY <2>2, <2>4, <3>1 DEF TextInv
  <2>6. PICK w : w = restart /\ w = restart' /\ w = FALSE
    BY <1>1, <1>3
  <2>7. PICK n : n = index'
    OBVIOUS
  <2>8. Left(feed, h, tib, e, b, n, "text", w) = Means(feed, h, b + n)
    <3>1. Left(feed, h, tib, e, b, n, "text", w) = Onwards(feed, h, b + n, w)
      BY LeftInText
    <3> QED BY <2>6, <3>1 DEF Onwards
  <2>9. CASE /\ doing = "\\" /\ index' = OverEolAt(tib, T!Upto(tib, index, T!Eols))
             /\ UNCHANGED read
    <3>1. Left(feed, h, tib, e, b, index, "\\", w)
            = Means(feed, h, b + OverEolAt(tib, T!Upto(tib, index, T!Eols)))
      BY LeftToBackslash
    <3>2. Left(feed, h, tib, e, b, index, "\\", w) = Left(feed, h, tib, e, b, n, "text", w)
      BY <2>7, <2>8, <2>9, <3>1
    <3>3. ReadInv(feed, contents, file, tib, n, "text", w, read)
      BY <2>1, <2>2, <2>3, <2>4, <2>6, <2>9, <3>2, ReadOn
    <3> QED BY <1>1, <2>6, <2>7, <2>9, <3>3
  <2>10. CASE doing = "(" /\ index' = ParseAt(tib, index, {")"}).next /\ UNCHANGED read
    <3>1. Left(feed, h, tib, e, b, index, "(", w) = Means(feed, h, b + ParseAt(tib, index, {")"}).next)
      BY LeftToParenthesis
    <3>2. Left(feed, h, tib, e, b, index, "(", w) = Left(feed, h, tib, e, b, n, "text", w)
      BY <2>7, <2>8, <2>10, <3>1
    <3>3. ReadInv(feed, contents, file, tib, n, "text", w, read)
      BY <2>1, <2>2, <2>3, <2>4, <2>6, <2>10, <3>2, ReadOn
    <3> QED BY <1>1, <2>6, <2>7, <2>10, <3>3
  <2>11. CASE doing = "s" /\ index' = parsed.next /\ read' = Append(read, parsed.text)
    <3>1. PICK rest : rest = Left(feed, h, tib, e, b, n, "text", w)
      OBVIOUS
    <3>2. Left(feed, h, tib, e, b, index, "s", w)
            = <<ParseAt(tib, index, ParseEnds).text>>
                \o Means(feed, h, b + ParseAt(tib, index, ParseEnds).next)
      BY LeftToParse
    <3>3. Left(feed, h, tib, e, b, index, "s", w) = <<second>> \o rest
      BY <1>0, <1>6, <2>7, <2>8, <2>11, <3>1, <3>2
    <3>4. rest \in NameWords
      <4>1. /\ h \in CharSeq /\ Len(h) \in Nat /\ Len(tib) \in Nat /\ b \in Nat
            /\ b + Len(tib) <= Len(h)
        BY <2>5, PieceTypes
      <4>2. b + n \in 0..(Len(h) + 2)
        <5>1. n \in 0..Len(tib)
          BY <1>5, <2>7
        <5>2. PICK m \in Nat : m = Len(tib) /\ n \in 0..m /\ b + m <= Len(h)
          BY <4>1, <5>1
        <5> QED BY <4>1, <5>2
      <4> QED BY <2>8, <3>1, <4>1, <4>2, MeansTyped
    <3>5. ReadInv(feed, contents, file, tib, n, "text", w, Append(read, second))
      BY <1>4, <1>6, <2>1, <2>2, <2>3, <2>4, <2>6, <2>11, <3>1, <3>3, <3>4, ReadNext
    <3> QED BY <1>1, <1>6, <2>6, <2>7, <2>11, <3>5
  <2> QED BY <1>2, <2>9, <2>10, <2>11
<1>9. doing \notin {"fetch", "done"} /\ doing' # "done" /\ (restart' => doing' \in {"text", "fetch"})
  BY <1>1, <1>3
<1> QED BY <1>1, <1>7, <1>8, <1>9, TextKeeps

LEMMA InputInductive == InputInv /\ [T!Next]_inputVars => InputInv'
<1> SUFFICES ASSUME InputInv, [T!Next]_inputVars PROVE InputInv'
  OBVIOUS
<1>1. CASE T!LoadLine
  BY <1>1, LoadLineKeeps
<1>2. CASE T!MainLine
  BY <1>2, MainLineKeeps
<1>3. CASE T!IncludeFile
  BY <1>3, IncludeFileKeeps
<1>4. CASE T!EndOfFile
  BY <1>4, EndOfFileKeeps
<1>5. CASE T!Interpret
  BY <1>5, InterpretKeeps
<1>6. CASE T!GetWord
  BY <1>6, GetWordKeeps
<1>7. CASE T!ParseText
  BY <1>7, ParseTextKeeps
<1>8. CASE UNCHANGED inputVars
  BY <1>8 DEF inputVars, InputInv, InputTypes
<1> QED BY <1>1, <1>2, <1>3, <1>4, <1>5, <1>6, <1>7, <1>8 DEF T!Next

(* At the end there is nothing left to mean. *)
LEMMA NothingLeft ==
  ASSUME NEW f, NEW h \in CharSeq, NEW w
  PROVE  Onwards(f, h, Len(h), w) = <<>>
<1>1. Len(h) \in Nat /\ Len(h) \in 0..(Len(h) + 2) /\ Len(h) <= Len(h)
  BY LenProperties DEF CharSeq
<1>2. NameFrom(h, Len(h)) = Len(h)
  <2>1. NameFrom(h, Len(h)) \in 0..Len(h) /\ Len(h) <= NameFrom(h, Len(h))
    BY <1>1, NameBounds
  <2> QED BY <1>1, <2>1
<1>3. NameTo(h, Len(h)) = Len(h) /\ NameAt(h, Len(h)) = <<>>
  <2>1. /\ NameTo(h, NameFrom(h, Len(h))) \in NameFrom(h, Len(h))..Len(h)
        /\ NameAt(h, NameFrom(h, Len(h))) = <<>> <=> NameFrom(h, Len(h)) = Len(h)
    BY <1>1, NameBounds
  <2>2. NameTo(h, Len(h)) \in Len(h)..Len(h) /\ NameAt(h, Len(h)) = <<>>
    BY <1>2, <2>1
  <2> QED BY <1>1, <2>2
<1>4. PICK m : m = Meaning(f, h)
  OBVIOUS
<1>5. m[Len(h)] = <<>>
  <2>1. m[Len(h)] = MeantFrom(f, h, m, NameFrom(h, Len(h)))
    BY <1>1, <1>4, MeaningGives
  <2>2. MeantFrom(f, h, m, Len(h)) = <<>>
    BY <1>3, Zenon DEF MeantFrom
  <2> QED BY <1>2, <2>1, <2>2
<1>6. WaitFrom(h, m, Len(h)) = <<>>
  BY <1>3 DEF WaitFrom
<1>7. Means(f, h, Len(h)) = <<>>
  BY <1>4, <1>5 DEF Means
<1>8. Waits(f, h, Len(h)) = <<>>
  BY <1>2, <1>4, <1>6 DEF Waits
<1> QED BY <1>7, <1>8 DEF Onwards

LEMMA WordsHold == InputInv => T!WordsRead
<1> SUFFICES ASSUME InputInv, doing = "done", ~ rejected, ~ swallowed
             PROVE  read = T!Meant(T!Heard(contents))
  BY DEF T!WordsRead
<1>1. PICK h : h = HeardBy(feed, contents)
  OBVIOUS
<1>2. T!Heard(contents) = h
  BY <1>1 DEF T!Heard, T!Dropped, HeardBy, DroppedBy
<1>3. contents \in CharSeq /\ read \in NameWords /\ file = <<>>
  BY DEF InputInv, InputTypes
<1>4. h \in CharSeq /\ Len(h) \in Nat /\ Len(h) <= Len(contents) /\ Len(contents) \in Nat
  <2>1. h \in CharSeq /\ Len(h) \in Nat /\ Len(h) <= Len(contents)
    BY <1>1, <1>3, HeardIs
  <2>2. Len(contents) \in Nat
    BY <1>3, LenProperties DEF CharSeq
  <2> QED BY <2>1, <2>2
<1>5. Eaten(feed, contents, file) = Len(h)
  <2>1. Len(file) = 0
    BY <1>3
  <2>2. PICK l \in Nat : l = Len(contents) /\ l - Len(file) = l /\ Len(h) <= l
    BY <1>4, <2>1
  <2>3. PICK n \in Nat : n = Len(h) /\ n <= l
    BY <1>4, <2>2
  <2>4. Eaten(feed, contents, file) = IF l <= n THEN l ELSE n
    BY <1>1, <2>2, <2>3 DEF Eaten
  <2>5. Eaten(feed, contents, file) = n
    BY <2>3, <2>4
  <2> QED BY <2>3, <2>5
<1>6. Left(feed, h, tib, Eaten(feed, contents, file), InputBase(feed, contents, file, tib),
           index, "done", restart) = Onwards(feed, h, Eaten(feed, contents, file), restart)
  BY LeftToFetch
<1>7. Onwards(feed, h, Len(h), restart) = <<>>
  BY <1>4, NothingLeft
<1>8. ReadInv(feed, contents, file, tib, index, "done", restart, read)
  BY DEF InputInv
<1>9. Means(feed, h, 0) = read \o <<>>
  BY <1>1, <1>5, <1>6, <1>7, <1>8 DEF ReadInv
<1>10. read \o <<>> = read
  BY <1>3, ConcatEmptySeq DEF NameWords
<1>11. T!Meant(h) = Means(feed, h, 0)
  BY MeantIsMeaning DEF Means
<1> QED BY <1>2, <1>9, <1>10, <1>11

LEMMA TooLongIs == ASSUME InputInv PROVE T!TooLong(contents) <=> TooLongFor(feed, contents)
<1>1. contents \in CharSeq /\ Len(contents) \in Nat
  BY LenProperties DEF InputInv, InputTypes, CharSeq
<1>2. ASSUME NEW k \in 0..(Len(contents) - 1)
      PROVE  /\ LineStart(contents, k) <=> k = 0 \/ contents[k] = "n"
             /\ ~ LineFits(contents, k) <=> T!Upto(contents, k, {"n"}) + 1 - k > LineBuffer - 1
  <2>1. k \in 0..Len(contents) /\ k \in Nat
    BY <1>1
  <2>2. PICK u \in Nat : u = T!Upto(contents, k, {"n"})
    <3>1. T!Upto(contents, k, {"n"}) \in 0..Len(contents)
      BY <1>1, <2>1, UptoTyped DEF CharSeq
    <3> QED BY <1>1, <3>1
  <2>3. LineBuffer \in Nat
    BY InputAssumption DEF T!InputAssumption
  <2>4. ~ u + 1 - k <= LineBuffer - 1 <=> u + 1 - k > LineBuffer - 1
    BY <2>1, <2>3
  <2> QED BY <2>2, <2>4 DEF LineStart, LineFits
<1>3. T!Dropped(contents) <=> DroppedBy(feed, contents)
  BY DEF T!Dropped, DroppedBy
<1> QED BY <1>2, <1>3 DEF T!TooLong, TooLongFor

LEMMA LinesHold == InputInv => T!LongLines
<1> SUFFICES ASSUME InputInv, doing = "done"
             PROVE  rejected <=> feed # "include" /\ TooLongFor(feed, contents)
  BY TooLongIs DEF T!LongLines
<1>1. ASSUME ~ rejected, feed # "include" PROVE ~ TooLongFor(feed, contents)
  <2>1. file = <<>> /\ Len(file) = 0 /\ FileInv(feed, contents, file)
    BY <1>1 DEF InputInv
  <2>2. contents \in CharSeq /\ Len(contents) \in Nat
    BY LenProperties DEF InputInv, InputTypes, CharSeq
  <2>3. PICK n \in Nat : n = Len(contents) /\ n - 0 = n
    BY <2>2
  <2>4. LineStart(contents, n) \/ DroppedBy(feed, contents)
    BY <1>1, <2>1, <2>3 DEF FileInv, AtLine
  <2>5. \A k \in 0..(n - 1) : LineStart(contents, k) => LineFits(contents, k)
    BY <1>1, <2>1, <2>3 DEF FileInv, Fitting
  <2>6. LineStart(contents, n) => T!Rest(contents) = <<>>
    <3> SUFFICES ASSUME LineStart(contents, n) PROVE T!Rest(contents) = <<>>
      OBVIOUS
    <3>1. n \in 0..Len(contents) /\ \A j \in (n + 1)..Len(contents) : contents[j] # "n"
      BY <2>3
    <3>2. T!Rest(contents) = <<>> <=> n = Len(contents)
      BY <2>2, <3>1, RestAt
    <3> QED BY <2>3, <3>2
  <2> QED BY <2>3, <2>4, <2>5, <2>6 DEF TooLongFor
<1>2. rejected => feed # "include" /\ TooLongFor(feed, contents)
  BY DEF InputInv
<1>3. rejected \in BOOLEAN
  BY DEF InputInv, InputTypes
<1> QED BY <1>1, <1>2, <1>3

(* A file means the same from LOAD, INCLUDE-FILE and the main loop, unless *)
(* the newline behind \ was taken for the blank behind it; the lines that  *)
(* are refused are the ones that are too long or end without a newline;    *)
(* and >IN stays in the text (extras.c, main.c, fileaccess.c, vm.c,        *)
(* primitives.c).                                                          *)
THEOREM FilesAreRead == MCSpec => []FilesRead
<1>1. MCInit => InputInv
  BY InputInitially DEF MCInit
<1>2. InputInv /\ [MCNext]_mcVars => InputInv'
  <2>1. [MCNext]_mcVars => [T!Next]_inputVars
    BY DEF MCNext, mcVars
  <2> QED BY <2>1, InputInductive
<1>3. InputInv => FilesRead
  BY WordsHold, LinesHold DEF FilesRead, T!IndexInText, InputInv, InputTypes
<1> QED BY <1>1, <1>2, <1>3, PTL DEF MCSpec
================================================================================
