------------------------------ MODULE Arithmetic -------------------------------
(***************************************************************************)
(* The words that multiply, divide and compare doubles, on a data stack.   *)
(* Source: primitives.c, vm.c, ISQRT of extras.c.                          *)
(***************************************************************************)
EXTENDS Doubles, Sequences

CONSTANT MaxDepth  \* bound: cells on the stack

VARIABLES
  stack,   \* the data stack, its top last
  hangs    \* a division by zero loops for ever

vars == <<stack, hangs>>

(* The n-th cell from the top, and the double below the first n cells.     *)
Top(n) == stack[Len(stack) + 1 - n]
DoubleBelow(n) == Pair(Top(n + 1), Top(n + 2))

Has(n) == ~ hangs /\ Len(stack) >= n

(* n cells are replaced by the results. *)
Replace(n, results) ==
  /\ stack' = SubSeq(stack, 1, Len(stack) - n) \o results
  /\ UNCHANGED hangs

Cells(x) == <<x.low, x.high>>
RemainderQuotient(qr) == <<qr.remainder, qr.quotient.low>>
Flag(b) == IF b THEN Span - 1 ELSE 0

Init == stack = <<>> /\ hangs = FALSE

Literal(u) == Has(0) /\ Len(stack) < MaxDepth /\ Replace(0, <<u>>)

UMStar == Has(2) /\ Replace(2, Cells(Multiply(Top(2), Top(1))))
MStar  == Has(2) /\ Replace(2, Cells(SignedMultiply(Top(2), Top(1))))

(* These check their divisor. *)
Trapped(n, results) ==
  IF Top(1) = 0 THEN stack' = <<>> /\ UNCHANGED hangs ELSE Replace(n, results)

SlashMod ==
  Has(2) /\ Trapped(2, RemainderQuotient(DivideSymmetric(Extended(Top(2)), Top(1))))

Scale == DivideSymmetric(SignedMultiply(Top(3), Top(2)), Top(1))

StarSlash == Has(3) /\ Trapped(3, <<Scale.quotient.low>>)
StarSlashMod == Has(3) /\ Trapped(3, RemainderQuotient(Scale))

(* These do not.  Zero divided by zero is one.                             *)
Unchecked(n, dividend, results) ==
  IF Top(1) = 0 /\ dividend # Zero
  THEN hangs' = TRUE /\ UNCHANGED stack
  ELSE Replace(n, results)

UMSlashMod ==
  /\ Has(3)
  /\ Unchecked(3, DoubleBelow(1), RemainderQuotient(Divide(DoubleBelow(1), Top(1))))

FMSlashMod ==
  /\ Has(3)
  /\ Unchecked(3, DoubleBelow(1), RemainderQuotient(DivideFloored(DoubleBelow(1), Top(1))))

SMSlashRem ==
  /\ Has(3)
  /\ Unchecked(3, DoubleBelow(1), RemainderQuotient(DivideSymmetric(DoubleBelow(1), Top(1))))

Mod ==
  /\ Has(2)
  /\ Unchecked(2, Extended(Top(2)), <<DivideSymmetric(Extended(Top(2)), Top(1)).remainder>>)

DNegate == Has(2) /\ Replace(2, Cells(Negate(DoubleBelow(0))))

DUnsignedLess == Has(4) /\ Replace(4, <<Flag(Below(DoubleBelow(2), DoubleBelow(0)))>>)

(* Mutant of SignedBelow: negative numbers are compared by magnitude.      *)
SignedBelowMagnitude(x, y) ==
  IF IsNegative(x) /\ IsNegative(y) THEN Below(Negate(x), Negate(y))
  ELSE IsNegative(x) \/ (~ IsNegative(y) /\ Below(x, y))

SignedBelow(x, y) ==
  IF IsNegative(x) /\ IsNegative(y) THEN Below(Negate(y), Negate(x))
  ELSE IsNegative(x) \/ (~ IsNegative(y) /\ Below(x, y))

DLess == Has(4) /\ Replace(4, <<Flag(SignedBelow(DoubleBelow(2), DoubleBelow(0)))>>)

(* A round of ISQRT brings down the next two bits of s.                    *)
RootRound(r) ==
  LET root == Wrap(2 * r.root)
      rem == BitOr(Wrap(4 * r.rem), r.s \div Pow2[Bits - 2])
      s == Wrap(4 * r.s)
  IN  IF root < rem THEN [s |-> s, rem |-> Wrap(rem - BitOr(root, 1)), root |-> root + 2]
      ELSE [s |-> s, rem |-> rem, root |-> root]

(* Mutant of Root: one round less. *)
RootShort(s) ==
  LET rounds[i \in 0..(Bits \div 2)] ==
        IF i = 0 THEN [s |-> s, rem |-> 0, root |-> 0] ELSE RootRound(rounds[i - 1])
  IN  IF s > 1 THEN rounds[Bits \div 2 - 1].root \div 2 ELSE s

Root(s) ==
  LET rounds[i \in 0..(Bits \div 2)] ==
        IF i = 0 THEN [s |-> s, rem |-> 0, root |-> 0] ELSE RootRound(rounds[i - 1])
  IN  IF s > 1 THEN rounds[Bits \div 2].root \div 2 ELSE s

ISqrt == Has(1) /\ Replace(1, <<Root(Top(1))>>)

Next ==
  \/ \E u \in CellValues : Literal(u)
  \/ UMStar \/ MStar
  \/ SlashMod \/ StarSlash \/ StarSlashMod
  \/ UMSlashMod \/ FMSlashMod \/ SMSlashRem \/ Mod
  \/ DNegate \/ DUnsignedLess \/ DLess
  \/ ISqrt

Spec == Init /\ [][Next]_vars

(***************************************************************************)
(* Properties: what the words compute, as numbers                          *)
(***************************************************************************)
Natural(x) == x.high * Span + x.low
Number(x) == Signed(x.high) * Span + x.low

Magnitude(a) == IF a < 0 THEN - a ELSE a
Floor(a, b) == IF b < 0 THEN (- a) \div (- b) ELSE a \div b
Towards0(a, b) ==
  IF (a < 0) = (b < 0) THEN Magnitude(a) \div Magnitude(b)
  ELSE - (Magnitude(a) \div Magnitude(b))

(* The cells of a quotient q of a by b and of what it leaves. *)
Leaves(qr, a, b, q) ==
  /\ qr.quotient.low = Wrap(q)
  /\ qr.remainder = Wrap(a - q * b)

(* A product of two cells is exact, with or without sign.                  *)
(* Behaviour: the shifts, the carries and the signs of double.c.           *)
ProductsExact ==
  Has(2) =>
    /\ Natural(Multiply(Top(2), Top(1))) = Top(2) * Top(1)
    /\ Number(SignedMultiply(Top(2), Top(1))) = Signed(Top(2)) * Signed(Top(1))

(* UM/MOD, FM/MOD and SM/REM leave the low cell of the unsigned, the       *)
(* floored and the symmetric quotient of any double by any cell but zero,  *)
(* and the remainder with it, the most negative numbers included.          *)
(* Behaviour: the tables above ficl2IntegerDivideFloored.                  *)
QuotientsExact ==
  Has(3) /\ Top(1) # 0 =>
    LET d == DoubleBelow(1) u == Top(1) n == Signed(u) IN
    /\ Leaves(Divide(d, u), Natural(d), u, Natural(d) \div u)
    /\ Leaves(DivideFloored(d, u), Number(d), n, Floor(Number(d), n))
    /\ Leaves(DivideSymmetric(d, u), Number(d), n, Towards0(Number(d), n))

(* D< orders doubles as signed numbers, across the sign and at the most    *)
(* negative number, which has no magnitude.                                *)
(* Behaviour: ficlPrimitiveDLess compares magnitudes.                      *)
OrderExact ==
  Has(4) =>
    SignedBelow(DoubleBelow(2), DoubleBelow(0)) =
      (Number(DoubleBelow(2)) < Number(DoubleBelow(0)))

(* ISQRT leaves the root rounded down, of every unsigned cell.             *)
(* Behaviour: the two registers of ficlPrimitiveISqrt do not overflow.     *)
RootExact ==
  Has(1) => /\ Root(Top(1)) * Root(Top(1)) <= Top(1)
            /\ Top(1) < (Root(Top(1)) + 1) * (Root(Top(1)) + 1)
===============================================================================
