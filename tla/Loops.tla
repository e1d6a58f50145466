--------------------------------- MODULE Loops ---------------------------------
(***************************************************************************)
(* Counted loops at run time.  The return stack has the address for LEAVE, *)
(* the limit and the index of every loop, the last two biased so that the  *)
(* end of the loop is a change of sign.                                    *)
(* Source: the instructions (do) to (k) of ficlVmInnerLoop, vm.c.          *)
(***************************************************************************)
EXTENDS Integers, Sequences

CONSTANTS
  LoopBits,   \* width of a cell
  Limits,     \* limits that are tried, as cells
  Nested      \* bound: loops within one another; K is about the third

VARIABLES
  returns,    \* the return stack; a cell is its unsigned value
  counts      \* history: limit and index of the loops

vars == <<returns, counts>>

Init == returns = <<>> /\ counts = <<>>

Modulus == 2^LoopBits
Half    == Modulus \div 2
Cells   == 0..Modulus - 1
Steps   == -Half..Half - 1

Negative(x) == x >= Half

R(n) == returns[Len(returns) - n]
Dropped(n) == SubSeq(returns, 1, Len(returns) - n)
Inner == counts[Len(counts)]

Biased(limit) == (limit + Half) % Modulus

(* The address that LEAVE goes to; the depth tells the loops apart.        *)
Leave == Len(counts) + 1

Do(limit, index) ==
  /\ Len(counts) < Nested
  /\ returns' = returns \o <<Leave, Biased(limit), (index - Biased(limit)) % Modulus>>
  /\ counts' = Append(counts, [limit |-> limit, index |-> index])

(* ?DO of equal cells branches over the loop. *)
QDo(limit, index) == limit # index /\ Do(limit, index)

FallsByOrder(step) == (step < 0) # ((R(0) + step) % Modulus >= R(1))

Falls(step) == Negative(R(0)) # Negative((R(0) + step) % Modulus)

(* LOOP, where step is 1, and +LOOP. *)
PlusLoop(step) ==
  /\ counts # <<>>
  /\ \/ /\ Falls(step)
        /\ returns' = Dropped(3) /\ counts' = SubSeq(counts, 1, Len(counts) - 1)
     \/ /\ ~Falls(step)
        /\ returns' = Append(Dropped(1), (R(0) + step) % Modulus)
        /\ counts' = [counts EXCEPT ![Len(counts)].index = (@ + step) % Modulus]

(* UNLOOP, and LEAVE, which takes the address from under limit and index.  *)
Unloop ==
  /\ counts # <<>>
  /\ returns' = Dropped(3) /\ counts' = SubSeq(counts, 1, Len(counts) - 1)

I == (R(0) + R(1)) % Modulus

JOfLimit == (R(3) + R(5)) % Modulus

J == (R(3) + R(4)) % Modulus

K == (R(6) + R(7)) % Modulus

Next ==
  \/ \E limit \in Limits, index \in Cells : Do(limit, index) \/ QDo(limit, index)
  \/ \E step \in Steps : PlusLoop(step)
  \/ Unloop

Spec == Init /\ [][Next]_vars

--------------------------------------------------------------------------------
(* Does counting from the index of the loop by step, one at a time, go     *)
(* over the line between x - 1 and x.                                      *)
Crosses(step, x) ==
  \/ \E k \in 0..step - 1  : (Inner.index + k) % Modulus = (x - 1) % Modulus
  \/ \E k \in 0..-step - 1 : (Inner.index - k) % Modulus = x

(* A loop ends at the step that crosses from limit - 1 to limit or back,   *)
(* and at no other, wherever index and limit are, unless the step goes     *)
(* over the point half a circle away (the sign test of vm.c).              *)
LoopsExact ==
  counts # <<>> =>
    \A step \in Steps :
      ~Crosses(step, (Inner.limit + Half) % Modulus) =>
        (Falls(step) <=> Crosses(step, Inner.limit))

(* I, J and K are the indexes of the loops from inside to outside, and     *)
(* LEAVE ends its own loop (vm.c).                                         *)
IndexesExact ==
  LET Index(n) == counts[Len(counts) - n].index IN
    /\ Len(returns) = 3 * Len(counts)
    /\ Len(counts) >= 1 => I = Index(0) /\ R(2) = Len(counts)
    /\ Len(counts) >= 2 => J = Index(1)
    /\ Len(counts) >= 3 => K = Index(2)
================================================================================
