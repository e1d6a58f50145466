-------------------------------- MODULE Stacks --------------------------------
(***************************************************************************)
(* A stack of a VM as its bound check sees it, and what a word of the      *)
(* vocabulary does to the three stacks: which checks it makes, how many    *)
(* cells it takes off each stack and how many it leaves there.             *)
(* Source: stack.c and the check macros of ficl.h and vm.c.                *)
(*                                                                         *)
(* The contents of the cells are left out, the counts are exact.  A word   *)
(* which makes a check after it has popped is written with the check it    *)
(* amounts to before: after k cells are gone, a check for p cells and q    *)
(* results is a check for p + k cells and q results.  Words which differ   *)
(* in nothing but their names make one family.                             *)
(***************************************************************************)
EXTENDS Integers

CONSTANTS
  Size,    \* stack->size of each stack
  Robust,  \* FICL_ROBUST, how much the build checks
  Counts,  \* counts that programs leave on top for PICK, ROLL and the like
  Span     \* numbers an int can tell apart: 2^32

Stacks == {"data", "float", "return"}

ASSUME StacksAssumption ==
  /\ Size \in [Stacks -> Nat \ {0}]
  /\ Robust \in 0..2
  /\ Counts \subseteq Nat
  /\ Span \in Nat \ {0}

Cells(d, f, r) ==
  [s \in Stacks |-> CASE s = "data" -> d [] s = "float" -> f [] OTHER -> r]

(* The two tests of ficlStackCheck. *)
Check(s, pop, push) == [stack |-> s, pop |-> pop, push |-> push]
Underflow(c, depth) == c.pop > depth[c.stack]

(* Mutants of Overflow: a cell more passes, a cell less is refused.        *)
OverflowLate(c, depth)  == Size[c.stack] + 1 - depth[c.stack] < c.push - c.pop
OverflowEarly(c, depth) == Size[c.stack] - depth[c.stack] <= c.push - c.pop

Overflow(c, depth) == Size[c.stack] - depth[c.stack] < c.push - c.pop

(* CHECK_STACK of the instructions is there when FICL_ROBUST is 2, the     *)
(* FICL_STACK_CHECK of the primitives when it is 1 or 2.                   *)
Instruction == 2
Primitive   == 1

Enforced(w) == IF w.level <= Robust THEN w.checks ELSE {}

Admits(w, depth) ==
  \A c \in Enforced(w) : ~ Underflow(c, depth) /\ ~ Overflow(c, depth)

(* What a family needs in truth. *)
Fits(w, depth) ==
  \A s \in Stacks : /\ w.takes[s] <= depth[s]
                    /\ depth[s] - w.takes[s] + w.gives[s] <= Size[s]

(* A family in full: it takes cells, gives cells and drops again what it   *)
(* held for a moment only; "open" are the stacks its checks leave open.    *)
Brief(level, names, checks, takes, gives, drops, open) ==
  [names |-> names, level |-> level, checks |-> checks, takes |-> takes,
   gives |-> gives, drops |-> drops, open |-> open]

Family(level, names, checks, takes, gives, open) ==
  Brief(level, names, checks, takes, gives, Cells(0, 0, 0), open)

(* Most words check for exactly what they take and give. *)
Matching(takes, gives) ==
  {Check(s, takes[s], gives[s]) :
     s \in {t \in Stacks : takes[t] > 0 \/ gives[t] > 0}}

Exact(level, names, takes, gives) ==
  Family(level, names, Matching(takes, gives), takes, gives, {})

Data(level, names, take, give) ==
  Exact(level, names, Cells(take, 0, 0), Cells(give, 0, 0))

Float(level, names, take, give) ==
  Exact(level, names, Cells(0, take, 0), Cells(0, give, 0))

(* Words that make other checks than that, and words that make none. *)
OnData(level, names, checks, take, give, open) ==
  Family(level, names, checks, Cells(take, 0, 0), Cells(give, 0, 0), open)

OnFloat(level, names, checks, take, give, open) ==
  Family(level, names, checks, Cells(0, take, 0), Cells(0, give, 0), open)

Bare(names, takes, gives) ==
  Family(Instruction, names, {}, takes, gives,
         {s \in Stacks : takes[s] > 0 \/ gives[s] > 0})

Free(names, take, give) == Bare(names, Cells(take, 0, 0), Cells(give, 0, 0))

(* A count beyond int passes the check as what is left of it. *)
Wrapped(n) == n % Span
===============================================================================
