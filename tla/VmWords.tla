------------------------------- MODULE VmWords --------------------------------
(***************************************************************************)
(* The instructions of ficlVmInnerLoop: what they check and what they do   *)
(* to the stacks, in the order of the cases of its switch.                 *)
(* Source: vm.c.                                                           *)
(***************************************************************************)
EXTENDS Stacks

(* Counts, and one count that an int does not hold. *)
AnyCount == Counts \cup {Span}

(* Checks are made with int, cells are addressed with ficlInteger. *)
Sure(n, stacks) == IF n < Span THEN {} ELSE stacks

Literals == {
  Data(Instruction, {"0", "1", "-1", "(c-literal)"}, 0, 1),
  Data(Instruction, {"(s-literal)"}, 0, 2)}

InlineLiterals == {
  Data(Instruction, {"(literal)"}, 0, 1),
  Data(Instruction, {"(2literal)"}, 0, 2)}

(* No local checks anything; the frame lies on the return stack. *)
Locals ==
  {Bare({"(link)"}, Cells(0, 0, 0), Cells(0, 0, n + 1)) : n \in Counts} \cup
  {Bare({"(unlink)"}, Cells(0, 0, n + 1), Cells(0, 0, 0)) : n \in Counts} \cup
  {Bare({"(@2flocal)"}, Cells(0, 0, 0), Cells(0, 2, 0)),
   Bare({"(@flocal)"},  Cells(0, 0, 0), Cells(0, 1, 0)),
   Bare({"(to2flocal)"}, Cells(0, 2, 0), Cells(0, 0, 0)),
   Bare({"(toflocal)"},  Cells(0, 1, 0), Cells(0, 0, 0)),
   Bare({"(@2local)", "(@2local0)"}, Cells(0, 0, 0), Cells(2, 0, 0)),
   Bare({"(@local)", "(@local0)", "(@local1)"}, Cells(0, 0, 0), Cells(1, 0, 0)),
   Bare({"(to2local)", "(to2local0)"}, Cells(2, 0, 0), Cells(0, 0, 0)),
   Bare({"(tolocal)", "(tolocal0)", "(tolocal1)"}, Cells(1, 0, 0), Cells(0, 0, 0))}

Sums == {
  Data(Instruction, {"+", "-"}, 2, 1),
  Data(Instruction, {"1+", "1-", "2+", "2-"}, 1, 1)}

(* DUP fetches the top before its check, a fence cell when there is none. *)
Shuffles == {
  Family(Instruction, {"dup"}, {Check("data", 0, 1)},
         Cells(1, 0, 0), Cells(2, 0, 0), {"data"}),
  Data(Instruction, {"?dup"}, 1, 2),
  OnData(Instruction, {"?dup"}, {Check("data", 1, 2)}, 1, 1, {}),
  Data(Instruction, {"swap"}, 2, 2),
  Data(Instruction, {"drop"}, 1, 0),
  Data(Instruction, {"2drop"}, 2, 0),
  Data(Instruction, {"2dup"}, 2, 4),
  Data(Instruction, {"over"}, 2, 3),
  Data(Instruction, {"2over"}, 4, 6)}

(* The count is read by PICK and popped by ROLL; ROT enters ROLL behind    *)
(* that.  A negative count makes PICK leave, one below 1 makes ROLL leave. *)
Indexed ==
  {OnData(Instruction, {"pick"},
          {Check("data", 1, 0), Check("data", Wrapped(n + 2), Wrapped(n + 3))},
          n + 2, n + 2, Sure(n + 3, {"data"})) : n \in AnyCount} \cup
  {OnData(Instruction, {"roll", "-roll"},
          {Check("data", 1, 0), Check("data", Wrapped(n + 1) + 1, Wrapped(n + 2))},
          n + 2, n + 1, Sure(n + 2, {"data"})) : n \in AnyCount \ {0}} \cup
  {OnData(Instruction, {"pick"}, {Check("data", 1, 0)}, 1, 1, {}),
   OnData(Instruction, {"roll", "-roll"}, {Check("data", 1, 0)}, 1, 0, {}),
   OnData(Instruction, {"rot", "-rot"}, {Check("data", 3, 4)}, 3, 3, {}),
   Data(Instruction, {"2swap"}, 4, 4)}

SmallStores == {
  Data(Instruction, {"+!", "q!", "w!", "c!"}, 2, 0),
  Data(Instruction, {"q@", "w@", "c@"}, 1, 1)}

Tests == {
  Data(Instruction, {"0=", "0<", "0>", "invert"}, 1, 1),
  Data(Instruction, {"=", "<", "u<", "and", "or", "xor"}, 2, 1)}

ReturnStack == {
  Exact(Instruction, {">r"},  Cells(1, 0, 0), Cells(0, 0, 1)),
  Exact(Instruction, {"r>"},  Cells(0, 0, 1), Cells(1, 0, 0)),
  Exact(Instruction, {"r@"},  Cells(0, 0, 1), Cells(1, 0, 1)),
  Exact(Instruction, {"2>r"}, Cells(2, 0, 0), Cells(0, 0, 2)),
  Exact(Instruction, {"2r>"}, Cells(0, 0, 2), Cells(2, 0, 0)),
  Exact(Instruction, {"2r@"}, Cells(0, 0, 2), Cells(2, 0, 2))}

Bits == {
  Data(Instruction, {"fill"}, 3, 0),
  Data(Instruction, {"lshift", "rshift", "rshifta", "max", "min"}, 2, 1)}

Strings == {
  Data(Instruction, {"move"}, 3, 0),
  Data(Instruction, {"s>d"}, 1, 2),
  Data(Instruction, {"compare", "compare-insensitive"}, 4, 1),
  Bare({"random"}, Cells(0, 0, 0), Cells(1, 0, 0)),
  Bare({"seed-random"}, Cells(1, 0, 0), Cells(0, 0, 0)),
  Data(Instruction, {">"}, 2, 1)}

(* (of) drops the argument of CASE when it equals what OF compares with. *)
Branches == {
  Bare({"exit", "(;)"}, Cells(0, 0, 1), Cells(0, 0, 0)),
  Data(Instruction, {"(branch0)"}, 1, 0),
  Data(Instruction, {"(of)"}, 2, 1),
  OnData(Instruction, {"(of)"}, {Check("data", 2, 1)}, 2, 0, {})}

(* DO pushes the way out of the loop, the limit and the index; LOOP and I  *)
(* take it that they are there.                                            *)
Loops == {
  Family(Instruction, {"(do)", "(?do)"}, {Check("data", 2, 0)},
         Cells(2, 0, 0), Cells(0, 0, 3), {"return"}),
  Data(Instruction, {"(?do)"}, 2, 0),
  Bare({"(loop)"}, Cells(0, 0, 2), Cells(0, 0, 2)),
  Bare({"(loop)", "leave", "unloop"}, Cells(0, 0, 3), Cells(0, 0, 0)),
  Family(Instruction, {"(+loop)"}, {Check("data", 1, 0)},
         Cells(1, 0, 2), Cells(0, 0, 2), {"return"}),
  Family(Instruction, {"(+loop)"}, {Check("data", 1, 0)},
         Cells(1, 0, 3), Cells(0, 0, 0), {"return"}),
  Bare({"i"}, Cells(0, 0, 2), Cells(1, 0, 2)),
  Bare({"j"}, Cells(0, 0, 5), Cells(1, 0, 5)),
  Bare({"k"}, Cells(0, 0, 8), Cells(1, 0, 8))}

Does == {
  Bare({"(does>)"}, Cells(0, 0, 1), Cells(0, 0, 0)),
  Family(Instruction, {"do-does"}, {Check("data", 0, 1)},
         Cells(0, 0, 0), Cells(1, 0, 1), {"return"})}

Memory == {
  Exact(Instruction, {"f2@"}, Cells(1, 0, 0), Cells(0, 2, 0)),
  Exact(Instruction, {"f@"},  Cells(1, 0, 0), Cells(0, 1, 0)),
  Exact(Instruction, {"f2!"}, Cells(1, 2, 0), Cells(0, 0, 0)),
  Exact(Instruction, {"f!"},  Cells(1, 1, 0), Cells(0, 0, 0)),
  Data(Instruction, {"2@"}, 1, 2),
  Data(Instruction, {"@"}, 1, 1),
  Data(Instruction, {"2!"}, 3, 0),
  Data(Instruction, {"!"}, 2, 0),
  Data(Instruction, {",", "c,"}, 1, 0)}

Products == {
  Data(Instruction, {"cells", "cell+", "negate", "2*", "2/"}, 1, 1),
  Data(Instruction, {"*", "/"}, 2, 1),
  Data(Instruction, {"/mod"}, 2, 2),
  Data(Instruction, {"*/"}, 3, 1),
  Data(Instruction, {"*/mod"}, 3, 2)}

Steppers == {
  Data(Instruction, {"!+", "c!+", "+!+", "c+!+"}, 2, 1),
  Data(Instruction, {"@+", "c@+"}, 1, 2),
  Data(Instruction, {"c+!"}, 2, 0)}

ARegister == {
  Data(Instruction, {">a", "a!", "a!+"}, 1, 0),
  Data(Instruction, {"a>", "a@", "a@+", "a@-"}, 0, 1)}

BRegister == {
  Data(Instruction, {">b", "b!", "b!+"}, 1, 0),
  Data(Instruction, {"b>", "b@", "b@+", "b@-"}, 0, 1)}

FloatSums == {
  Float(Instruction, {"0e", "1e", "-1e", "(fliteral)"}, 0, 1),
  Float(Instruction, {"f+", "f-", "f*", "f/"}, 2, 1),
  Float(Instruction, {"fnegate"}, 1, 1)}

Conversions == {
  Exact(Instruction, {"f+i", "f-i", "f*i", "f/i", "i-f", "i/f"},
        Cells(1, 1, 0), Cells(0, 1, 0)),
  Exact(Instruction, {"1/i", "s>f"}, Cells(1, 0, 0), Cells(0, 1, 0)),
  Exact(Instruction, {"f>s"}, Cells(0, 1, 0), Cells(1, 0, 0)),
  Exact(Instruction, {"f+!"}, Cells(1, 1, 0), Cells(0, 0, 0))}

(* F2OVER asks for four floats and copies the second and the third. *)
FloatShuffles == {
  Float(Instruction, {"fdrop"}, 1, 0),
  Float(Instruction, {"fdup", "f?dup"}, 1, 2),
  OnFloat(Instruction, {"f?dup"}, {Check("float", 1, 2)}, 1, 1, {}),
  Float(Instruction, {"fswap"}, 2, 2),
  Float(Instruction, {"f2drop"}, 2, 0),
  Float(Instruction, {"f2dup"}, 2, 4),
  Float(Instruction, {"fover"}, 2, 3),
  OnFloat(Instruction, {"f2over"}, {Check("float", 4, 6)}, 3, 5, {})}

(* A negative count passes the check of FPICK, which then reads above the  *)
(* top; the cell just above it is there when the check has passed.         *)
FloatIndexed ==
  {Brief(Instruction, {"fpick"},
         {Check("data", 1, 0), Check("float", 1 - n, 2 - n)},
         Cells(1, 0, 0), Cells(0, n, 0), Cells(0, n - 1, 0), {"float"}) :
     n \in Counts \ {0}} \cup
  {Family(Instruction, {"fpick"},
          {Check("data", 1, 0), Check("float", Wrapped(n + 1), Wrapped(n + 2))},
          Cells(1, n + 1, 0), Cells(0, n + 2, 0), Sure(n + 2, {"float"})) :
     n \in AnyCount} \cup
  {Family(Instruction, {"froll", "f-roll"},
          {Check("data", 1, 0), Check("float", Wrapped(n + 1), Wrapped(n + 2))},
          Cells(1, n + 1, 0), Cells(0, n + 1, 0), Sure(n + 2, {"float"})) :
     n \in AnyCount \ {0}} \cup
  {Data(Instruction, {"froll", "f-roll"}, 1, 0),
   OnFloat(Instruction, {"frot", "f-rot"}, {Check("float", 3, 4)}, 3, 3, {}),
   Float(Instruction, {"f2swap"}, 4, 4)}

FloatTests == {
  Exact(Instruction, {"f0=", "f0<", "f0>", "float>"}, Cells(0, 1, 0), Cells(1, 0, 0)),
  Exact(Instruction, {"f=", "f<", "f>"}, Cells(0, 2, 0), Cells(1, 0, 0)),
  Exact(Instruction, {">float"}, Cells(1, 0, 0), Cells(0, 1, 0)),
  Float(Instruction, {"f2*", "f2/"}, 1, 1)}

FloatSteppers == {
  Exact(Instruction, {"f!+", "f+!+"}, Cells(1, 1, 0), Cells(1, 0, 0)),
  Exact(Instruction, {"f@+"}, Cells(1, 0, 0), Cells(1, 1, 0))}

FloatARegister == {
  Float(Instruction, {"fa@", "fa@+", "fa@-"}, 0, 1),
  Float(Instruction, {"fa!", "fa!+", "fa+!+"}, 1, 0)}

FloatBRegister == {
  Float(Instruction, {"fb@", "fb@+", "fb@-"}, 0, 1),
  Float(Instruction, {"fb!", "fb!+", "fb+!+"}, 1, 0)}

(* What the words made by CREATE, VARIABLE, CONSTANT and : do; a call      *)
(* pushes the instruction pointer without a check.                         *)
Bodies == {
  Bare({"(colon)"}, Cells(0, 0, 0), Cells(0, 0, 1)),
  Data(Instruction, {"(create)", "(variable)", "(constant)"}, 0, 1),
  Data(Instruction, {"(2constant)"}, 0, 2),
  Float(Instruction, {"(fconstant)"}, 0, 1),
  Float(Instruction, {"(f2constant)"}, 0, 2),
  Bare({"(user)"}, Cells(0, 0, 0), Cells(1, 0, 0))}

(* ficlVmExecuteString and ficlVmExecuteXT push the instruction pointer    *)
(* and pop it when the text or the word has come to its end.               *)
NestedTexts == {
  Bare({"(execute-string)"}, Cells(0, 0, 0), Cells(0, 0, 1)),
  Bare({"(out-of-text)"}, Cells(0, 0, 1), Cells(0, 0, 0))}

NestedTokens == {
  Bare({"(execute-xt)"}, Cells(0, 0, 0), Cells(0, 0, 1)),
  Bare({"(inner-exit)"}, Cells(0, 0, 1), Cells(0, 0, 0))}

VmWords ==
  NestedTexts \cup NestedTokens \cup Literals \cup InlineLiterals \cup
  Locals \cup Sums \cup Shuffles \cup
  Indexed \cup SmallStores \cup Tests \cup ReturnStack \cup Bits \cup
  Strings \cup Branches \cup Loops \cup Does \cup Memory \cup Products \cup
  Steppers \cup ARegister \cup BRegister \cup FloatSums \cup Conversions \cup
  FloatShuffles \cup FloatIndexed \cup FloatTests \cup FloatSteppers \cup
  FloatARegister \cup FloatBRegister \cup Bodies
===============================================================================
