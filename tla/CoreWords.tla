------------------------------ MODULE CoreWords -------------------------------
(***************************************************************************)
(* The primitives of the core word set, and what the outer interpreter     *)
(* itself does to the stacks.                                              *)
(* Source: primitives.c; Numbers stands for ficlVmParseNumber of vm.c.     *)
(***************************************************************************)
EXTENDS VmWords

P == Primitive

(* Control structures keep addresses and tags on the data stack; what      *)
(* opens one makes no check, what closes one checks tag by tag.            *)
Marks == {Free({"if", "ahead", "begin"}, 0, 2)}

Colons == {
  Free({":"}, 0, 1),
  Data(P, {";"}, 1, 0)}

Forwards == {
  OnData(P, {"else"}, {Check("data", 1, 0)}, 2, 2, {"data"}),
  Data(P, {"then", "endif"}, 2, 0)}

(* ENDCASE looks at the top before it checks.  Behind a FALLTHROUGH, OF    *)
(* and ENDCASE pop a branch before they check for the tag below it; when   *)
(* that is not there they throw with two cells gone.                       *)
Cases == {
  Data(P, {"case"}, 0, 2),
  Free({"endcase"}, 1, 1),
  OnData(P, {"endcase"}, {Check("data", 1, 0)}, 2, 0, {"data"}),
  OnData(P, {"endcase"}, {Check("data", 1, 0), Check("data", 3, 0)}, 4, 3, {"data"})} \cup
  {OnData(P, {"endcase"},
          {Check("data", 1, 0), Check("data", 2, 0), Check("data", n + 2, 0)},
          n + 2, 0, {"data"}) : n \in Counts}

Ofs == {
  Data(P, {"of"}, 1, 3),
  OnData(P, {"of"}, {Check("data", 1, 3)}, 2, 0, {"data"}),
  OnData(P, {"of"}, {Check("data", 1, 3), Check("data", 3, 0)}, 3, 3, {}),
  Data(P, {"endof"}, 4, 3),
  OnData(P, {"fallthrough"}, {Check("data", 4, 3)}, 3, 3, {})}

Constants == {
  Data(P, {"constant", "value", "."}, 1, 0),
  Data(P, {"2constant", "2value"}, 2, 0)}

Printing == {
  Data(P, {"u.", "x."}, 1, 0),
  Data(P, {"cmove", "cmove>"}, 3, 0),
  Free({"strlen"}, 1, 1)}

(* The arguments are as many as the format asks for. *)
Sprintf == {Free({"sprintf"}, n + 4, 3) : n \in Counts}

Output == {
  Data(P, {"depth"}, 0, 1),
  Data(P, {"emit"}, 1, 0)}

(* INTERPRET hands a name to a parse step written in Forth and pops its    *)
(* flag; a parse step written in C pushes the number it has recognised.    *)
Interpreting == {
  Free({"hash", "lookup", "(parse-step)"}, 2, 1),
  Free({"interpret"}, 0, 2),
  Free({"interpret"}, 1, 0),
  Data(P, {"add-parse-step"}, 1, 0)}

Numbers == {Free({"number"}, 0, 1), Free({"number"}, 0, 2)}

LiteralWords == {
  Free({"literal"}, 1, 0),
  Free({"2literal"}, 2, 0)}

LoopWords == {
  Free({"do", "?do"}, 0, 4),
  Data(P, {"loop", "+loop"}, 4, 0)}

Cellwise == {
  Data(P, {"base", "dpl", "here"}, 0, 1),
  Data(P, {"allot"}, 1, 0)}

(* What compiles a number that it has pushed itself holds it for a moment. *)
Held == Brief(P, {"[']", "[char]", "postpone"}, {Check("data", 0, 1)},
              Cells(0, 0, 0), Cells(1, 0, 0), Cells(1, 0, 0), {})

Tokens == {
  Data(P, {"'"}, 0, 1),
  Held,
  Data(P, {"execute"}, 1, 0),
  Free({"?object"}, 1, 1),
  Free({"c-quote"}, 0, 1)}

StringWords == {
  Data(P, {"sliteral"}, 2, 0),
  Data(P, {"state"}, 0, 1),
  Free({"screate"}, 2, 0),
  Data(P, {"execute-parsing"}, 3, 0)}

Headers == {
  Data(P, {">body", "body>"}, 1, 1),
  Data(P, {">name"}, 1, 2),
  Free({"last-word"}, 0, 1)}

Pictured == {
  Data(P, {"#", "#>", "#s"}, 2, 2),
  Data(P, {"hold", "sign"}, 1, 0)}

ToNumber == {Data(P, {">number"}, 4, 4)}

(* WHILE pushes its branch and rolls it below the one of BEGIN. *)
Begins == {
  Data(P, {"accept"}, 2, 1),
  Data(P, {"aligned"}, 1, 1),
  Data(P, {"until", "again"}, 2, 0),
  OnData(P, {"while"}, {Check("data", 2, 5)}, 2, 4, {}),
  Data(P, {"repeat"}, 4, 0)}

Characters == {
  Data(P, {"char"}, 0, 1),
  Data(P, {"char+", "chars"}, 1, 1),
  Data(P, {"count"}, 1, 2)}

(* The value of a query is pushed before its flag, and may be a pair. *)
Queries == {
  Data(P, {"environment?"}, 2, 1),
  OnData(P, {"environment?"}, {Check("data", 2, 1)}, 2, 2, {}),
  OnData(P, {"environment?"}, {Check("data", 2, 1)}, 2, 3, {"data"}),
  Data(P, {"evaluate"}, 2, 0),
  Free({"s-quote", "s-paren"}, 0, 2)}

Parsing == {
  Data(P, {"type"}, 2, 0),
  Data(P, {"word"}, 1, 1),
  Data(P, {"parse-word"}, 0, 2),
  Data(P, {"parse"}, 1, 2)}

Finding == {
  Data(P, {"find"}, 1, 2),
  Data(P, {"sfind"}, 2, 2)}

InputWords == {
  Data(P, {"source"}, 0, 2),
  Data(P, {">in"}, 0, 1),
  Free({":noname"}, 0, 2),
  Free({"user"}, 1, 0)}

(* A local named while the state is interpreting, and what declares one. *)
LocalWords == {
  Bare({"dolocal"},   Cells(0, 0, 0), Cells(1, 0, 0)),
  Bare({"do2local"},  Cells(0, 0, 0), Cells(2, 0, 0)),
  Bare({"doflocal"},  Cells(0, 0, 0), Cells(0, 1, 0)),
  Bare({"dof2local"}, Cells(0, 0, 0), Cells(0, 2, 0))}

LocalDeclarations == {Data(P, {"(local)", "(2local)", "(flocal)", "(f2local)"}, 2, 0)}

Values == {
  Free({"(to)"}, 1, 0), Free({"(to)"}, 2, 0),
  Bare({"(to)"}, Cells(0, 1, 0), Cells(0, 0, 0)),
  Bare({"(to)"}, Cells(0, 2, 0), Cells(0, 0, 0))}

(* [TO] pushes the address of the value and has LITERAL pop it. *)
ToValues ==
  {Brief(P, {"[to]"}, {}, Cells(0, 0, 0), Cells(1, 0, 0), Cells(1, 0, 0), {"data"})}

Divisions == {
  Data(P, {"fm/mod", "sm/rem"}, 3, 2),
  Data(P, {"mod"}, 2, 1),
  Data(P, {"m*", "um*"}, 2, 2),
  Free({"um/mod"}, 3, 2)}

Doubles == {
  Free({"dnegate"}, 2, 2),
  Free({"du<", "d<"}, 4, 1)}

Sources == {
  Free({"pad", "source-id", "refill"}, 0, 1),
  Data(P, {"unused"}, 0, 1),
  Free({"throw"}, 1, 0)}

Heap == {
  Free({"allocate"}, 1, 2),
  Free({"free"}, 1, 1),
  Free({"resize"}, 2, 2)}

CoreWords ==
  Marks \cup Colons \cup Forwards \cup Cases \cup Ofs \cup Constants \cup Printing \cup
  Sprintf \cup Output \cup Interpreting \cup Numbers \cup LiteralWords \cup
  LoopWords \cup Cellwise \cup Tokens \cup StringWords \cup Headers \cup
  Pictured \cup ToNumber \cup Begins \cup Characters \cup Queries \cup Parsing \cup
  Finding \cup InputWords \cup LocalWords \cup LocalDeclarations \cup Values \cup ToValues \cup Divisions \cup
  Doubles \cup Sources \cup Heap
===============================================================================
