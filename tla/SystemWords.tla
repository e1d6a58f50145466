----------------------------- MODULE SystemWords ------------------------------
(***************************************************************************)
(* The words of the optional word sets: operating system, tasks, atomics,  *)
(* bits, files, tools and the search order.                                *)
(* Source: extras.c, fileaccess.c, tools.c, search.c.                      *)
(*                                                                         *)
(* A word that executes another one given by its token appears twice: as   *)
(* it is up to the call, and (in parentheses) as what it does when the     *)
(* word called has returned, which may be anything on the stacks.          *)
(***************************************************************************)
EXTENDS FloatWords

Clocks == {Free({"clock", "get-msecs"}, 0, 1)}

Terminal == {
  Free({"prepterm"}, 1, 0),
  Data(P, {"key", "key?", "ekey", "utime", "time-zone", "dst?"}, 0, 1),
  Data(P, {"now", "today"}, 0, 3)}

(* (C-CALL) pops the function and the count before it checks for the       *)
(* arguments.                                                              *)
ForeignCalls ==
  {OnData(P, {"(c-call)"}, {Check("data", 2, 0), Check("data", n + 2, 1)},
          n + 2, 1, {}) : n \in Counts} \cup
  {Data(P, {"(dlopen)"}, 2, 1),
   Data(P, {"(dlsym)"}, 3, 1)}

(* A callback pushes the arguments C gave it on a new VM, and pops what    *)
(* the word has left there.                                                *)
Callbacks ==
  {Free({"callback"}, 0, n) : n \in Counts} \cup
  {Free({"(callback-return)"}, 1, 0),
   Data(P, {"(callback)"}, 3, 1)}

Tasks == {
  Data(P, {"/task"}, 0, 1),
  Data(P, {"construct"}, 1, 0),
  Data(P, {"activate"}, 2, 0)}

TaskControls == {
  Data(P, {"awaken", "terminate"}, 1, 0),
  Data(P, {"his"}, 2, 1)}

Mutexes == {
  Data(P, {"/mutex"}, 0, 1),
  Data(P, {"mutex-init", "get", "release"}, 1, 0)}

Atomics == {
  Data(P, {"atomic@"}, 1, 1),
  Data(P, {"atomic!"}, 2, 0),
  Data(P, {"atomic-xchg"}, 2, 1),
  Data(P, {"atomic-cas"}, 3, 1),
  OnData(P, {"atomic-op"}, {Check("data", 2, 0)}, 2, 1, {}),
  Free({"(atomic-op)"}, 1, 0)}

(* With cells of 32 bits XFLIP swaps the bytes of a pair.  STICK leaves    *)
(* when its count is negative.                                             *)
Flips ==
  {OnData(P, {"stick"},
          {Check("data", 2, 0),
           Check("data", Wrapped(n + 1) + 2, Wrapped(n + 1))},
          n + 3, n + 1, Sure(n + 1, {"data"})) : n \in AnyCount} \cup
  {Data(P, {"stick"}, 2, 0),
   Data(P, {"wflip", "qflip", "xflip", "flip"}, 1, 1),
   Data(P, {"xflip", "flip"}, 2, 2)}

Addresses == {
  Data(P, {"wordkind?", "@@"}, 1, 1),
  Data(P, {"chars+", "cells+"}, 2, 1),
  Data(P, {"errno"}, 0, 1),
  Data(P, {"why"}, 1, 2),
  Data(P, {"@!"}, 2, 0)}

(* RULEZ checks for the weights that WRULEZ takes and it does not. *)
FuzzyLogic == {
  Data(P, {"fuzzify"}, 4, 0),
  Data(P, {"defuzzify"}, 3, 1),
  OnData(P, {"rulez"}, {Check("data", 3, 0)}, 2, 0, {}),
  Data(P, {"wrulez"}, 3, 0)}

(* BIT-FLIP checks for a result it does not leave. *)
SingleBits == {
  Data(P, {"bit?"}, 2, 1),
  Data(P, {"bit-set", "bit-reset"}, 2, 0),
  OnData(P, {"bit-flip"}, {Check("data", 2, 1)}, 2, 0, {}),
  Data(P, {"isqrt"}, 1, 1)}

OpeningFiles == {Data(P, {"open-file", "create-file"}, 3, 2)}

(* DELETE-FILE pops an address and a length and checks for one cell.       *)
NamedFiles == {
  Data(P, {"close-file"}, 1, 1),
  OnData(P, {"delete-file"}, {Check("data", 1, 1)}, 2, 1, {"data"}),
  Data(P, {"rename-file"}, 4, 1),
  Data(P, {"file-status"}, 2, 2)}

(* The ior comes on top of the pair these check for. *)
FilePlaces == {
  OnData(P, {"file-position", "file-size"}, {Check("data", 1, 2)}, 1, 3, {"data"}),
  Data(P, {"include-file"}, 1, 0)}

FileTransfers == {
  Data(P, {"read-file"}, 3, 2),
  Data(P, {"read-line"}, 3, 3),
  Data(P, {"write-file", "write-line"}, 3, 1)}

FileChanges == {
  Data(P, {"reposition-file", "resize-file"}, 3, 1),
  Data(P, {"flush-file"}, 1, 1),
  Data(P, {"use"}, 1, 0)}

(* SEE and FORGET pop what ' has pushed. *)
Seeing == {
  Free({"see-xt"}, 1, 0),
  Brief(P, {"see"}, {Check("data", 0, 1)},
        Cells(0, 0, 0), Cells(1, 0, 0), Cells(1, 0, 0), {})}

(* DEBUG-XT puts the token back for SEE-XT, as the debugger does for `l`.  *)
Debugging == {
  Brief(P, {"debug-xt"}, {}, Cells(1, 0, 0), Cells(1, 0, 0), Cells(1, 0, 0), {"data"})}

StepBreaks == {
  Brief(P, {"step-break"}, {},
        Cells(0, 0, 0), Cells(1, 0, 0), Cells(1, 0, 0), {"data"})}

Forgetting == {
  Free({"forget-wid"}, 1, 0),
  Brief(P, {"forget"}, {Check("data", 0, 1)},
        Cells(0, 0, 0), Cells(1, 0, 0), Cells(1, 0, 0), {})}

WordLists == {
  OnData(P, {"traverse-wordlist"}, {Check("data", 2, 1)}, 2, 1, {}),
  OnData(P, {"traverse-wordlist"}, {Check("data", 2, 1)}, 2, 0, {}),
  Free({"(traverse-wordlist)"}, 1, 1),
  Free({"(traverse-wordlist)"}, 1, 0)}

NameTokens == {
  Data(P, {"name>string", "name>compile"}, 1, 2),
  Data(P, {"name>interpret"}, 1, 1)}

Environment == {
  Data(P, {"env-constant"}, 1, 0),
  Data(P, {"env-2constant"}, 2, 0)}

SearchOrder ==
  {Free({"get-order"}, 0, n + 1) : n \in Counts} \cup
  {Free({"set-order"}, n + 1, 0) : n \in Counts} \cup
  {Free({"forth-wordlist", "get-current"}, 0, 1),
   Free({"search-wordlist"}, 3, 2),
   Free({"search-wordlist"}, 3, 1),
   Free({"set-current"}, 1, 0)}

NewWordLists == {
  Data(P, {"ficl-wordlist"}, 1, 1),
  Free({"search>"}, 0, 1),
  Free({">search"}, 1, 0),
  Free({"wid-get-name"}, 1, 2),
  Free({"wid-set-name"}, 2, 0),
  Data(P, {"set-parent-wid"}, 2, 0)}

(* What each file puts into the dictionary.                                *)
ExtraWords ==
  Clocks \cup Terminal \cup ForeignCalls \cup Callbacks \cup Tasks \cup
  TaskControls \cup Mutexes \cup Atomics \cup Flips \cup Addresses \cup
  FuzzyLogic \cup SingleBits

FileWords ==
  OpeningFiles \cup NamedFiles \cup FilePlaces \cup FileTransfers \cup FileChanges

ToolWords ==
  Seeing \cup Debugging \cup StepBreaks \cup Forgetting \cup WordLists \cup
  NameTokens \cup Environment

SearchWords == SearchOrder \cup NewWordLists

SystemWords == ExtraWords \cup FileWords \cup ToolWords \cup SearchWords
===============================================================================
