--------------------------------- MODULE Locals --------------------------------
(***************************************************************************)
(* The compiler's side of local variables: their names in a dictionary of  *)
(* their own, their number, and the LINK and UNLINK that make the frame    *)
(* and drop it.  A step is one of the words a definition consists of, or   *)
(* an error.  One definition is compiled at a time, by one VM, and its     *)
(* locals are declared outside of its control structures.                  *)
(* Source: primitives.c, and what ficlVmExecuteString of vm.c resets.      *)
(***************************************************************************)
EXTENDS Naturals, Sequences

CONSTANTS
  LocalNames,
  MaxLocals,  \* FICL_MAX_LOCALS; also a bound of the names that errors leave
  MaxCode     \* bound: instructions of a definition that matter here

VARIABLES
  state,        \* vm->state
  begun,        \* is there a definition with its colon mark
  code,         \* what it has compiled
  locals,       \* the dictionary of locals: name, index and cells of each
  localsCount,
  localsFixup,  \* the place of LINK, 0 when no frame of this code is open
  declared,     \* history: the locals of this frame
  ended,        \* history: was (LOCAL) told that there are no more of them
  left,         \* history: what an error has left behind
  spoilt        \* history: of that, what this definition began with; "room"
                \* if it has a frame whose end (LOCAL) was not told

vars == <<state, begun, code, locals, localsCount, localsFixup,
          declared, ended, left, spoilt>>

Init ==
  /\ state = "interpret" /\ begun = FALSE /\ code = <<>>
  /\ locals = <<>> /\ localsCount = 0 /\ localsFixup = 0
  /\ declared = <<>> /\ ended = TRUE /\ left = {} /\ spoilt = {}

(* An instruction, with the cells of the frame it is about.                *)
Op(op, n) == [op |-> op, n |-> n, cells |-> 0, meant |-> {}]

Compiling(n) == state = "compile" /\ Len(code) + n <= MaxCode

Begin(stale) ==
  /\ state = "interpret" /\ ~begun
  /\ state' = "compile" /\ begun' = TRUE /\ code' = <<>> /\ localsFixup' = 0
  /\ declared' = <<>> /\ ended' = TRUE /\ left' = stale /\ spoilt' = stale
  /\ UNCHANGED locals

ColonCounting == Begin(left \ {"count"}) /\ UNCHANGED localsCount

(* `:` makes the count anew, :NONAME does not. *)
Colon == Begin(left \ {"count"}) /\ localsCount' = 0

ColonNoName == Begin(left) /\ UNCHANGED localsCount

(* A name for LOCAL, 2LOCAL, LOCALS| or {. *)
Declare(name, cells, counted) ==
  /\ Compiling(2) /\ localsCount < MaxLocals /\ Len(locals) < MaxLocals
  /\ LET local == [name |-> name, index |-> localsCount, cells |-> cells]
         link  == IF localsCount = 0 THEN <<Op("link", 0)>> ELSE <<>>
     IN  /\ locals' = Append(locals, local) /\ declared' = Append(declared, local)
         /\ code' = code \o link \o <<[op |-> "use", n |-> localsCount, cells |-> cells,
                                       meant |-> {localsCount}]>>
  /\ localsFixup' = IF localsCount = 0 THEN Len(code) + 1 ELSE localsFixup
  /\ localsCount' = localsCount + counted /\ ended' = FALSE
  /\ UNCHANGED <<state, begun, left, spoilt>>

LocalAsOne(name, cells) == Declare(name, cells, 1)

LocalParen(name, cells) == Declare(name, cells, cells)

(* 0 0 (LOCAL).  What it writes with a count that an error has left is     *)
(* memory of another definition, which is not followed up.                 *)
EndLocals ==
  /\ state = "compile" /\ localsCount > 0 /\ ~ended /\ ended' = TRUE
  /\ code' = IF localsFixup = 0 THEN code ELSE [code EXCEPT ![localsFixup].n = localsCount]
  /\ UNCHANGED <<state, begun, locals, localsCount, localsFixup, declared, left, spoilt>>

Named(l, name) == {i \in DOMAIN l : l[i].name = name}
Youngest(S) == CHOOSE i \in S : \A j \in S : j <= i
Oldest(S)   == CHOOSE i \in S : \A j \in S : j >= i

FoundFirst(name) == locals[Oldest(Named(locals, name))]

Found(name) == locals[Youngest(Named(locals, name))]

(* The name of a local, or TO and the name. *)
Use(name) ==
  /\ Compiling(1) /\ localsCount > 0 /\ Named(locals, name) # {}
  /\ LET mine == Named(declared, name)
     IN  code' = Append(code, [op    |-> "use",
                               n     |-> Found(name).index,
                               cells |-> Found(name).cells,
                               meant |-> {declared[i].index : i \in {Youngest(mine) : m \in mine}}])
  /\ UNCHANGED <<state, begun, locals, localsCount, localsFixup, declared, ended, left, spoilt>>

(* What the end of a path through the definition compiles.                 *)
Unlinked(op) ==
  (IF localsCount > 0 THEN <<Op("unlink", 0)>> ELSE <<>>) \o <<Op(op, 0)>>

Exit ==
  /\ Compiling(2) /\ code' = code \o Unlinked("exit")
  /\ UNCHANGED <<state, begun, locals, localsCount, localsFixup, declared, ended, left, spoilt>>

FrameKept(op) ==
  /\ code' = code \o Unlinked(op) /\ UNCHANGED <<locals, localsCount, left>>
  /\ declared' = <<>> /\ ended' = TRUE /\ UNCHANGED spoilt
  /\ localsFixup' = 0

(* `;` and DOES> end the frame. *)
EndFrame(op) ==
  /\ code' = code \o Unlinked(op)
  /\ locals' = IF localsCount > 0 THEN <<>> ELSE locals
  /\ left' = IF localsCount > 0 THEN {} ELSE left \ {"count"}
  /\ localsCount' = 0 /\ declared' = <<>> /\ ended' = TRUE
  /\ spoilt' = spoilt \cup (IF ended THEN {} ELSE {"room"})
  /\ localsFixup' = 0

Semicolon ==
  /\ Compiling(2) /\ EndFrame("semi")
  /\ state' = "interpret" /\ begun' = FALSE

Does ==
  /\ Compiling(2) /\ EndFrame("does") /\ UNCHANGED <<state, begun>>

(* [ and ] *)
Bracket ==
  /\ begun /\ state' = IF state = "compile" THEN "interpret" ELSE "compile"
  /\ UNCHANGED <<begun, code, locals, localsCount, localsFixup, declared, ended, left, spoilt>>

(* Any error, those of LOCAL included: only one in compile state empties   *)
(* the names, and none makes the count anew.                               *)
Error ==
  /\ begun /\ state' = "interpret" /\ begun' = FALSE /\ code' = <<>>
  /\ locals' = IF state = "compile" THEN <<>> ELSE locals
  /\ left' = {x \in {"count", "names"} :
                IF x = "count" THEN localsCount > 0 ELSE locals' # <<>>}
  /\ declared' = <<>> /\ ended' = TRUE /\ spoilt' = {} /\ localsFixup' = 0
  /\ UNCHANGED localsCount

Next ==
  \/ Colon \/ ColonNoName
  \/ \E name \in LocalNames :
       \/ \E cells \in 1..2 : LocalParen(name, cells)
       \/ Use(name)
  \/ EndLocals \/ Exit \/ Semicolon \/ Does \/ Bracket \/ Error

Spec == Init /\ [][Next]_vars

--------------------------------------------------------------------------------
(* The LINK whose frame instruction i uses, if any.                        *)
Links(i) == {k \in 1..i : code[k].op = "link" /\ \A j \in k..i - 1 : code[j].op # "does"}

Ends(i)     == code[i].op \in {"exit", "does", "semi"}
Accesses(i) == code[i].op = "use"

(* Every path through a definition makes at most one frame and drops the   *)
(* frame it has made, before it returns: UNLINK is compiled by EXIT, DOES> *)
(* and ; if and only if a LINK was.  Locals are only used inside.          *)
FramesPaired ==
  "count" \notin spoilt =>
    \A i \in DOMAIN code :
      /\ Ends(i) => (Links(i) # {} <=> i > 1 /\ code[i - 1].op = "unlink")
      /\ code[i].op = "link" => Links(i) = {i}
      /\ Accesses(i) => Links(i) # {}

(* The frame has room for every local, once (LOCAL) was told their end.    *)
FramesHoldLocals ==
  spoilt = {} /\ ended =>
    \A i \in DOMAIN code : Accesses(i) =>
      \A k \in Links(i) : code[i].n + code[i].cells <= code[k].n

(* A name is the local that was declared last with it in this definition,  *)
(* unless names of an abandoned one are left, and no two locals of a frame *)
(* have a cell in common (ficlLocalParen and ficlLocalParenIm).            *)
LocalsMeant ==
  /\ "names" \notin spoilt =>
       \A i \in DOMAIN code : Accesses(i) => code[i].meant = {code[i].n}
  /\ \A i, j \in DOMAIN declared :
       i < j => declared[i].index + declared[i].cells <= declared[j].index
================================================================================
