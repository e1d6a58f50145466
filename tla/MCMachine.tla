------------------------------- MODULE MCMachine -------------------------------
(***************************************************************************)
(* Machine for TLC, and what keeps frames beside the stacks: Registers,    *)
(* Locals and Loops.  A behaviour runs one of them, chosen at the start.   *)
(***************************************************************************)
EXTENDS Machine

CONSTANTS
  Threads, Tops, MaxLoops,
  LocalNames, MaxLocals, MaxCode,
  LoopBits, Limits, Nested

VARIABLES
  top, loops, at, spilled, writer, kept, misled,       \* of Registers
  state, begun, code, locals, localsCount, localsFixup,
  declared, ended, left, spoilt,                       \* of Locals
  returns, counts,                                     \* of Loops
  program

registerVars == <<top, loops, at, spilled, writer, kept, misled>>
localVars    == <<state, begun, code, locals, localsCount, localsFixup,
                  declared, ended, left, spoilt>>
loopVars     == <<returns, counts>>
mcVars       == <<vars, registerVars, localVars, loopVars, program>>

Register == INSTANCE Registers
Local    == INSTANCE Locals
Loop     == INSTANCE Loops

(* A cell has as many values without its sign as with it.  TLC computes    *)
(* this from LoopBits; the proofs know nothing about powers of two.        *)
ASSUME LoopAssumption ==
  /\ Loop!Half \in Nat \ {0} /\ Loop!Modulus = 2 * Loop!Half
  /\ Limits \subseteq Loop!Cells

MCSize == [s \in Stacks |-> CASE s = "data" -> 6 [] s = "float" -> 4 [] OTHER -> 2]

MCInit ==
  /\ program \in {"words", "registers", "locals", "loops"}
  /\ Init /\ Register!Init /\ Local!Init /\ Loop!Init
  /\ program # "registers" => \A t \in Threads : top[t] = CHOOSE x \in Tops : TRUE

MCNext ==
  /\ UNCHANGED program
  /\ \/ /\ program = "words" /\ Next
        /\ UNCHANGED <<registerVars, localVars, loopVars>>
     \/ /\ program = "registers" /\ Register!Next
        /\ UNCHANGED <<vars, localVars, loopVars>>
     \/ /\ program = "locals" /\ Local!Next
        /\ UNCHANGED <<vars, registerVars, loopVars>>
     \/ /\ program = "loops" /\ Loop!Next
        /\ UNCHANGED <<vars, registerVars, localVars>>

MCSpec == MCInit /\ [][MCNext]_mcVars

(* An exception finds the stacks of where it was thrown, the locals of a   *)
(* definition have a frame on every path, with room for them, and mean     *)
(* what their names say, a loop ends at its limit and I, J and K are the   *)
(* indexes (vm.c, primitives.c).                                           *)
FramesSound ==
  /\ program = "registers" => Register!RegistersKept
  /\ program = "locals" => Local!FramesPaired /\ Local!FramesHoldLocals /\ Local!LocalsMeant
  /\ program = "loops" => Loop!LoopsExact /\ Loop!IndexesExact
================================================================================
