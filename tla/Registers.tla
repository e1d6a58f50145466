------------------------------- MODULE Registers -------------------------------
(***************************************************************************)
(* The inner loop keeps the pointers of the VM in registers of its own,    *)
(* and writes them back before it calls a primitive.  `spilled`, a static  *)
(* variable, tells the handler of the loop whether the VM has them.        *)
(* Source: ficlVmInnerLoop of vm.c and its macros.                         *)
(*                                                                         *)
(* One pointer stands for all of them; that of the data stack is meant.    *)
(* A step has one access to spilled, the only thing that threads share.    *)
(***************************************************************************)
EXTENDS Naturals, Sequences

CONSTANTS
  Threads,
  Tops,     \* where a stack pointer may be
  MaxLoops  \* bound: inner loops within one another

VARIABLES
  top,      \* vm->dataStack->top, for the VM of each thread
  loops,    \* the inner loops of each thread, the innermost last: what its
            \* register had at setjmp and has now
  at,       \* "host", "run" in the loop, "primitive", "failed": an
            \* instruction has thrown, "thrown": an exception is on its way
  spilled,
  writer,   \* history: the last thread that wrote spilled
  kept,     \* history: what the VM may have after the exception
  misled    \* history: threads whose handlers read what another one wrote

vars == <<top, loops, at, spilled, writer, kept, misled>>

Nobody == <<>>

Init ==
  /\ top \in [Threads -> Tops] /\ loops = [t \in Threads |-> <<>>]
  /\ at = [t \in Threads |-> "host"]
  /\ spilled = FALSE /\ writer = Nobody
  /\ kept = [t \in Threads |-> Tops] /\ misled = {}

Innermost(t) == loops[t][Len(loops[t])]
Outer(t) == SubSeq(loops[t], 1, Len(loops[t]) - 1)
Goto(t, where) == at' = [at EXCEPT ![t] = where]

(* The word that called an inner loop. *)
Caller(t) == IF Len(loops[t]) = 1 THEN "host" ELSE "primitive"

MarkLost(t, x) == UNCHANGED <<spilled, writer>>

Mark(t, x) == spilled' = x /\ writer' = t

(* LOCAL_VARIABLE_SPILL, LOCAL_VARIABLE_REFILL *)
Spill(t, x) == top' = [top EXCEPT ![t] = x] /\ Mark(t, TRUE)
Refill(t) == spilled' = FALSE /\ writer' = t /\ UNCHANGED top

Enter(t) ==
  /\ at[t] \in {"host", "primitive"} /\ Len(loops[t]) < MaxLoops
  /\ Refill(t)
  /\ loops' = [loops EXCEPT ![t] = Append(@, [entry |-> top[t], register |-> top[t]])]
  /\ Goto(t, "run")
  /\ UNCHANGED <<kept, misled>>

Instruction(t) ==
  /\ at[t] = "run"
  /\ \E x \in Tops : loops' = [loops EXCEPT ![t][Len(loops[t])].register = x]
  /\ UNCHANGED <<top, at, spilled, writer, kept, misled>>

Call(t) ==
  /\ at[t] = "run"
  /\ Spill(t, Innermost(t).register) /\ Goto(t, "primitive")
  /\ UNCHANGED <<loops, kept, misled>>

Primitive(t) ==
  /\ at[t] = "primitive"
  /\ \E x \in Tops : top' = [top EXCEPT ![t] = x]
  /\ UNCHANGED <<loops, at, spilled, writer, kept, misled>>

Return(t) ==
  /\ at[t] = "primitive"
  /\ Refill(t)
  /\ loops' = [loops EXCEPT ![t][Len(loops[t])].register = top[t]]
  /\ Goto(t, "run")
  /\ UNCHANGED <<kept, misled>>

Leave(t) ==
  /\ at[t] = "run"
  /\ Spill(t, Innermost(t).register) /\ loops' = [loops EXCEPT ![t] = Outer(t)]
  /\ Goto(t, Caller(t))
  /\ UNCHANGED <<kept, misled>>

(* A primitive throws; (exit-inner), the end of every nested loop, too.    *)
Throw(t) ==
  /\ at[t] = "primitive" /\ Goto(t, "thrown")
  /\ kept' = [kept EXCEPT ![t] = {top[t]}]
  /\ UNCHANGED <<top, loops, spilled, writer, misled>>

(* The check of an instruction throws; it has put the register of its own  *)
(* stack in the VM.  What setjmp finds in a register that was written      *)
(* since is either value.                                                  *)
Fail(t) ==
  /\ at[t] = "run" /\ Goto(t, "failed")
  /\ \E x \in {top[t], Innermost(t).register} : top' = [top EXCEPT ![t] = x]
  /\ kept' = [kept EXCEPT ![t] = {Innermost(t).entry, Innermost(t).register}]
  /\ UNCHANGED <<loops, spilled, writer, misled>>

(* The handler of the innermost loop, which throws on. *)
Handler(t) ==
  /\ at[t] \in {"failed", "thrown"} /\ loops[t] # <<>>
  /\ \/ spilled /\ UNCHANGED <<top, spilled, writer>>
     \/ ~spilled /\ \E x \in {Innermost(t).entry, Innermost(t).register} : Spill(t, x)
  /\ misled' = IF writer = t THEN misled ELSE misled \cup {t}
  /\ loops' = [loops EXCEPT ![t] = Outer(t)] /\ Goto(t, "thrown")
  /\ UNCHANGED kept

(* The word that called the last loop catches the exception; the host      *)
(* always does.  What a CATCH restores is a part of what it does then.     *)
Catch(t) ==
  /\ at[t] = "thrown"
  /\ Goto(t, IF loops[t] = <<>> THEN "host" ELSE "primitive")
  /\ kept' = [kept EXCEPT ![t] = Tops] /\ misled' = misled \ {t}
  /\ UNCHANGED <<top, loops, spilled, writer>>

Step(t) ==
  \/ Enter(t) \/ Instruction(t) \/ Call(t) \/ Primitive(t) \/ Return(t)
  \/ Leave(t) \/ Throw(t) \/ Fail(t) \/ Handler(t) \/ Catch(t)

Next == \E t \in Threads : Step(t)

Spec == Init /\ [][Next]_vars

--------------------------------------------------------------------------------
(* An exception that a primitive throws finds its catcher with the stacks  *)
(* as the primitive left them, through all the inner loops between, and    *)
(* one that an instruction throws with those of its loop: unless another   *)
(* thread has written spilled before a handler reads it                    *)
(* (LOCAL_VARIABLE_SPILL and the handler of vm.c).                         *)
RegistersKept ==
  \A t \in Threads : at[t] = "thrown" /\ t \notin misled => top[t] \in kept[t]
================================================================================
