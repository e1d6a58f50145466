------------------------------ MODULE MCTaskLife ------------------------------
(***************************************************************************)
(* TaskControl and VmList for TLC, about the ends of tasks.  Three kinds   *)
(* of programs, chosen at the start: the main program TERMINATEs its tasks *)
(* and runs them again (the constants), tasks that are run once HALT       *)
(* themselves while the main program may TERMINATE them (Halting), or VMs  *)
(* are created and destroyed with their tasks (V).                         *)
(***************************************************************************)
EXTENDS TaskControl

CONSTANTS Vms, Builders, Outputs, First

ASSUME VmsAssumption ==
  /\ IsFiniteSet(Vms) /\ First \in Vms /\ Builders \cup Outputs \subseteq Vms
  /\ Main \notin Vms /\ None \notin Vms \cup {Main}

VARIABLES
  link, vmList, running, closing, lock, pList, memory, members, misused,
  busy, at, its, dying,  \* of VmList: active, pc, vm and cancel
  program

Halting == INSTANCE TaskControl WITH Discipline <- "once",
                                     MainOps <- {"activate", "terminate"},
                                     TaskOps <- {"stop", "io", "halt"}

V == INSTANCE VmList WITH active <- busy, pc <- at, vm <- its,
                          cancel <- dying

vmVars == <<link, vmList, running, closing, lock, pList, memory, members, misused,
            busy, at, its, dying>>

MCInit == Init /\ V!Init /\ program \in {"terminate", "halt", "vms"}

MCNext ==
  /\ UNCHANGED program
  /\ \/ program = "terminate" /\ Next /\ UNCHANGED vmVars
     \/ program = "halt" /\ Halting!Next /\ UNCHANGED vmVars
     \/ program = "vms" /\ V!Next /\ UNCHANGED vars
     \/ (at[Main] = "ended" \/ V!Hangs) /\ UNCHANGED <<vars, vmVars>>

mcVars == <<vars, vmVars, program>>

Terminates(A) == program = "terminate" /\ A
Halts(A)      == program = "halt" /\ A

(* The fairness of the program that runs.  No action of V is fair where V  *)
(* has only begun.                                                         *)
MCFairness ==
  /\ \A t \in Threads :
       /\ WF_vars(Terminates(WordStep(t)) \/ Halts(Halting!WordStep(t)))
       /\ WF_vars(Terminates(InputOutput(t)) \/ Halts(Halting!InputOutput(t)))
       /\ WF_vars(Terminates(Pause(t)) \/ Halts(Halting!Pause(t)))
  /\ V!Fairness

MCSpec == MCInit /\ [][MCNext]_mcVars /\ MCFairness

(* The list holds the VMs that were linked and not destroyed, and no VM is *)
(* used after it was freed (system.c, vm.c).                               *)
VmsSound == V!Listed /\ V!FreedUnused

(* DestroyVm and the end of the system return (system.c), but for the two  *)
(* reasons of Hangs.                                                       *)
DestroyReturns == V!DestroyReturns

================================================================================
