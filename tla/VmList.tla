-------------------------------- MODULE VmList ---------------------------------
(***************************************************************************)
(* The list of the VMs of a system: VMs are created, linked, run by tasks, *)
(* taken out and freed, by several threads at once, up to the end of the   *)
(* system.                                                                 *)
(* Source: system.c, CONSTRUCT and the end of threads in extras.c, the VMs *)
(* of vm.c and main.c.                                                     *)
(*                                                                         *)
(* systemMutex guards vmList.  A VM stands for its task thread too; Main   *)
(* is the thread of main.c.  TaskControl has the words that tasks use.     *)
(***************************************************************************)
EXTENDS Naturals, FiniteSets

CONSTANTS
  Vms,       \* the memory of VMs
  Builders,  \* those whose tasks CONSTRUCT others
  Outputs,   \* those whose tasks do input or output again and again
  First,     \* the VM of main.c, which is not a task
  Main, None

VmThreads == Vms \cup {Main}

VARIABLES
  link,     \* vm->link
  vmList,   \* system->vmList
  active,   \* vm->threadActive
  lock,     \* who holds systemMutex
  pc, vm,   \* where a thread is, and the VM it is about
  pList,    \* the VM it is at in DestroyVm
  memory,   \* "free", "used" or "freed" for each VM
  running,  \* the task thread exists
  cancel,   \* pthread_cancel was called on it
  closing,  \* Main is in ficlSystemDestroy
  members,  \* history: the VMs that were linked and not taken out
  misused   \* history: a VM was used before or after its time

listVars   == <<link, vmList, closing>>
taskVars   == <<active, running, cancel>>
threadVars == <<pc, vm, pList>>
vars == <<listVars, taskVars, threadVars, lock, memory, members, misused>>

(* main.c has created its first VM, the only one linked. *)
Init ==
  /\ link = [v \in Vms |-> None] /\ vmList = First /\ members = {First}
  /\ active = [v \in Vms |-> FALSE] /\ running = [v \in Vms |-> FALSE]
  /\ cancel = [v \in Vms |-> FALSE]
  /\ memory = [v \in Vms |-> IF v = First THEN "used" ELSE "free"]
  /\ misused = FALSE /\ lock = None /\ closing = FALSE
  /\ pc = [t \in VmThreads |-> "run"] /\ vm = [t \in VmThreads |-> None]
  /\ pList = [t \in VmThreads |-> None]

Runs(t) == IF t = Main THEN TRUE ELSE running[t]
At(t, where) == Runs(t) /\ pc[t] = where
Goto(t, where) == pc' = [pc EXCEPT ![t] = where]

(* Reads or writes through a pointer to v. *)
Uses(v) == misused' = (misused \/ memory[v] = "freed")

--------------------------------------------------------------------------------
(* CONSTRUCT, and ficlSystemCreateVm of a C program: the memory is cleared *)
(* and gets its stacks, then the VM is linked.                             *)
Construct(t, v) ==
  /\ At(t, "run") /\ t \in Builders \cup {Main}
  /\ memory[v] = "free"
  /\ memory' = [memory EXCEPT ![v] = "used"]
  /\ link' = [link EXCEPT ![v] = None]
  /\ active' = [active EXCEPT ![v] = FALSE]
  /\ vm' = [vm EXCEPT ![t] = v]
  /\ Goto(t, "link")
  /\ UNCHANGED <<vmList, closing, running, cancel, pList, lock, members, misused>>

LinkUnlocked(t) ==
  /\ At(t, "link")
  /\ link' = [link EXCEPT ![vm[t]] = vmList]
  /\ Goto(t, "publish")
  /\ UNCHANGED <<vmList, closing, taskVars, vm, pList, lock, memory, members, misused>>

Link(t) ==
  /\ At(t, "link") /\ lock = None
  /\ lock' = t
  /\ link' = [link EXCEPT ![vm[t]] = vmList]
  /\ Goto(t, "publish")
  /\ UNCHANGED <<vmList, closing, taskVars, vm, pList, memory, members, misused>>

Publish(t) ==
  /\ At(t, "publish")
  /\ vmList' = vm[t] /\ members' = members \cup {vm[t]}
  /\ lock' = None
  /\ Goto(t, "run")
  /\ UNCHANGED <<link, closing, taskVars, vm, pList, memory, misused>>

(* ACTIVATE, and the return of the task's word, which leaves threadActive. *)
Activate(v) ==
  /\ At(Main, "run") /\ v \in members \ {First} /\ ~active[v]
  /\ active' = [active EXCEPT ![v] = TRUE]
  /\ running' = [running EXCEPT ![v] = TRUE]
  /\ Uses(v)
  /\ UNCHANGED <<listVars, cancel, threadVars, lock, memory, members>>

Ends(v) == running' = [running EXCEPT ![v] = FALSE] /\ UNCHANGED pc

Returns(v) ==
  /\ At(v, "run") /\ Ends(v)
  /\ UNCHANGED <<listVars, active, cancel, vm, pList, lock, memory, members, misused>>

(* Where a cancelled thread ends: in every input or output, but in PAUSE   *)
(* only while threadActive is TRUE, and in STOP asleep, which it is only   *)
(* when threadActive was TRUE as it began.  The mutex of the system is no  *)
(* such place.                                                             *)
InputOutput(v) ==
  /\ At(v, "run") /\ v \in Outputs
  /\ IF cancel[v] THEN Ends(v) ELSE UNCHANGED <<running, pc>>
  /\ UNCHANGED <<listVars, active, cancel, vm, pList, lock, memory, members, misused>>

Pause(v) ==
  /\ At(v, "run")
  /\ IF active[v] /\ cancel[v] THEN Ends(v) ELSE UNCHANGED <<running, pc>>
  /\ UNCHANGED <<listVars, active, cancel, vm, pList, lock, memory, members, misused>>

Stop(v) ==
  /\ At(v, "run")
  /\ IF active[v] THEN Goto(v, "asleep") ELSE UNCHANGED pc
  /\ UNCHANGED <<listVars, taskVars, vm, pList, lock, memory, members, misused>>

Awakened(v) ==
  /\ At(v, "asleep") /\ Goto(v, "run")
  /\ UNCHANGED <<listVars, taskVars, vm, pList, lock, memory, members, misused>>

StopCancelled(v) ==
  /\ At(v, "asleep") /\ cancel[v] /\ Ends(v)
  /\ UNCHANGED <<listVars, active, cancel, vm, pList, lock, memory, members, misused>>

TaskStep(v) ==
  Returns(v) \/ InputOutput(v) \/ Pause(v) \/ Stop(v) \/ Awakened(v) \/ StopCancelled(v)

--------------------------------------------------------------------------------
(* DestroyVm reads the head of the list before it locks.                   *)
DestroyVm(v) ==
  /\ At(Main, "run") /\ v \in members
  /\ vm' = [vm EXCEPT ![Main] = v]
  /\ pList' = [pList EXCEPT ![Main] = vmList]
  /\ Goto(Main, "lock")
  /\ UNCHANGED <<listVars, taskVars, lock, memory, members, misused>>

DestroyLock ==
  /\ At(Main, "lock") /\ lock = None
  /\ lock' = Main
  /\ Goto(Main, IF vmList = vm[Main] THEN "behead" ELSE "search")
  /\ UNCHANGED <<listVars, taskVars, vm, pList, memory, members, misused>>

Behead ==
  /\ At(Main, "behead")
  /\ vmList' = link[vmList] /\ members' = members \ {vm[Main]}
  /\ Uses(vm[Main])
  /\ Goto(Main, IF pList[Main] = None THEN "unlock" ELSE "end")
  /\ UNCHANGED <<link, closing, taskVars, vm, pList, lock, memory>>

Search ==
  /\ At(Main, "search") /\ pList[Main] # None
  /\ link[pList[Main]] # vm[Main]
  /\ pList' = [pList EXCEPT ![Main] = link[pList[Main]]]
  /\ Uses(pList[Main])
  /\ UNCHANGED <<listVars, taskVars, pc, vm, lock, memory, members>>

Unlink ==
  /\ At(Main, "search") /\ pList[Main] # None
  /\ link[pList[Main]] = vm[Main]
  /\ link' = [link EXCEPT ![pList[Main]] = link[vm[Main]]]
  /\ members' = members \ {vm[Main]}
  /\ Uses(pList[Main])
  /\ Goto(Main, "end")
  /\ UNCHANGED <<vmList, closing, taskVars, vm, pList, lock, memory>>

NotFound ==
  /\ At(Main, "search") /\ pList[Main] = None /\ Goto(Main, "unlock")
  /\ UNCHANGED <<listVars, taskVars, vm, pList, lock, memory, members, misused>>

Unlock ==
  /\ At(Main, "unlock") /\ lock' = None /\ Goto(Main, "run")
  /\ UNCHANGED <<listVars, taskVars, vm, pList, memory, members, misused>>

(* ficlVmDestroy: threadActive is tested and cleared, then the thread is   *)
(* cancelled and joined; the stacks and the VM are freed, at once when the *)
(* VM was not active.                                                      *)
VmDestroy ==
  /\ At(Main, "end") /\ active[vm[Main]]
  /\ active' = [active EXCEPT ![vm[Main]] = FALSE]
  /\ Uses(vm[Main])
  /\ Goto(Main, "cancel")
  /\ UNCHANGED <<listVars, running, cancel, vm, pList, lock, memory, members>>

CancelledThreads(v) == cancel

CancelThread(v) == [cancel EXCEPT ![v] = TRUE]

Cancel ==
  /\ At(Main, "cancel")
  /\ cancel' = CancelThread(vm[Main])
  /\ Goto(Main, "join")
  /\ UNCHANGED <<listVars, active, running, vm, pList, lock, memory, members, misused>>

JoinedAlways(v) == TRUE

Joined(v) == ~running[v]

VmFreed ==
  /\ \/ At(Main, "end") /\ ~active[vm[Main]]
     \/ At(Main, "join") /\ Joined(vm[Main])
  /\ memory' = [memory EXCEPT ![vm[Main]] = "freed"]
  /\ Uses(vm[Main])
  /\ Goto(Main, IF closing THEN "final" ELSE "unlock")
  /\ UNCHANGED <<listVars, taskVars, vm, pList, lock, members>>

(* ficlSystemDestroy: the dictionaries are freed, then every VM. *)
SystemDestroy ==
  /\ At(Main, "run") /\ lock = None
  /\ lock' = Main /\ closing' = TRUE /\ Goto(Main, "final")
  /\ UNCHANGED <<link, vmList, taskVars, vm, pList, memory, members, misused>>

NextVm ==
  /\ At(Main, "final") /\ vmList # None
  /\ vm' = [vm EXCEPT ![Main] = vmList]
  /\ vmList' = link[vmList] /\ members' = members \ {vmList}
  /\ Uses(vmList)
  /\ Goto(Main, "end")
  /\ UNCHANGED <<link, closing, taskVars, pList, lock, memory>>

SystemFreed ==
  /\ At(Main, "final") /\ vmList = None
  /\ lock' = None /\ Goto(Main, "ended")
  /\ UNCHANGED <<listVars, taskVars, vm, pList, memory, members, misused>>

--------------------------------------------------------------------------------
ThreadStep(t) == Link(t) \/ Publish(t)

MainStep ==
  \/ DestroyLock \/ Behead \/ Search \/ Unlink \/ NotFound \/ Unlock
  \/ VmDestroy \/ Cancel \/ VmFreed \/ NextVm \/ SystemFreed

Next ==
  \/ \E t \in VmThreads, v \in Vms : Construct(t, v)
  \/ \E t \in VmThreads : ThreadStep(t)
  \/ \E v \in Vms : Activate(v) \/ TaskStep(v) \/ DestroyVm(v)
  \/ SystemDestroy
  \/ MainStep

(* Threads that run go on, a thread that was cancelled asleep ends, and a  *)
(* program that does input and output does so again and again.  Nothing is *)
(* assumed of the others: they may PAUSE for ever.                         *)
Fairness ==
  /\ WF_vars(MainStep)
  /\ \A t \in VmThreads : WF_vars(ThreadStep(t))
  /\ \A v \in Vms : WF_vars(InputOutput(v)) /\ WF_vars(StopCancelled(v))

Spec == Init /\ [][Next]_vars

FairSpec == Spec /\ Fairness

--------------------------------------------------------------------------------
Chain[n \in 0..Cardinality(Vms)] ==
  IF n = 0 THEN vmList
  ELSE IF Chain[n - 1] = None THEN None ELSE link[Chain[n - 1]]

(* While nobody changes it the list holds each VM that was initialised and *)
(* not destroyed, once (InitVm, DestroyVm of system.c).                    *)
Listed ==
  lock = None =>
    /\ {Chain[n] : n \in 0..Cardinality(Vms)} \ {None} = members
    /\ Chain[Cardinality(members)] = None

(* No VM is used after it was freed, and none is freed under its thread    *)
(* (DestroyVm of system.c, ficlVmDestroy of vm.c).                         *)
FreedUnused ==
  /\ ~misused
  /\ \A v \in Vms : running[v] => memory[v] = "used"

(* When DestroyVm returns its VM is off the list (system.c: it "removes    *)
(* the VM in question from the system VM list and deletes the memory").    *)
Destroys ==
  [][(pc[Main] = "unlock" /\ pc'[Main] = "run") => vm[Main] \notin members']_vars

(* The join never returns while the thread waits for the mutex that Main   *)
(* holds, or runs a program whose PAUSE and STOP no longer look.           *)
Hangs ==
  /\ At(Main, "join")
  /\ \/ At(vm[Main], "link")
     \/ At(vm[Main], "run") /\ vm[Main] \notin Outputs

(* DestroyVm and the end of a system return though tasks run, or hang for  *)
(* one of these two reasons: a task that sleeps, or does input or output,  *)
(* is always brought to its end (DestroyVm and SystemDestroy of system.c,  *)
(* ficlVmDestroy of vm.c).                                                 *)
DestroyReturns ==
  pc[Main] \in {"lock", "final"} ~> pc[Main] \in {"run", "ended"} \/ []Hangs
================================================================================
