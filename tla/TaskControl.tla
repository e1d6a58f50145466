------------------------------ MODULE TaskControl ------------------------------
(***************************************************************************)
(* The task words of extras.c: ACTIVATE, STOP, AWAKEN, PAUSE, HALT and     *)
(* TERMINATE, and the pthread calls under them, one step per call that     *)
(* another thread can observe.                                             *)
(*                                                                         *)
(* A task is a ficlVm; a thread is what pthread_create returns.  The       *)
(* program that a thread runs is any sequence of the words the constants   *)
(* MainOps and TaskOps allow: Main is the thread of main.c, the only one   *)
(* that is not a task.                                                     *)
(***************************************************************************)
EXTENDS Naturals, FiniteSets

CONSTANTS
  Tasks,       \* the constructed task VMs
  Threads,     \* thread identifiers; the supply bounds the activations
  Main,        \* the thread of main()
  None,        \* no thread, no task
  MainOps,     \* the words Main's program uses
  TaskOps,     \* the words a task's program uses
  Discipline,  \* how the program knows that a task it ACTIVATEs is idle
  CreateFails, \* the pthread calls of ACTIVATE may return an error
  MaxAwakens   \* bound: AWAKENs that reach the flag, per task

Words == {"activate", "awaken", "terminate", "stop", "pause", "io", "halt",
          "finish"}

ASSUME TaskControlAssumption ==
  /\ Main \in Threads
  /\ None \notin Threads \cup Tasks
  /\ MainOps \subseteq {"activate", "awaken", "terminate"}
  /\ TaskOps \subseteq Words
  /\ Discipline \in {"terminated", "waited", "once"}
  /\ CreateFails \in BOOLEAN
  /\ MaxAwakens \in Nat

VARIABLES
  active,   \* ficlVm.threadActive
  wake,     \* ficlVm.threadWake
  tid,      \* ficlVm.threadID
  live,     \* threadStopMutex and threadSignal are initialised
  owner,    \* the thread that holds threadStopMutex
  user,     \* the user variable ACTIVE of user/ficltask.f
  pc,       \* where each thread is
  vm,       \* the task VM a thread runs
  tgt,      \* the task on the stack of the word a thread executes
  cancel,   \* pthread_cancel was called on the thread
  joined,   \* pthread_join returned for the thread
  awakened, \* history: AWAKENs of a task that set its flag
  stopped   \* history: STOPs of a task that consumed the flag

taskVars   == <<active, wake, tid, live, owner, user>>
threadVars == <<pc, vm, tgt, cancel, joined>>
vars       == <<taskVars, threadVars, awakened, stopped>>

(* Control points.  "run" is between two words of the thread's program.    *)
StopPcs  == {"stop_cas", "stop_lock", "stop_loop", "stop_block", "stop_wait",
             "stop_reacquire", "stop_unlock"}
AwakenPcs == {"awaken_lock", "awaken_set", "awaken_signal", "awaken_unlock"}
HaltPcs   == {"halt_clear", "halt_destroy"}
TerminatePcs == {"terminate_clear", "terminate_cancel", "terminate_join",
                 "terminate_destroy"}
ActivatePcs == {"activate_reset", "activate_init", "activate_set",
                "activate_create"}
Pcs == {"none", "dead", "run"} \cup StopPcs \cup AwakenPcs \cup HaltPcs
         \cup TerminatePcs \cup ActivatePcs

Alive(t) == pc[t] \notin {"none", "dead"}

(* t is inside its own STOP and holds, or has just tested, under the mutex *)
HoldsOwn(t)   == pc[t] \in {"stop_loop", "stop_block", "stop_unlock"}
HoldsOther(t) == pc[t] \in {"awaken_set", "awaken_signal", "awaken_unlock"}

May(t, word) == word \in IF t = Main THEN MainOps ELSE TaskOps

Goto(t, p) == pc' = [pc EXCEPT ![t] = p]

(* Begin the word at control point p, on task v.                           *)
Enter(t, p, v) == /\ Goto(t, p)
                  /\ tgt' = [tgt EXCEPT ![t] = v]
                  /\ UNCHANGED <<vm, cancel, joined>>

(* Go on to control point p of the same word.                              *)
Step(t, p) == Goto(t, p) /\ UNCHANGED <<vm, tgt, cancel, joined>>

At(t, p) == pc[t] = p

Init ==
  /\ active = [v \in Tasks |-> FALSE]
  /\ wake = [v \in Tasks |-> FALSE]
  /\ tid = [v \in Tasks |-> None]
  /\ live = [v \in Tasks |-> FALSE]
  /\ owner = [v \in Tasks |-> None]
  /\ user = [v \in Tasks |-> FALSE]
  /\ pc = [t \in Threads |-> IF t = Main THEN "run" ELSE "none"]
  /\ vm = [t \in Threads |-> None]
  /\ tgt = [t \in Threads |-> None]
  /\ cancel = [t \in Threads |-> FALSE]
  /\ joined = [t \in Threads |-> FALSE]
  /\ awakened = [v \in Tasks |-> 0]
  /\ stopped = [v \in Tasks |-> 0]

--------------------------------------------------------------------------------
(* ACTIVATE.  The code does not test threadActive: the program must know   *)
(* that the task is idle, because it TERMINATEd it, because the WAIT of    *)
(* ficltask.f saw the task's ACTIVE false, or because it never activated   *)
(* it before (user/pi.f).                                                  *)

KnownIdle(v) ==
  CASE Discipline = "terminated" -> ~active[v]
    [] Discipline = "waited"     -> ~user[v]
    [] Discipline = "once"       -> tid[v] = None

(* The words of ficltask.f stand before the primitives of the same name.   *)
FiclTask == Discipline # "terminated"

ActivateBegin(t, v) ==
  /\ At(t, "run") /\ May(t, "activate")
  /\ KnownIdle(v)
  /\ \E n \in Threads : pc[n] = "none"
  /\ user' = IF FiclTask THEN [user EXCEPT ![v] = TRUE] ELSE user
  /\ Enter(t, "activate_reset", v)
  /\ UNCHANGED <<active, wake, tid, live, owner, awakened, stopped>>

(* ficlVmReset of the other VM; its stacks are not modelled.               *)
ActivateReset(t) ==
  /\ At(t, "activate_reset")
  /\ Step(t, "activate_init")
  /\ UNCHANGED <<taskVars, awakened, stopped>>

(* Mutant of ActivateInit: only the flag is initialised.                   *)
ActivateNoInit(t) ==
  /\ At(t, "activate_init")
  /\ wake' = [wake EXCEPT ![tgt[t]] = FALSE]
  /\ Step(t, "activate_set")
  /\ UNCHANGED <<active, tid, live, owner, user, awakened, stopped>>

(* pthread_mutex_init and pthread_cond_init, then threadWake = FALSE       *)
ActivateInit(t) ==
  /\ At(t, "activate_init")
  /\ live' = [live EXCEPT ![tgt[t]] = TRUE]
  /\ owner' = [owner EXCEPT ![tgt[t]] = None]
  /\ wake' = [wake EXCEPT ![tgt[t]] = FALSE]
  /\ Step(t, "activate_set")
  /\ UNCHANGED <<active, tid, user, awakened, stopped>>

(* pthread_mutex_init fails, or pthread_cond_init does and the mutex is    *)
(* destroyed again: the word throws.                                       *)
ActivateInitFails(t) ==
  /\ At(t, "activate_init") /\ CreateFails
  /\ live' \in {live, [live EXCEPT ![tgt[t]] = FALSE]}
  /\ Step(t, "run")
  /\ UNCHANGED <<active, wake, tid, owner, user, awakened, stopped>>

ActivateSet(t) ==
  /\ At(t, "activate_set")
  /\ active' = [active EXCEPT ![tgt[t]] = TRUE]
  /\ Step(t, "activate_create")
  /\ UNCHANGED <<wake, tid, live, owner, user, awakened, stopped>>

ActivateCreate(t) ==
  /\ At(t, "activate_create")
  /\ \E n \in Threads :
       /\ pc[n] = "none"
       /\ tid' = [tid EXCEPT ![tgt[t]] = n]
       /\ pc' = [pc EXCEPT ![n] = "run", ![t] = "run"]
       /\ vm' = [vm EXCEPT ![n] = tgt[t]]
  /\ UNCHANGED <<active, wake, live, owner, user, tgt, cancel, joined,
                 awakened, stopped>>

(* pthread_create fails: what was initialised is destroyed, the flag goes  *)
(* down and the word throws.                                               *)
ActivateFails(t) ==
  /\ At(t, "activate_create") /\ CreateFails
  /\ live' = [live EXCEPT ![tgt[t]] = FALSE]
  /\ active' = [active EXCEPT ![tgt[t]] = FALSE]
  /\ Step(t, "run")
  /\ UNCHANGED <<wake, tid, owner, user, awakened, stopped>>

Activate(t) == \/ \E v \in Tasks : ActivateBegin(t, v)
               \/ ActivateReset(t) \/ ActivateInit(t) \/ ActivateInitFails(t)
               \/ ActivateSet(t) \/ ActivateCreate(t) \/ ActivateFails(t)

--------------------------------------------------------------------------------
(* STOP.  Returns at once when threadActive is FALSE.                      *)

StopBegin(t) ==
  /\ At(t, "run") /\ May(t, "stop") /\ t # Main
  /\ active[vm[t]]
  /\ Step(t, "stop_cas")
  /\ UNCHANGED <<taskVars, awakened, stopped>>

StopInactive(t) ==
  /\ At(t, "run") /\ May(t, "stop") /\ t # Main
  /\ ~active[vm[t]]
  /\ UNCHANGED vars

(* Mutant of Consume: the flag is tested but not reset.                    *)
ConsumeKeepsFlag(v) == /\ wake[v]
                       /\ UNCHANGED wake
                       /\ stopped' = [stopped EXCEPT ![v] = @ + 1]

(* FICL_CAS(&vm->threadWake, FICL_TRUE, FICL_FALSE)                        *)
Consume(v) == /\ wake[v]
              /\ wake' = [wake EXCEPT ![v] = FALSE]
              /\ stopped' = [stopped EXCEPT ![v] = @ + 1]

StopFast(t) ==
  /\ At(t, "stop_cas")
  /\ \/ Consume(vm[t]) /\ Step(t, "run")
     \/ ~wake[vm[t]] /\ Step(t, "stop_lock") /\ UNCHANGED <<wake, stopped>>
  /\ UNCHANGED <<active, tid, live, owner, user, awakened>>

StopLock(t) ==
  /\ At(t, "stop_lock")
  /\ owner[vm[t]] = None
  /\ owner' = [owner EXCEPT ![vm[t]] = t]
  /\ Step(t, "stop_loop")
  /\ UNCHANGED <<active, wake, tid, live, user, awakened, stopped>>

StopLoop(t) ==
  /\ At(t, "stop_loop")
  /\ \/ Consume(vm[t]) /\ Step(t, "stop_unlock")
     \/ ~wake[vm[t]] /\ Step(t, "stop_block") /\ UNCHANGED <<wake, stopped>>
  /\ UNCHANGED <<active, tid, live, owner, user, awakened>>

(* pthread_cond_wait releases the mutex and waits in one step.             *)
StopBlock(t) ==
  /\ At(t, "stop_block")
  /\ owner' = [owner EXCEPT ![vm[t]] = None]
  /\ Step(t, "stop_wait")
  /\ UNCHANGED <<active, wake, tid, live, user, awakened, stopped>>

(* pthread_cond_wait may return although nobody signalled; a cancellation  *)
(* already pending is acted on instead.                                    *)
StopSpurious(t) ==
  /\ At(t, "stop_wait")
  /\ ~cancel[t]
  /\ Step(t, "stop_reacquire")
  /\ UNCHANGED <<taskVars, awakened, stopped>>

StopReacquire(t) ==
  /\ At(t, "stop_reacquire")
  /\ owner[vm[t]] = None
  /\ owner' = [owner EXCEPT ![vm[t]] = t]
  /\ Step(t, "stop_loop")
  /\ UNCHANGED <<active, wake, tid, live, user, awakened, stopped>>

StopUnlock(t) ==
  /\ At(t, "stop_unlock")
  /\ owner' = [owner EXCEPT ![vm[t]] = None]
  /\ Step(t, "run")
  /\ UNCHANGED <<active, wake, tid, live, user, awakened, stopped>>

(* pthread_cond_wait is a cancellation point: the thread takes the mutex   *)
(* back and dies with it, since STOP installs no cleanup handler.          *)
StopCancelled(t) ==
  /\ At(t, "stop_wait")
  /\ cancel[t]
  /\ owner[vm[t]] = None
  /\ owner' = [owner EXCEPT ![vm[t]] = t]
  /\ Step(t, "dead")
  /\ UNCHANGED <<active, wake, tid, live, user, awakened, stopped>>

Stop(t) == \/ StopBegin(t) \/ StopInactive(t) \/ StopFast(t) \/ StopLock(t)
           \/ StopLoop(t) \/ StopBlock(t) \/ StopReacquire(t)
           \/ StopUnlock(t) \/ StopCancelled(t)

--------------------------------------------------------------------------------
(* AWAKEN.  Returns at once when the other VM's threadActive is FALSE.     *)

AwakenBegin(t, v) ==
  /\ At(t, "run") /\ May(t, "awaken")
  /\ awakened[v] < MaxAwakens
  /\ active[v]
  /\ Enter(t, "awaken_lock", v)
  /\ UNCHANGED <<taskVars, awakened, stopped>>

AwakenInactive(t, v) ==
  /\ At(t, "run") /\ May(t, "awaken")
  /\ ~active[v]
  /\ UNCHANGED vars

(* Mutant of AwakenLock: the flag is set without the mutex.                *)
AwakenNoLock(t) ==
  /\ At(t, "awaken_lock")
  /\ Step(t, "awaken_set")
  /\ UNCHANGED <<taskVars, awakened, stopped>>

AwakenLock(t) ==
  /\ At(t, "awaken_lock")
  /\ owner[tgt[t]] = None
  /\ owner' = [owner EXCEPT ![tgt[t]] = t]
  /\ Step(t, "awaken_set")
  /\ UNCHANGED <<active, wake, tid, live, user, awakened, stopped>>

AwakenSet(t) ==
  /\ At(t, "awaken_set")
  /\ wake' = [wake EXCEPT ![tgt[t]] = TRUE]
  /\ awakened' = [awakened EXCEPT ![tgt[t]] = @ + 1]
  /\ Step(t, "awaken_signal")
  /\ UNCHANGED <<active, tid, live, owner, user, stopped>>

Waiters(v) == {w \in Threads : pc[w] = "stop_wait" /\ vm[w] = v}

(* Mutant of AwakenSignal: the waiter is not signalled.                    *)
AwakenNoSignal(t) ==
  /\ At(t, "awaken_signal")
  /\ Step(t, "awaken_unlock")
  /\ UNCHANGED <<taskVars, awakened, stopped>>

(* pthread_cond_signal moves one waiter, if there is one.                  *)
AwakenSignal(t) ==
  /\ At(t, "awaken_signal")
  /\ \/ /\ Waiters(tgt[t]) = {}
        /\ Goto(t, "awaken_unlock")
     \/ \E w \in Waiters(tgt[t]) :
          pc' = [pc EXCEPT ![w] = "stop_reacquire", ![t] = "awaken_unlock"]
  /\ UNCHANGED <<taskVars, vm, tgt, cancel, joined, awakened, stopped>>

AwakenUnlock(t) ==
  /\ At(t, "awaken_unlock")
  /\ owner' = [owner EXCEPT ![tgt[t]] = None]
  /\ Step(t, "run")
  /\ UNCHANGED <<active, wake, tid, live, user, awakened, stopped>>

Awaken(t) == \/ \E v \in Tasks : AwakenBegin(t, v) \/ AwakenInactive(t, v)
             \/ AwakenLock(t) \/ AwakenSet(t)
             \/ AwakenSignal(t) \/ AwakenUnlock(t)

--------------------------------------------------------------------------------
(* HALT.  With ficltask.f the task first clears its ACTIVE, which is what  *)
(* WAIT polls, and then runs the primitive.                                *)

UserHalt(t) ==
  /\ At(t, "run") /\ May(t, "halt") /\ t # Main
  /\ FiclTask /\ user[vm[t]]
  /\ user' = [user EXCEPT ![vm[t]] = FALSE]
  /\ Step(t, "run")
  /\ UNCHANGED <<active, wake, tid, live, owner, awakened, stopped>>

HaltBegin(t) ==
  /\ At(t, "run") /\ May(t, "halt") /\ t # Main
  /\ FiclTask => ~user[vm[t]]
  /\ active[vm[t]]
  /\ Step(t, "halt_clear")
  /\ UNCHANGED <<taskVars, awakened, stopped>>

HaltClear(t) ==
  /\ At(t, "halt_clear")
  /\ active' = [active EXCEPT ![vm[t]] = FALSE]
  /\ Step(t, "halt_destroy")
  /\ UNCHANGED <<wake, tid, live, owner, user, awakened, stopped>>

(* ficlVmTerminateThread(vm, FICL_FALSE) and pthread_exit                  *)
HaltDestroy(t) ==
  /\ At(t, "halt_destroy")
  /\ live' = [live EXCEPT ![vm[t]] = FALSE]
  /\ wake' = [wake EXCEPT ![vm[t]] = FALSE]
  /\ Step(t, "dead")
  /\ UNCHANGED <<active, tid, owner, user, awakened, stopped>>

HaltInactive(t) ==
  /\ At(t, "run") /\ May(t, "halt") /\ t # Main
  /\ FiclTask => ~user[vm[t]]
  /\ ~active[vm[t]]
  /\ UNCHANGED vars

Halt(t) == \/ UserHalt(t) \/ HaltBegin(t) \/ HaltInactive(t)
           \/ HaltClear(t) \/ HaltDestroy(t)

--------------------------------------------------------------------------------
(* TERMINATE.  threadActive is cleared before the cancellation is sent.    *)

TerminateBegin(t, v) ==
  /\ At(t, "run") /\ May(t, "terminate")
  /\ active[v]
  /\ Enter(t, "terminate_clear", v)
  /\ UNCHANGED <<taskVars, awakened, stopped>>

TerminateInactive(t, v) ==
  /\ At(t, "run") /\ May(t, "terminate")
  /\ ~active[v]
  /\ UNCHANGED vars

(* Mutant of TerminateClear: threadActive stays set.                       *)
TerminateKeepsActive(t) ==
  /\ At(t, "terminate_clear")
  /\ Step(t, "terminate_cancel")
  /\ UNCHANGED <<taskVars, awakened, stopped>>

TerminateClear(t) ==
  /\ At(t, "terminate_clear")
  /\ active' = [active EXCEPT ![tgt[t]] = FALSE]
  /\ Step(t, "terminate_cancel")
  /\ UNCHANGED <<wake, tid, live, owner, user, awakened, stopped>>

(* Mutant of TerminateCancel: the request is not sent.                     *)
TerminateNoCancel(t) ==
  /\ At(t, "terminate_cancel")
  /\ Step(t, "terminate_join")
  /\ UNCHANGED <<taskVars, awakened, stopped>>

TerminateCancel(t) ==
  /\ At(t, "terminate_cancel")
  /\ cancel' = [cancel EXCEPT ![tid[tgt[t]]] = TRUE]
  /\ Goto(t, "terminate_join")
  /\ UNCHANGED <<taskVars, vm, tgt, joined, awakened, stopped>>

(* Mutant of TerminateJoin: TERMINATE does not wait for the thread.        *)
TerminateNoJoin(t) ==
  /\ At(t, "terminate_join")
  /\ Step(t, "terminate_destroy")
  /\ UNCHANGED <<taskVars, awakened, stopped>>

TerminateJoin(t) ==
  /\ At(t, "terminate_join")
  /\ pc[tid[tgt[t]]] = "dead"
  /\ joined' = [joined EXCEPT ![tid[tgt[t]]] = TRUE]
  /\ Goto(t, "terminate_destroy")
  /\ UNCHANGED <<taskVars, vm, tgt, cancel, awakened, stopped>>

TerminateDestroy(t) ==
  /\ At(t, "terminate_destroy")
  /\ live' = [live EXCEPT ![tgt[t]] = FALSE]
  /\ wake' = [wake EXCEPT ![tgt[t]] = FALSE]
  /\ Step(t, "run")
  /\ UNCHANGED <<active, tid, owner, user, awakened, stopped>>

Terminate(t) ==
  \/ \E v \in Tasks : TerminateBegin(t, v) \/ TerminateInactive(t, v)
  \/ TerminateClear(t) \/ TerminateCancel(t)
  \/ TerminateJoin(t) \/ TerminateDestroy(t)

--------------------------------------------------------------------------------
(* PAUSE asks for a pending cancellation only while threadActive is TRUE;  *)
(* sched_yield is no cancellation point.                                   *)
Pause(t) ==
  /\ At(t, "run") /\ May(t, "pause") /\ t # Main
  /\ IF active[vm[t]] /\ cancel[t] THEN Step(t, "dead") ELSE UNCHANGED threadVars
  /\ UNCHANGED <<taskVars, awakened, stopped>>

(* Input and output (EMIT, TYPE, READ-LINE ...) are cancellation points.   *)
InputOutput(t) ==
  /\ At(t, "run") /\ May(t, "io") /\ t # Main
  /\ IF cancel[t] THEN Step(t, "dead") ELSE UNCHANGED threadVars
  /\ UNCHANGED <<taskVars, awakened, stopped>>

(* The xt returns to runThread, which leaves threadActive set.             *)
RunThreadReturns(t) ==
  /\ At(t, "run") /\ May(t, "finish") /\ t # Main
  /\ Step(t, "dead")
  /\ UNCHANGED <<taskVars, awakened, stopped>>

(* Every step a thread takes of its own accord                             *)
ThreadStep(t) == \/ Activate(t) \/ Stop(t) \/ Awaken(t) \/ Halt(t)
                 \/ Terminate(t) \/ Pause(t) \/ InputOutput(t)
                 \/ RunThreadReturns(t)

Next == \E t \in Threads : ThreadStep(t) \/ StopSpurious(t)

Spec == Init /\ [][Next]_vars

(* A word that began is carried on: the scheduler runs every thread, and   *)
(* the bounded number of AWAKENs leaves no lock contended for ever.  A     *)
(* program that pauses, or does input and output, does so again and again. *)
WordStep(t) == pc[t] # "run" /\ ThreadStep(t)

Fairness == \A t \in Threads : /\ WF_vars(WordStep(t))
                               /\ WF_vars(InputOutput(t))
                               /\ WF_vars(Pause(t))

FairSpec == Spec /\ Fairness

--------------------------------------------------------------------------------
TypeOK ==
  /\ active \in [Tasks -> BOOLEAN]
  /\ wake \in [Tasks -> BOOLEAN]
  /\ tid \in [Tasks -> Threads \cup {None}]
  /\ live \in [Tasks -> BOOLEAN]
  /\ owner \in [Tasks -> Threads \cup {None}]
  /\ user \in [Tasks -> BOOLEAN]
  /\ pc \in [Threads -> Pcs]
  /\ vm \in [Threads -> Tasks \cup {None}]
  /\ tgt \in [Threads -> Tasks \cup {None}]
  /\ cancel \in [Threads -> BOOLEAN]
  /\ joined \in [Threads -> BOOLEAN]
  /\ awakened \in [Tasks -> Nat]
  /\ stopped \in [Tasks -> Nat]

(* A task asleep in STOP with its wake flag up is about to be signalled:   *)
(* the test of the flag and pthread_cond_wait in STOP, and the setting of  *)
(* the flag and pthread_cond_signal in AWAKEN, leave no gap between them.  *)
NoLostWakeup ==
  \A t \in Threads :
    At(t, "stop_wait") /\ wake[vm[t]] =>
      \E a \in Threads : At(a, "awaken_signal") /\ tgt[a] = vm[t]

(* Each return from STOP is paid for by an AWAKEN of its own; the flag     *)
(* collapses AWAKENs, it never multiplies them.                            *)
WakeAccount ==
  \A v \in Tasks : stopped[v] + (IF wake[v] THEN 1 ELSE 0) <= awakened[v]

(* Nobody is between lock and unlock, or asleep, on the mutex and the      *)
(* condition variable of a task once they are destroyed.                   *)
StopsLive   == \A t \in Threads : pc[t] \in StopPcs => live[vm[t]]
AwakensLive == \A t \in Threads : pc[t] \in AwakenPcs => live[tgt[t]]

SyncLive == StopsLive /\ AwakensLive

(* A VM is run by one thread at a time: its stacks have no lock.           *)
OneThreadPerVm ==
  \A s, t \in Threads \ {Main} :
    Alive(s) /\ Alive(t) /\ vm[s] = vm[t] => s = t

(* TERMINATE joins a thread that exists and that nobody joined before.     *)
JoinsOnce ==
  \A t \in Threads :
    pc[t] \in {"terminate_cancel", "terminate_join"} =>
      tid[tgt[t]] # None /\ ~joined[tid[tgt[t]]]

(* A task in STOP whose flag is up leaves STOP.                            *)
AwakenResumes ==
  \A t \in Threads \ {Main} :
    (pc[t] \in StopPcs /\ wake[vm[t]]) ~> pc[t] \notin StopPcs

(* TERMINATE comes back from pthread_join: the task is halted.             *)
TerminateReturns ==
  \A t \in Threads : At(t, "terminate_join") ~> ~At(t, "terminate_join")

================================================================================
