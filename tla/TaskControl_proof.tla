-------------------------- MODULE TaskControl_proof --------------------------
(***************************************************************************)
(* Theorems about TaskControl, for every set of tasks and threads, every   *)
(* program the constants allow, and every number of AWAKENs.               *)
(***************************************************************************)
EXTENDS MCTaskLife, FiniteSetTheorems, WellFoundedInduction, TLAPS

USE TaskControlAssumption

(* A history counter that goes up stays a counter.                         *)
LEMMA CounterUp ==
  ASSUME NEW S, NEW f \in [S -> Nat], NEW x
  PROVE  [f EXCEPT ![x] = @ + 1] \in [S -> Nat]
<1>1. CASE x \in S
  <2>1. f[x] + 1 \in Nat
    BY <1>1
  <2> QED
    BY <1>1, <2>1
<1>2. CASE x \notin S
  BY <1>2
<1> QED
  BY <1>1, <1>2

(* Every step of every thread keeps every variable's type.                 *)
LEMMA TypeStep == TypeOK /\ [Next]_vars => TypeOK'
<1> SUFFICES ASSUME TypeOK, [Next]_vars
             PROVE  TypeOK'
  OBVIOUS
<1> USE DEF TypeOK, Pcs, StopPcs, AwakenPcs, HaltPcs, TerminatePcs,
            ActivatePcs, taskVars, threadVars, Goto, Step, Enter, At
<1>1. ASSUME NEW t \in Threads, NEW v \in Tasks, ActivateBegin(t, v)
      PROVE  TypeOK'
  BY <1>1 DEF ActivateBegin
<1>2. ASSUME NEW t \in Threads, ActivateReset(t) \/ ActivateInit(t)
                                \/ ActivateInitFails(t)
                                \/ ActivateSet(t) \/ ActivateFails(t)
      PROVE  TypeOK'
  BY <1>2 DEF ActivateReset, ActivateInit, ActivateInitFails, ActivateSet, ActivateFails
<1>3. ASSUME NEW t \in Threads, ActivateCreate(t)
      PROVE  TypeOK'
  <2>1. PICK n \in Threads :
          /\ tid' = [tid EXCEPT ![tgt[t]] = n]
          /\ pc' = [pc EXCEPT ![n] = "run", ![t] = "run"]
          /\ vm' = [vm EXCEPT ![n] = tgt[t]]
    BY <1>3 DEF ActivateCreate
  <2>2. tid' \in [Tasks -> Threads \cup {None}] /\ vm' \in [Threads -> Tasks \cup {None}]
    BY <2>1
  <2>3. pc' \in [Threads -> Pcs]
    BY <2>1
  <2> QED
    BY <1>3, <2>2, <2>3 DEF ActivateCreate
<1>4. ASSUME NEW t \in Threads, StopBegin(t) \/ StopInactive(t)
      PROVE  TypeOK'
  BY <1>4 DEF StopBegin, StopInactive, vars
<1>5. ASSUME NEW t \in Threads, StopFast(t) \/ StopLoop(t)
      PROVE  TypeOK'
  <2>1. /\ wake' \in [Tasks -> BOOLEAN]
        /\ stopped' \in [Tasks -> Nat]
    <3>1. CASE Consume(vm[t])
      BY <3>1, CounterUp DEF Consume
    <3>2. CASE UNCHANGED <<wake, stopped>>
      BY <3>2
    <3> QED
      BY <1>5, <3>1, <3>2 DEF StopFast, StopLoop
  <2>2. pc' \in [Threads -> Pcs] /\ UNCHANGED <<vm, tgt, cancel, joined>>
    BY <1>5 DEF StopFast, StopLoop
  <2> QED
    BY <1>5, <2>1, <2>2 DEF StopFast, StopLoop
<1>6. ASSUME NEW t \in Threads, StopLock(t) \/ StopBlock(t) \/ StopSpurious(t)
                                \/ StopReacquire(t) \/ StopUnlock(t)
                                \/ StopCancelled(t)
      PROVE  TypeOK'
  BY <1>6 DEF StopLock, StopBlock, StopSpurious, StopReacquire, StopUnlock,
              StopCancelled
<1>7. ASSUME NEW t \in Threads, NEW v \in Tasks,
             AwakenBegin(t, v) \/ AwakenInactive(t, v)
      PROVE  TypeOK'
  BY <1>7 DEF AwakenBegin, AwakenInactive, vars
<1>8. ASSUME NEW t \in Threads, AwakenLock(t) \/ AwakenSet(t) \/ AwakenUnlock(t)
      PROVE  TypeOK'
  <2>1. CASE AwakenSet(t)
    <3>1. awakened' \in [Tasks -> Nat] /\ wake' \in [Tasks -> BOOLEAN]
      BY <2>1, CounterUp DEF AwakenSet
    <3> QED
      BY <2>1, <3>1 DEF AwakenSet
  <2> QED
    BY <1>8, <2>1 DEF AwakenLock, AwakenUnlock
<1>9. ASSUME NEW t \in Threads, AwakenSignal(t)
      PROVE  TypeOK'
  BY <1>9 DEF AwakenSignal, Waiters
<1>10. ASSUME NEW t \in Threads, Halt(t)
       PROVE  TypeOK'
  BY <1>10 DEF Halt, UserHalt, HaltBegin, HaltClear, HaltDestroy,
               HaltInactive, vars
<1>11. ASSUME NEW t \in Threads, NEW v \in Tasks,
              TerminateBegin(t, v) \/ TerminateInactive(t, v)
       PROVE  TypeOK'
  BY <1>11 DEF TerminateBegin, TerminateInactive, vars
<1>12. ASSUME NEW t \in Threads, TerminateClear(t) \/ TerminateCancel(t)
                                 \/ TerminateJoin(t) \/ TerminateDestroy(t)
       PROVE  TypeOK'
  BY <1>12 DEF TerminateClear, TerminateCancel, TerminateJoin,
               TerminateDestroy
<1>13. ASSUME NEW t \in Threads, Pause(t) \/ InputOutput(t)
                                 \/ RunThreadReturns(t)
       PROVE  TypeOK'
  BY <1>13 DEF Pause, InputOutput, RunThreadReturns
<1>14. CASE UNCHANGED vars
  BY <1>14 DEF vars
<1> QED
  BY <1>1, <1>2, <1>3, <1>4, <1>5, <1>6, <1>7, <1>8, <1>9, <1>10, <1>11,
     <1>12, <1>13, <1>14
  DEF Next, ThreadStep, Activate, Stop, Awaken, Terminate

(* Every variable of TaskControl keeps its type: the flags of a task, the  *)
(* owner of its mutex and the control point of every thread (extras.c).    *)
THEOREM TypeCorrect == Spec => []TypeOK
<1>1. Init => TypeOK
  BY DEF Init, TypeOK, Pcs
<1> QED
  BY <1>1, TypeStep, PTL DEF Spec

(* No STOP returns on a wakeup nobody gave: the returns of a task's STOPs, *)
(* and the flag that is still up, are never more than the AWAKENs that set *)
(* the flag (ficlPrimitiveStop, ficlPrimitiveAwaken).                      *)
THEOREM WakeAccounted == Spec => []WakeAccount
<1>1. Init => WakeAccount
  BY DEF Init, WakeAccount
<1>2. TypeOK /\ WakeAccount /\ [Next]_vars => WakeAccount'
  <2> SUFFICES ASSUME TypeOK, WakeAccount, [Next]_vars
               PROVE  WakeAccount'
    OBVIOUS
  <2> USE DEF TypeOK, WakeAccount
  <2>1. ASSUME NEW t \in Threads, Consume(vm[t]), UNCHANGED awakened
        PROVE  WakeAccount'
    BY <2>1 DEF Consume
  <2>2. ASSUME NEW t \in Threads, AwakenSet(t)
        PROVE  WakeAccount'
    BY <2>2 DEF AwakenSet
  <2>3. ASSUME NEW t \in Threads,
               wake' = [wake EXCEPT ![tgt[t]] = FALSE]
                 \/ wake' = [wake EXCEPT ![vm[t]] = FALSE],
               UNCHANGED <<awakened, stopped>>
        PROVE  WakeAccount'
    BY <2>3
  <2>4. ASSUME UNCHANGED <<wake, awakened, stopped>>
        PROVE  WakeAccount'
    BY <2>4
  <2>5. ASSUME NEW t \in Threads, Activate(t) PROVE WakeAccount'
    BY <2>5, <2>3, <2>4
    DEF Activate, ActivateBegin, ActivateReset, ActivateInit, ActivateInitFails,
        ActivateSet, ActivateCreate, ActivateFails, taskVars
  <2>6. ASSUME NEW t \in Threads, Stop(t) \/ StopSpurious(t) PROVE WakeAccount'
    BY <2>6, <2>1, <2>4
    DEF Stop, StopBegin, StopInactive, StopFast, StopLock, StopLoop, StopBlock,
        StopReacquire, StopUnlock, StopCancelled, StopSpurious, taskVars, vars
  <2>7. ASSUME NEW t \in Threads, Awaken(t) PROVE WakeAccount'
    BY <2>7, <2>2, <2>4
    DEF Awaken, AwakenBegin, AwakenInactive, AwakenLock, AwakenSignal,
        AwakenUnlock, taskVars, vars
  <2>8. ASSUME NEW t \in Threads, Halt(t) PROVE WakeAccount'
    BY <2>8, <2>3, <2>4
    DEF Halt, UserHalt, HaltBegin, HaltClear, HaltDestroy, HaltInactive,
        taskVars, vars
  <2>9. ASSUME NEW t \in Threads, Terminate(t) PROVE WakeAccount'
    BY <2>9, <2>3, <2>4
    DEF Terminate, TerminateBegin, TerminateInactive, TerminateClear,
        TerminateCancel, TerminateJoin, TerminateDestroy, taskVars, vars
  <2>10. ASSUME NEW t \in Threads, Pause(t) \/ InputOutput(t)
                                   \/ RunThreadReturns(t)
         PROVE  WakeAccount'
    BY <2>10, <2>4 DEF Pause, InputOutput, RunThreadReturns, taskVars
  <2>11. CASE UNCHANGED vars
    BY <2>11, <2>4 DEF vars, taskVars
  <2> QED
    BY <2>5, <2>6, <2>7, <2>8, <2>9, <2>10, <2>11 DEF Next, ThreadStep
<1> QED
  BY <1>1, <1>2, TypeCorrect, PTL DEF Spec

--------------------------------------------------------------------------------
(* That no wakeup is lost is proved for programs in which the main thread   *)
(* alone activates, awakens and terminates, and TERMINATE is how a task     *)
(* ends; TLC checks it with AWAKENs of other tasks as well.                 *)
MainControls == /\ Discipline = "terminated"
                /\ TaskOps \subseteq {"stop", "pause", "io", "finish"}

Workers == Threads \ {Main}

(* Main is in a word that controls a task, the others are in STOP.         *)
Shape == /\ pc[Main] \in {"run"} \cup ActivatePcs \cup AwakenPcs \cup TerminatePcs
         /\ pc[Main] # "run" => tgt[Main] \in Tasks
         /\ \A t \in Workers : pc[t] \in {"none", "dead", "run"} \cup StopPcs

(* Main is in one of the words of ps, on v.                                *)
MainIn(ps, v) == pc[Main] \in ps /\ tgt[Main] = v

(* The VM of a running thread names that thread, and is marked active      *)
(* unless Main is waiting for the thread to end.                           *)
Runs == \A t \in Workers : Alive(t) =>
          /\ vm[t] \in Tasks
          /\ tid[vm[t]] = t
          /\ active[vm[t]] \/ MainIn({"terminate_cancel", "terminate_join"}, vm[t])

(* Before a thread is created in a VM, and after it is joined, no thread   *)
(* runs in that VM.                                                        *)
Empty == \A t \in Workers : Alive(t) =>
           ~MainIn(ActivatePcs \cup {"terminate_destroy"}, vm[t])

(* ACTIVATE marks the task before its thread exists, and TERMINATE marks   *)
(* it inactive before it waits.                                            *)
Marked == /\ pc[Main] = "activate_create" => active[tgt[Main]]
          /\ \A v \in Tasks :
               /\ MainIn({"terminate_clear"}, v) => active[v]
               /\ MainIn(TerminatePcs \ {"terminate_clear"}, v) => ~active[v]

(* Inside a critical section the thread owns the mutex.                    *)
Owns == /\ \A t \in Workers : HoldsOwn(t) => owner[vm[t]] = t
        /\ HoldsOther(Main) => owner[tgt[Main]] = Main

(* The flag is down when STOP calls pthread_cond_wait; if it is up while   *)
(* STOP waits, Main is about to signal.                                    *)
Wakes == \A t \in Workers :
           /\ At(t, "stop_block") => ~wake[vm[t]]
           /\ At(t, "stop_wait") /\ wake[vm[t]] => MainIn({"awaken_signal"}, vm[t])

Control == Shape /\ Runs /\ Empty /\ Marked /\ Owns /\ Wakes

IInv == TypeOK /\ Control

LEMMA Inductive == ASSUME MainControls, IInv, [Next]_vars PROVE IInv'
<1>1. TypeOK'
  BY TypeStep DEF IInv
<1> USE DEF MainControls, Workers, TypeOK, Shape, Runs, Empty, Marked, Owns,
            Wakes, MainIn, Alive, HoldsOwn, HoldsOther, At, May, Goto,
            Step, Enter, StopPcs, AwakenPcs, HaltPcs, TerminatePcs, ActivatePcs,
            taskVars, threadVars
<1>2. ASSUME NEW t \in Threads, NEW v \in Tasks, ActivateBegin(t, v) PROVE Control'
  <2>1. Shape'
    BY <1>2, <1>1 DEF IInv, Control, ActivateBegin, KnownIdle, FiclTask
  <2>2. Runs'
    BY <1>2, <1>1 DEF IInv, Control, ActivateBegin, KnownIdle, FiclTask
  <2>3. Empty'
    BY <1>2, <1>1 DEF IInv, Control, ActivateBegin, KnownIdle, FiclTask
  <2>4. Marked'
    BY <1>2, <1>1 DEF IInv, Control, ActivateBegin, KnownIdle, FiclTask
  <2>5. Owns'
    BY <1>2, <1>1 DEF IInv, Control, ActivateBegin, KnownIdle, FiclTask
  <2>6. Wakes'
    BY <1>2, <1>1 DEF IInv, Control, ActivateBegin, KnownIdle, FiclTask
  <2> QED
    BY <2>1, <2>2, <2>3, <2>4, <2>5, <2>6 DEF Control
<1>3. ASSUME NEW t \in Threads, ActivateReset(t) PROVE Control'
  BY <1>3, <1>1 DEF IInv, Control, ActivateReset
<1>4. ASSUME NEW t \in Threads, ActivateInit(t) PROVE Control'
  BY <1>4, <1>1 DEF IInv, Control, ActivateInit
<1>4a. ASSUME NEW t \in Threads, ActivateInitFails(t) PROVE Control'
  BY <1>4a, <1>1 DEF IInv, Control, ActivateInitFails
<1>5. ASSUME NEW t \in Threads, ActivateSet(t) PROVE Control'
  BY <1>5, <1>1 DEF IInv, Control, ActivateSet
<1>6. ASSUME NEW t \in Threads, ActivateCreate(t) PROVE Control'
  <2>1. Shape'
    BY <1>6, <1>1 DEF IInv, Control, ActivateCreate
  <2>2. Runs'
    <3>1. PICK n \in Threads :
            /\ pc[n] = "none" /\ n \in Workers
            /\ tid' = [tid EXCEPT ![tgt[Main]] = n]
            /\ pc' = [pc EXCEPT ![n] = "run", ![Main] = "run"]
            /\ vm' = [vm EXCEPT ![n] = tgt[Main]]
      BY <1>6 DEF IInv, Control, ActivateCreate
    <3>2. /\ UNCHANGED <<active, tgt>>
          /\ pc[Main] = "activate_create" /\ tgt[Main] \in Tasks
          /\ active[tgt[Main]]
      BY <1>6 DEF IInv, Control, ActivateCreate
    <3>3. ASSUME NEW s \in Workers, Alive(s)', s # n
          PROVE  /\ vm'[s] \in Tasks /\ tid'[vm'[s]] = s
                 /\ active'[vm'[s]]
      <4>1. Alive(s) /\ vm'[s] = vm[s] /\ vm[s] \in Tasks
        BY <3>1, <3>3 DEF IInv, Control
      <4>2. vm[s] # tgt[Main]
        BY <3>2, <4>1 DEF IInv, Control
      <4> QED
        BY <3>1, <3>2, <4>1, <4>2 DEF IInv, Control
    <3> QED
      BY <3>1, <3>2, <3>3 DEF IInv, Control
  <2>3. Empty'
    BY <1>6, <1>1 DEF IInv, Control, ActivateCreate
  <2>4. Marked'
    BY <1>6, <1>1 DEF IInv, Control, ActivateCreate
  <2>5. Owns'
    BY <1>6, <1>1 DEF IInv, Control, ActivateCreate
  <2>6. Wakes'
    BY <1>6, <1>1 DEF IInv, Control, ActivateCreate
  <2> QED
    BY <2>1, <2>2, <2>3, <2>4, <2>5, <2>6 DEF Control
<1>7. ASSUME NEW t \in Threads, ActivateFails(t) PROVE Control'
  BY <1>7, <1>1 DEF IInv, Control, ActivateFails
<1>8. ASSUME NEW t \in Threads, StopBegin(t) PROVE Control'
  BY <1>8, <1>1 DEF IInv, Control, StopBegin
<1>9. ASSUME NEW t \in Threads, StopInactive(t) PROVE Control'
  BY <1>9, <1>1 DEF IInv, Control, StopInactive, vars
<1>10. ASSUME NEW t \in Threads, StopFast(t) PROVE Control'
  <2>1. Shape'
    BY <1>10, <1>1 DEF IInv, Control, StopFast, Consume
  <2>2. Runs'
    BY <1>10, <1>1 DEF IInv, Control, StopFast, Consume
  <2>3. Empty'
    BY <1>10, <1>1 DEF IInv, Control, StopFast, Consume
  <2>4. Marked'
    BY <1>10, <1>1 DEF IInv, Control, StopFast, Consume
  <2>5. Owns'
    BY <1>10, <1>1 DEF IInv, Control, StopFast, Consume
  <2>6. Wakes'
    BY <1>10, <1>1 DEF IInv, Control, StopFast, Consume
  <2> QED
    BY <2>1, <2>2, <2>3, <2>4, <2>5, <2>6 DEF Control
<1>11. ASSUME NEW t \in Threads, StopLock(t) PROVE Control'
  BY <1>11, <1>1 DEF IInv, Control, StopLock
<1>12. ASSUME NEW t \in Threads, StopLoop(t) PROVE Control'
  <2>1. Shape'
    BY <1>12, <1>1 DEF IInv, Control, StopLoop, Consume
  <2>2. Runs'
    BY <1>12, <1>1 DEF IInv, Control, StopLoop, Consume
  <2>3. Empty'
    BY <1>12, <1>1 DEF IInv, Control, StopLoop, Consume
  <2>4. Marked'
    BY <1>12, <1>1 DEF IInv, Control, StopLoop, Consume
  <2>5. Owns'
    BY <1>12, <1>1 DEF IInv, Control, StopLoop, Consume
  <2>6. Wakes'
    BY <1>12, <1>1 DEF IInv, Control, StopLoop, Consume
  <2> QED
    BY <2>1, <2>2, <2>3, <2>4, <2>5, <2>6 DEF Control
<1>13. ASSUME NEW t \in Threads, StopBlock(t) PROVE Control'
  BY <1>13, <1>1 DEF IInv, Control, StopBlock
<1>14. ASSUME NEW t \in Threads, StopReacquire(t) PROVE Control'
  BY <1>14, <1>1 DEF IInv, Control, StopReacquire
<1>15. ASSUME NEW t \in Threads, StopUnlock(t) PROVE Control'
  BY <1>15, <1>1 DEF IInv, Control, StopUnlock
<1>16. ASSUME NEW t \in Threads, StopCancelled(t) PROVE Control'
  BY <1>16, <1>1 DEF IInv, Control, StopCancelled
<1>17. ASSUME NEW t \in Threads, StopSpurious(t) PROVE Control'
  BY <1>17, <1>1 DEF IInv, Control, StopSpurious
<1>18. ASSUME NEW t \in Threads, NEW v \in Tasks, AwakenBegin(t, v) PROVE Control'
  BY <1>18, <1>1 DEF IInv, Control, AwakenBegin
<1>19. ASSUME NEW t \in Threads, NEW v \in Tasks, AwakenInactive(t, v) PROVE Control'
  BY <1>19, <1>1 DEF IInv, Control, AwakenInactive, vars
<1>20. ASSUME NEW t \in Threads, AwakenLock(t) PROVE Control'
  BY <1>20, <1>1 DEF IInv, Control, AwakenLock
<1>21. ASSUME NEW t \in Threads, AwakenSet(t) PROVE Control'
  BY <1>21, <1>1 DEF IInv, Control, AwakenSet
<1>22. ASSUME NEW t \in Threads, AwakenSignal(t) PROVE Control'
  <2>1. Shape'
    BY <1>22, <1>1 DEF IInv, Control, AwakenSignal, Waiters
  <2>2. Runs'
    BY <1>22, <1>1 DEF IInv, Control, AwakenSignal, Waiters
  <2>3. Empty'
    BY <1>22, <1>1 DEF IInv, Control, AwakenSignal, Waiters
  <2>4. Marked'
    BY <1>22, <1>1 DEF IInv, Control, AwakenSignal, Waiters
  <2>5. Owns'
    BY <1>22, <1>1 DEF IInv, Control, AwakenSignal, Waiters
  <2>6. Wakes'
    BY <1>22, <1>1 DEF IInv, Control, AwakenSignal, Waiters
  <2> QED
    BY <2>1, <2>2, <2>3, <2>4, <2>5, <2>6 DEF Control
<1>23. ASSUME NEW t \in Threads, AwakenUnlock(t) PROVE Control'
  BY <1>23, <1>1 DEF IInv, Control, AwakenUnlock
<1>24. ASSUME NEW t \in Threads, Halt(t) PROVE Control'
  BY <1>24, <1>1 DEF Halt, IInv, Control, UserHalt, HaltBegin,
      HaltInactive, HaltClear, HaltDestroy
<1>25. ASSUME NEW t \in Threads, NEW v \in Tasks, TerminateBegin(t, v) PROVE Control'
  BY <1>25, <1>1 DEF IInv, Control, TerminateBegin
<1>26. ASSUME NEW t \in Threads, NEW v \in Tasks, TerminateInactive(t, v) PROVE Control'
  BY <1>26, <1>1 DEF IInv, Control, TerminateInactive, vars
<1>27. ASSUME NEW t \in Threads, TerminateClear(t) PROVE Control'
  <2>1. Shape'
    BY <1>27, <1>1 DEF IInv, Control, TerminateClear
  <2>2. Runs'
    BY <1>27, <1>1 DEF IInv, Control, TerminateClear
  <2>3. Empty'
    BY <1>27, <1>1 DEF IInv, Control, TerminateClear
  <2>4. Marked'
    BY <1>27, <1>1 DEF IInv, Control, TerminateClear
  <2>5. Owns'
    BY <1>27, <1>1 DEF IInv, Control, TerminateClear
  <2>6. Wakes'
    BY <1>27, <1>1 DEF IInv, Control, TerminateClear
  <2> QED
    BY <2>1, <2>2, <2>3, <2>4, <2>5, <2>6 DEF Control
<1>28. ASSUME NEW t \in Threads, TerminateCancel(t) PROVE Control'
  BY <1>28, <1>1 DEF IInv, Control, TerminateCancel
<1>29. ASSUME NEW t \in Threads, TerminateJoin(t) PROVE Control'
  <2>1. Shape'
    BY <1>29, <1>1 DEF IInv, Control, TerminateJoin
  <2>2. Runs'
    BY <1>29, <1>1 DEF IInv, Control, TerminateJoin
  <2>3. Empty'
    BY <1>29, <1>1 DEF IInv, Control, TerminateJoin
  <2>4. Marked'
    BY <1>29, <1>1 DEF IInv, Control, TerminateJoin
  <2>5. Owns'
    BY <1>29, <1>1 DEF IInv, Control, TerminateJoin
  <2>6. Wakes'
    BY <1>29, <1>1 DEF IInv, Control, TerminateJoin
  <2> QED
    BY <2>1, <2>2, <2>3, <2>4, <2>5, <2>6 DEF Control
<1>30. ASSUME NEW t \in Threads, TerminateDestroy(t) PROVE Control'
  <2>1. Shape'
    BY <1>30, <1>1 DEF IInv, Control, TerminateDestroy
  <2>2. Runs'
    BY <1>30, <1>1 DEF IInv, Control, TerminateDestroy
  <2>3. Empty'
    BY <1>30, <1>1 DEF IInv, Control, TerminateDestroy
  <2>4. Marked'
    BY <1>30, <1>1 DEF IInv, Control, TerminateDestroy
  <2>5. Owns'
    BY <1>30, <1>1 DEF IInv, Control, TerminateDestroy
  <2>6. Wakes'
    BY <1>30, <1>1 DEF IInv, Control, TerminateDestroy
  <2> QED
    BY <2>1, <2>2, <2>3, <2>4, <2>5, <2>6 DEF Control
<1>31. ASSUME NEW t \in Threads, Pause(t) PROVE Control'
  BY <1>31, <1>1 DEF IInv, Control, Pause
<1>32. ASSUME NEW t \in Threads, InputOutput(t) PROVE Control'
  BY <1>32, <1>1 DEF IInv, Control, InputOutput
<1>33. ASSUME NEW t \in Threads, RunThreadReturns(t) PROVE Control'
  BY <1>33, <1>1 DEF IInv, Control, RunThreadReturns
<1>34. ASSUME UNCHANGED vars PROVE Control'
  BY <1>34, <1>1 DEF IInv, Control, vars
<1> HIDE DEF MainControls, Workers, TypeOK, Shape, Runs, Empty, Marked,
             Owns, Wakes, MainIn, Alive, HoldsOwn, HoldsOther, At, May,
             Goto, Step, Enter, StopPcs, AwakenPcs, HaltPcs, TerminatePcs,
             ActivatePcs, taskVars, threadVars
<1>35. ASSUME NEW t \in Threads, Activate(t) PROVE Control'
  BY <1>35, <1>2, <1>3, <1>4, <1>4a, <1>5, <1>6, <1>7 DEF Activate
<1>36. ASSUME NEW t \in Threads, Stop(t) PROVE Control'
  BY <1>36, <1>8, <1>9, <1>10, <1>11, <1>12, <1>13, <1>14, <1>15, <1>16 DEF Stop
<1>37. ASSUME NEW t \in Threads, Awaken(t) PROVE Control'
  BY <1>37, <1>18, <1>19, <1>20, <1>21, <1>22, <1>23 DEF Awaken
<1>38. ASSUME NEW t \in Threads, Terminate(t) PROVE Control'
  BY <1>38, <1>25, <1>26, <1>27, <1>28, <1>29, <1>30 DEF Terminate
<1>39. ASSUME NEW t \in Threads, ThreadStep(t) PROVE Control'
  BY <1>39, <1>35, <1>36, <1>37, <1>38, <1>24, <1>31, <1>32, <1>33 DEF ThreadStep
<1>40. ASSUME Next PROVE Control'
  BY <1>40, <1>17, <1>39 DEF Next
<1>41. Control'
  BY <1>34, <1>40
<1> QED
  BY <1>1, <1>41 DEF IInv

LEMMA Initially == MainControls /\ Init => IInv
  BY DEF Init, IInv, Control, TypeOK, Pcs, Shape, Runs, Empty, Marked, Owns, Wakes,
         MainIn, Workers, Alive, HoldsOwn, HoldsOther, At, StopPcs,
         AwakenPcs, ActivatePcs, TerminatePcs

LEMMA AlwaysIInv == ASSUME MainControls PROVE Spec => []IInv
<1>1. Init => IInv
  BY Initially
<1>2. IInv /\ [Next]_vars => IInv'
  BY Inductive
<1> QED
  BY <1>1, <1>2, PTL DEF Spec

(* No wakeup is lost: between STOP's test of the flag and its sleep, and   *)
(* between AWAKEN's setting the flag and its signal, the mutex leaves no   *)
(* gap (ficlPrimitiveStop, ficlPrimitiveAwaken).                           *)
THEOREM NoWakeupLost == ASSUME MainControls PROVE Spec => []NoLostWakeup
<1>1. IInv => NoLostWakeup
  BY TaskControlAssumption
  DEF IInv, Control, TypeOK, NoLostWakeup, Shape, Wakes, MainIn, At, Workers, ActivatePcs,
      AwakenPcs, TerminatePcs
<1> QED
  BY <1>1, AlwaysIInv, PTL

--------------------------------------------------------------------------------
(* What follows is about programs whose tasks neither activate nor          *)
(* terminate: the main thread alone does.  Tasks may HALT, STOP and AWAKEN  *)
(* each other at any moment, and the calls of ACTIVATE may fail.            *)
MainAlone == TaskOps \cap {"activate", "terminate"} = {}

(* A task that is active, or that Main is about to cancel or to wait for,  *)
(* has a thread of its own which nobody joined.                            *)
Joinable ==
  /\ \A t \in Workers : pc[t] \notin ActivatePcs \cup TerminatePcs
  /\ pc[Main] \in ActivatePcs \cup TerminatePcs => tgt[Main] \in Tasks
  /\ \A v \in Tasks : tid[v] # None => pc[tid[v]] # "none"
  /\ \A v \in Tasks : \A w \in Tasks : tid[v] = tid[w] /\ tid[v] # None => v = w
  /\ \A t \in Threads : pc[t] = "none" => ~joined[t]
  /\ pc[Main] \in {"terminate_cancel", "terminate_join"} => ~active[tgt[Main]]
  /\ \A v \in Tasks :
       (\/ active[v] /\ ~MainIn({"activate_create"}, v)
        \/ MainIn({"terminate_clear", "terminate_cancel", "terminate_join"}, v))
         => tid[v] # None /\ ~joined[tid[v]]

LEMMA JoinableStep ==
  ASSUME MainAlone, TypeOK, Joinable, [Next]_vars PROVE Joinable'
<1> USE DEF MainAlone, Joinable, Workers, MainIn, TypeOK, At, May, Goto, Step, Enter,
            ActivatePcs, TerminatePcs, taskVars, threadVars
<1>1. ASSUME NEW t \in Threads, NEW v \in Tasks, ActivateBegin(t, v) PROVE Joinable'
  BY <1>1 DEF ActivateBegin
<1>2. ASSUME NEW t \in Threads, ActivateReset(t) \/ ActivateInit(t) \/ ActivateInitFails(t)
      PROVE  Joinable'
  BY <1>2 DEF ActivateReset, ActivateInit, ActivateInitFails
<1>3. ASSUME NEW t \in Threads, ActivateSet(t) \/ ActivateFails(t) PROVE Joinable'
  BY <1>3 DEF ActivateSet, ActivateFails
<1>4. ASSUME NEW t \in Threads, ActivateCreate(t) PROVE Joinable'
  <2>1. t = Main /\ pc[Main] = "activate_create" /\ tgt[Main] \in Tasks
    BY <1>4 DEF ActivateCreate
  <2>2. PICK n \in Threads :
          /\ pc[n] = "none" /\ n # Main
          /\ tid' = [tid EXCEPT ![tgt[Main]] = n]
          /\ pc' = [pc EXCEPT ![n] = "run", ![Main] = "run"]
    BY <1>4, <2>1 DEF ActivateCreate
  <2>3. UNCHANGED <<active, tgt, joined>>
    BY <1>4 DEF ActivateCreate
  <2>4. \A v \in Tasks : tid[v] # n
    BY <2>2
  <2> QED BY <2>1, <2>2, <2>3, <2>4
<1>5. ASSUME NEW t \in Threads, Stop(t) \/ StopSpurious(t) PROVE Joinable'
  BY <1>5 DEF Stop, StopBegin, StopInactive, StopFast, StopLock, StopLoop, StopBlock,
              StopReacquire, StopUnlock, StopCancelled, StopSpurious, vars
<1>6. ASSUME NEW t \in Threads, Awaken(t) PROVE Joinable'
  BY <1>6 DEF Awaken, AwakenBegin, AwakenInactive, AwakenLock, AwakenSet, AwakenSignal,
              AwakenUnlock, Waiters, vars
<1>7. ASSUME NEW t \in Threads, Halt(t) PROVE Joinable'
  BY <1>7 DEF Halt, UserHalt, HaltBegin, HaltClear, HaltDestroy, HaltInactive, vars
<1>8. ASSUME NEW t \in Threads, NEW v \in Tasks, TerminateBegin(t, v) \/ TerminateInactive(t, v)
      PROVE  Joinable'
  BY <1>8 DEF TerminateBegin, TerminateInactive, vars
<1>9. ASSUME NEW t \in Threads, TerminateClear(t) \/ TerminateCancel(t) \/ TerminateDestroy(t)
      PROVE  Joinable'
  BY <1>9 DEF TerminateClear, TerminateCancel, TerminateDestroy
<1>10. ASSUME NEW t \in Threads, TerminateJoin(t) PROVE Joinable'
  <2>1. /\ t = Main /\ pc[Main] = "terminate_join" /\ tgt[Main] \in Tasks
        /\ pc[tid[tgt[Main]]] = "dead" /\ ~active[tgt[Main]] /\ tid[tgt[Main]] \in Threads
    BY <1>10 DEF TerminateJoin
  <2>2. /\ joined' = [joined EXCEPT ![tid[tgt[Main]]] = TRUE]
        /\ pc' = [pc EXCEPT ![Main] = "terminate_destroy"]
        /\ UNCHANGED <<active, tid, tgt>>
    BY <1>10, <2>1 DEF TerminateJoin
  <2> QED BY <2>1, <2>2
<1>11. ASSUME NEW t \in Threads, Pause(t) \/ InputOutput(t) \/ RunThreadReturns(t)
       PROVE  Joinable'
  BY <1>11 DEF Pause, InputOutput, RunThreadReturns
<1>12. CASE UNCHANGED vars
  BY <1>12 DEF vars
<1> QED
  BY <1>1, <1>2, <1>3, <1>4, <1>5, <1>6, <1>7, <1>8, <1>9, <1>10, <1>11, <1>12
  DEF Next, ThreadStep, Activate, Terminate

(* TERMINATE cancels and joins a thread that exists, and no thread twice,  *)
(* whatever the tasks do: a HALT of the task between TERMINATE's test and  *)
(* its join changes nothing, for HALT joins nobody and leaves threadID (a  *)
(* second pthread_join of a thread is undefined; ficlPrimitiveTerminate,   *)
(* ficlPrimitiveHalt).                                                     *)
THEOREM JoinedOnce == ASSUME MainAlone PROVE Spec => []JoinsOnce
<1>1. Init => Joinable
  BY DEF Init, Joinable, Workers, MainIn, ActivatePcs, TerminatePcs
<1>2. TypeOK /\ Joinable /\ [Next]_vars => Joinable'
  BY JoinableStep
<1>3. TypeOK /\ Joinable => JoinsOnce
  BY DEF TypeOK, Joinable, JoinsOnce, Workers, MainIn, TerminatePcs
<1> QED
  BY <1>1, <1>2, <1>3, TypeCorrect, PTL DEF Spec

(* The main thread knows that a task which it activates is idle: because   *)
(* it never activated it before, or because TERMINATE is how tasks end.    *)
IdleKnown ==
  \/ Discipline = "once"
  \/ Discipline = "terminated" /\ "halt" \notin TaskOps

(* The VM of a running thread names that thread, and its mutex and         *)
(* condition variable are there.  Main runs neither STOP nor HALT.         *)
Inside ==
  /\ \A t \in Workers : Alive(t) => vm[t] \in Tasks /\ tid[vm[t]] = t /\ live[vm[t]]
  /\ \A v \in Tasks : MainIn({"activate_set", "activate_create"}, v) => live[v]
  /\ pc[Main] \notin StopPcs \cup HaltPcs

(* Where tasks end by TERMINATE a running thread is marked active unless   *)
(* Main is waiting for it, and nobody HALTs.                               *)
Flagged ==
  Discipline = "terminated" =>
    /\ \A t \in Workers : Alive(t) =>
         active[vm[t]] \/ MainIn({"terminate_cancel", "terminate_join"}, vm[t])
    /\ pc[Main] = "activate_create" => active[tgt[Main]]
    /\ \A t \in Threads : pc[t] \notin HaltPcs

(* The same of Main about a task that it activates or has joined.          *)
Running == Inside /\ Empty /\ Flagged

LEMMA RunningStep ==
  ASSUME MainAlone, IdleKnown, TypeOK, Joinable, Running, [Next]_vars PROVE Running'
<1>0. /\ Main \in Threads
      /\ \A t \in Workers : pc[t] \notin ActivatePcs \cup TerminatePcs
      /\ pc[Main] \in ActivatePcs \cup TerminatePcs => tgt[Main] \in Tasks
  BY DEF Joinable
<1> USE <1>0 DEF MainAlone, IdleKnown, Running, Inside, Empty, Flagged, Workers, MainIn,
            Alive, TypeOK, At, May, Goto, Step, Enter, StopPcs, HaltPcs,
            ActivatePcs, TerminatePcs, taskVars, threadVars
<1>1. ASSUME NEW t \in Threads, NEW v \in Tasks, ActivateBegin(t, v) PROVE Running'
  <2>1. (~active[v] /\ Discipline = "terminated") \/ tid[v] = None
    <3>1. CASE Discipline = "terminated"
      BY <1>1, <3>1 DEF ActivateBegin, KnownIdle
    <3>2. CASE Discipline = "once"
      BY <1>1, <3>2 DEF ActivateBegin, KnownIdle
    <3> QED BY <3>1, <3>2
  <2>2. /\ t = Main /\ pc[Main] = "run"
        /\ pc' = [pc EXCEPT ![Main] = "activate_reset"] /\ tgt' = [tgt EXCEPT ![Main] = v]
        /\ UNCHANGED <<active, tid, live, vm>>
    BY <1>1 DEF ActivateBegin
  <2>3. \A s \in Workers : Alive(s) => vm[s] # v
    BY <2>1, <2>2
  <2> QED BY <2>2, <2>3
<1>2. ASSUME NEW t \in Threads, ActivateReset(t) \/ ActivateInit(t) \/ ActivateInitFails(t)
      PROVE  Running'
  BY <1>2 DEF ActivateReset, ActivateInit, ActivateInitFails
<1>3. ASSUME NEW t \in Threads, ActivateSet(t) \/ ActivateFails(t) PROVE Running'
  BY <1>3 DEF ActivateSet, ActivateFails
<1>4. ASSUME NEW t \in Threads, ActivateCreate(t) PROVE Running'
  <2>1. t = Main /\ pc[Main] = "activate_create" /\ tgt[Main] \in Tasks /\ live[tgt[Main]]
    BY <1>4 DEF ActivateCreate
  <2>2. PICK n \in Threads :
          /\ pc[n] = "none" /\ n # Main
          /\ tid' = [tid EXCEPT ![tgt[Main]] = n]
          /\ pc' = [pc EXCEPT ![n] = "run", ![Main] = "run"]
          /\ vm' = [vm EXCEPT ![n] = tgt[Main]]
    BY <1>4, <2>1 DEF ActivateCreate
  <2>3. UNCHANGED <<active, live, tgt>>
    BY <1>4 DEF ActivateCreate
  <2>4. ASSUME NEW s \in Workers, Alive(s)', s # n
        PROVE  /\ Alive(s) /\ vm'[s] = vm[s] /\ vm[s] \in Tasks /\ vm[s] # tgt[Main]
               /\ tid'[vm'[s]] = s /\ live'[vm'[s]]
    BY <2>1, <2>2, <2>3, <2>4
  <2>5. Inside'
    BY <2>1, <2>2, <2>3, <2>4
  <2>6. Empty'
    BY <2>1, <2>2
  <2>7. Flagged'
    BY <2>1, <2>2, <2>3, <2>4
  <2> QED BY <2>5, <2>6, <2>7
<1>5. ASSUME NEW t \in Threads, Stop(t) \/ StopSpurious(t) PROVE Running'
  BY <1>5 DEF Stop, StopBegin, StopInactive, StopFast, StopLock, StopLoop, StopBlock,
              StopReacquire, StopUnlock, StopCancelled, StopSpurious, vars
<1>6. ASSUME NEW t \in Threads, Awaken(t) PROVE Running'
  BY <1>6 DEF Awaken, AwakenBegin, AwakenInactive, AwakenLock, AwakenSet, AwakenSignal,
              AwakenUnlock, Waiters, vars
<1>7. ASSUME NEW t \in Threads, Halt(t) PROVE Running'
  <2>1. CASE UserHalt(t) \/ HaltBegin(t) \/ HaltInactive(t)
    BY <2>1 DEF UserHalt, HaltBegin, HaltInactive, vars
  <2>2. CASE HaltClear(t)
    BY <2>2 DEF HaltClear
  <2>3. CASE HaltDestroy(t)
    <3>1. /\ pc[t] = "halt_destroy" /\ pc' = [pc EXCEPT ![t] = "dead"]
          /\ live' = [live EXCEPT ![vm[t]] = FALSE]
          /\ UNCHANGED <<active, tid, vm, tgt>>
      BY <2>3 DEF HaltDestroy
    <3>2. t # Main => Alive(t)
      BY <3>1
    <3>3. \A s \in Workers : Alive(s)' => Alive(s) /\ s # t
      BY <3>1
    <3>4. t = Main \/ (\A s \in Workers : Alive(s) /\ vm[s] = vm[t] => s = t)
      BY <3>2
    <3> QED BY <3>1, <3>2, <3>3, <3>4
  <2> QED BY <1>7, <2>1, <2>2, <2>3 DEF Halt
<1>8. ASSUME NEW t \in Threads, NEW v \in Tasks, TerminateBegin(t, v) \/ TerminateInactive(t, v)
      PROVE  Running'
  BY <1>8 DEF TerminateBegin, TerminateInactive, vars
<1>9. ASSUME NEW t \in Threads, TerminateClear(t) \/ TerminateCancel(t) \/ TerminateDestroy(t)
      PROVE  Running'
  BY <1>9 DEF TerminateClear, TerminateCancel, TerminateDestroy
<1>10. ASSUME NEW t \in Threads, TerminateJoin(t) PROVE Running'
  BY <1>10 DEF TerminateJoin
<1>11. ASSUME NEW t \in Threads, Pause(t) \/ InputOutput(t) \/ RunThreadReturns(t)
       PROVE  Running'
  BY <1>11 DEF Pause, InputOutput, RunThreadReturns
<1>12. CASE UNCHANGED vars
  BY <1>12 DEF vars
<1> QED
  BY <1>1, <1>2, <1>3, <1>4, <1>5, <1>6, <1>7, <1>8, <1>9, <1>10, <1>11, <1>12
  DEF Next, ThreadStep, Activate, Terminate

LEMMA AlwaysRunning ==
  ASSUME MainAlone, IdleKnown PROVE Spec => [](TypeOK /\ Joinable /\ Running)
<1>1. Init => Joinable /\ Running
  BY DEF Init, Joinable, Running, Inside, Empty, Flagged, Alive, Workers, MainIn, StopPcs,
         HaltPcs, ActivatePcs, TerminatePcs
<1>2. TypeOK /\ Joinable /\ Running /\ [Next]_vars => Joinable' /\ Running'
  BY JoinableStep, RunningStep
<1> QED
  BY <1>1, <1>2, TypeCorrect, PTL DEF Spec

(* A VM is never run by two threads, although ACTIVATE does not test the   *)
(* flag: each task has one thread ever, or TERMINATE joins the old one     *)
(* (ficlPrimitiveActivate, ficlVmTerminateThread).                         *)
THEOREM OneThread == ASSUME MainAlone, IdleKnown PROVE Spec => []OneThreadPerVm
<1>1. Running => OneThreadPerVm
  BY DEF Running, Inside, OneThreadPerVm, Workers, Alive
<1> QED
  BY <1>1, AlwaysRunning, PTL

(* A task inside STOP never finds its mutex or condition variable          *)
(* destroyed, whoever awakens, terminates or fails to activate: what       *)
(* destroys them is its own HALT, or TERMINATE when it has joined the      *)
(* thread (ficlPrimitiveStop, ficlVmTerminateThread).                      *)
THEOREM StopsOnLive == ASSUME MainAlone, IdleKnown PROVE Spec => []StopsLive
<1>1. TypeOK /\ Running => StopsLive
  <2> SUFFICES ASSUME TypeOK, Running, NEW t \in Threads, pc[t] \in StopPcs
               PROVE  live[vm[t]]
    BY DEF StopsLive
  <2>1. CASE t \in Workers
    BY <2>1 DEF Running, Inside, Alive, StopPcs
  <2> QED BY <2>1 DEF Workers, Running, Inside
<1> QED
  BY <1>1, AlwaysRunning, PTL

--------------------------------------------------------------------------------
(* The VMs of the system.                                                  *)

(* The least number of a set. *)
LEMMA Least ==
  ASSUME NEW T \in SUBSET Nat, T # {} PROVE \E x \in T : \A y \in T : x <= y
<1> DEFINE U == {0..n : n \in T}
<1>1. U \subseteq FiniteSubsetsOf(Nat)
  <2>1. ASSUME NEW n \in T PROVE IsFiniteSet(0..n)
    BY FS_Interval
  <2>2. ASSUME NEW n \in T PROVE 0..n \subseteq Nat
    OBVIOUS
  <2> QED BY <2>1, <2>2 DEF FiniteSubsetsOf
<1>2. U # {}
  OBVIOUS
<1> HIDE DEF U
<1>3. PICK u \in U : \A v \in U : <<v, u>> \notin StrictSubsetOrdering(Nat)
  BY <1>1, <1>2, FS_StrictSubsetOrderingWellFounded, WFMin
<1>4. PICK m \in T : u = 0..m
  BY DEF U
<1>5. ASSUME NEW n \in T, n < m PROVE FALSE
  <2>1. 0..n \in U
    BY DEF U
  <2>2. 0..n \in SUBSET Nat /\ u \in SUBSET Nat
    BY <1>4
  <2>3. 0..n \subseteq u /\ 0..n # u
    <3>1. m \in 0..m /\ m \notin 0..n
      BY <1>5
    <3> QED BY <1>4, <1>5, <3>1
  <2>4. <<0..n, u>> \in StrictSubsetOrdering(Nat)
    BY <2>2, <2>3 DEF StrictSubsetOrdering
  <2> QED BY <1>3, <2>1, <2>4
<1> QED BY <1>5


(* The list as a sequence of VMs: it begins at head and goes from each to  *)
(* the next, down to None, and these are the VMs that are held.            *)
Chained(n, s, head, to, held) ==
  /\ head = IF n = 0 THEN None ELSE s[1]
  /\ \A i \in 1..n : to[s[i]] = IF i = n THEN None ELSE s[i + 1]
  /\ \A i \in 1..n : \A j \in 1..n : s[i] = s[j] => i = j
  /\ held = {s[i] : i \in 1..n}

ListIs(head, to, held) ==
  \E n \in Nat : \E s \in [1..n -> Vms] : Chained(n, s, head, to, held)

(* A VM put in front (InitVm of system.c).                                 *)
LEMMA Pushed ==
  ASSUME NEW head, NEW to, NEW held, ListIs(head, to, held),
         NEW v \in Vms, v \notin held, to[v] = head
  PROVE  ListIs(v, to, held \cup {v})
<1>1. PICK n \in Nat : \E s \in [1..n -> Vms] : Chained(n, s, head, to, held)
  BY DEF ListIs
<1>2. PICK s \in [1..n -> Vms] : Chained(n, s, head, to, held)
  BY <1>1
<1> DEFINE q == [i \in 1..(n + 1) |-> IF i = 1 THEN v ELSE s[i - 1]]
<1>3. q \in [1..(n + 1) -> Vms]
  OBVIOUS
<1>4. \A i \in 1..(n + 1) : q[i] = IF i = 1 THEN v ELSE s[i - 1]
  OBVIOUS
<1>5. q[1] = v /\ \A i \in 1..n : q[i + 1] = s[i]
  BY <1>4
<1> HIDE DEF q
<1>6. \A i \in 2..(n + 1) : i - 1 \in 1..n /\ q[i] = s[i - 1] /\ q[i] \in held
  BY <1>2, <1>4 DEF Chained
<1>7. ASSUME NEW i \in 1..(n + 1)
      PROVE  to[q[i]] = IF i = n + 1 THEN None ELSE q[i + 1]
  <2>1. CASE i = 1
    BY <1>2, <1>5, <2>1 DEF Chained
  <2>2. CASE i # 1
    <3>1. i \in 2..(n + 1) /\ i - 1 \in 1..n /\ (i - 1) + 1 = i
      BY <2>2
    <3>2. to[s[i - 1]] = IF i - 1 = n THEN None ELSE s[(i - 1) + 1]
      BY <1>2, <3>1 DEF Chained
    <3>3. i # n + 1 => q[i + 1] = s[i]
      BY <1>5, <3>1
    <3> QED BY <1>6, <3>1, <3>2, <3>3
  <2> QED BY <2>1, <2>2
<1>8. ASSUME NEW i \in 1..(n + 1), NEW j \in 1..(n + 1), q[i] = q[j] PROVE i = j
  <2>1. CASE i = 1 \/ j = 1
    BY <1>5, <1>6, <1>8, <2>1
  <2>2. CASE i # 1 /\ j # 1
    <3>1. i \in 2..(n + 1) /\ j \in 2..(n + 1)
      BY <2>2
    <3>2. i - 1 = j - 1
      BY <1>2, <1>6, <1>8, <3>1 DEF Chained
    <3> QED BY <3>2
  <2> QED BY <2>1, <2>2
<1>9. held \cup {v} = {q[i] : i \in 1..(n + 1)}
  <2>1. ASSUME NEW x \in held PROVE x \in {q[i] : i \in 1..(n + 1)}
    <3>1. PICK i \in 1..n : x = s[i]
      BY <1>2 DEF Chained
    <3>2. i + 1 \in 1..(n + 1) /\ x = q[i + 1]
      BY <1>5, <3>1
    <3> QED BY <3>2
  <2>2. v \in {q[i] : i \in 1..(n + 1)}
    BY <1>5
  <2>3. ASSUME NEW i \in 1..(n + 1) PROVE q[i] \in held \cup {v}
    BY <1>5, <1>6
  <2> QED BY <2>1, <2>2, <2>3
<1>10. Chained(n + 1, q, v, to, held \cup {v})
  BY <1>5, <1>7, <1>8, <1>9 DEF Chained
<1> QED BY <1>3, <1>10 DEF ListIs

(* A VM taken out: the first one, or the one behind another (DestroyVm,    *)
(* Destroy of system.c).                                                   *)
LEMMA Popped ==
  ASSUME NEW head \in Vms, NEW to, NEW held, ListIs(head, to, held)
  PROVE  head \in held /\ ListIs(to[head], to, held \ {head})
<1>1. PICK n \in Nat : \E s \in [1..n -> Vms] : Chained(n, s, head, to, held)
  BY DEF ListIs
<1>2. PICK s \in [1..n -> Vms] : Chained(n, s, head, to, held)
  BY <1>1
<1>3. n # 0 /\ n - 1 \in Nat /\ 1 \in 1..n /\ s[1] = head
  BY <1>2, VmsAssumption DEF Chained
<1> DEFINE q == [i \in 1..(n - 1) |-> s[i + 1]]
<1>4. q \in [1..(n - 1) -> Vms] /\ \A i \in 1..(n - 1) : q[i] = s[i + 1]
  BY <1>3
<1> HIDE DEF q
<1>5. to[head] = IF n - 1 = 0 THEN None ELSE q[1]
  BY <1>2, <1>3, <1>4 DEF Chained
<1>6. ASSUME NEW i \in 1..(n - 1)
      PROVE  to[q[i]] = IF i = n - 1 THEN None ELSE q[i + 1]
  <2>1. i + 1 \in 1..n /\ (i # n - 1 => i + 1 \in 1..(n - 1)) /\ (i = n - 1 <=> i + 1 = n)
    BY <1>3
  <2>2. to[s[i + 1]] = IF i + 1 = n THEN None ELSE s[(i + 1) + 1]
    BY <1>2, <2>1 DEF Chained
  <2>3. i # n - 1 => q[i + 1] = s[(i + 1) + 1]
    BY <1>4, <2>1
  <2> QED BY <1>4, <2>1, <2>2, <2>3
<1>7. ASSUME NEW i \in 1..(n - 1), NEW j \in 1..(n - 1), q[i] = q[j] PROVE i = j
  <2>1. i + 1 \in 1..n /\ j + 1 \in 1..n /\ s[i + 1] = s[j + 1]
    BY <1>3, <1>4, <1>7
  <2>2. i + 1 = j + 1
    BY <1>2, <2>1 DEF Chained
  <2> QED BY <2>2
<1>8. held \ {head} = {q[i] : i \in 1..(n - 1)}
  <2>1. ASSUME NEW x \in held \ {head} PROVE x \in {q[i] : i \in 1..(n - 1)}
    <3>1. PICK i \in 1..n : x = s[i]
      BY <1>2 DEF Chained
    <3>2. i - 1 \in 1..(n - 1) /\ (i - 1) + 1 = i
      BY <1>3, <3>1
    <3>3. x = q[i - 1]
      BY <1>4, <3>1, <3>2
    <3> QED BY <3>2, <3>3
  <2>2. ASSUME NEW i \in 1..(n - 1) PROVE q[i] \in held \ {head}
    <3>1. i + 1 \in 1..n /\ i + 1 # 1
      BY <1>3
    <3>2. s[i + 1] \in held /\ s[i + 1] # s[1]
      BY <1>2, <1>3, <3>1 DEF Chained
    <3> QED BY <1>3, <1>4, <3>2
  <2> QED BY <2>1, <2>2
<1>9. Chained(n - 1, q, to[head], to, held \ {head})
  BY <1>5, <1>6, <1>7, <1>8 DEF Chained
<1>10. head \in held
  BY <1>2, <1>3 DEF Chained
<1> QED BY <1>3, <1>4, <1>9, <1>10 DEF ListIs

LEMMA Dropped ==
  ASSUME NEW head, NEW to \in [Vms -> Vms \cup {None}], NEW held, ListIs(head, to, held),
         NEW p \in held, NEW v \in Vms, to[p] = v
  PROVE  v \in held /\ ListIs(head, [to EXCEPT ![p] = to[v]], held \ {v})
<1>1. PICK n \in Nat : \E s \in [1..n -> Vms] : Chained(n, s, head, to, held)
  BY DEF ListIs
<1>2. PICK s \in [1..n -> Vms] : Chained(n, s, head, to, held)
  BY <1>1
<1>3. PICK k \in 1..n : p = s[k]
  BY <1>2 DEF Chained
<1>4. k # n /\ k + 1 \in 1..n /\ s[k + 1] = v /\ n - 1 \in Nat
  <2>1. to[p] = IF k = n THEN None ELSE s[k + 1]
    BY <1>2, <1>3 DEF Chained
  <2>2. k # n
    BY <2>1, VmsAssumption
  <2> QED BY <2>1, <2>2
<1> DEFINE q == [i \in 1..(n - 1) |-> IF i <= k THEN s[i] ELSE s[i + 1]]
           t == [to EXCEPT ![p] = to[v]]
<1>5. q \in [1..(n - 1) -> Vms] /\ \A i \in 1..(n - 1) : q[i] = IF i <= k THEN s[i] ELSE s[i + 1]
  BY <1>4
<1>6. t[p] = to[v] /\ \A x \in Vms : x # p => t[x] = to[x]
  BY <1>3
<1> HIDE DEF q, t
<1>7. \A i \in 1..n : \A j \in 1..n : s[i] = s[j] => i = j
  BY <1>2 DEF Chained
<1>8. \A i \in 1..n : to[s[i]] = IF i = n THEN None ELSE s[i + 1]
  BY <1>2 DEF Chained
<1>9. \A i \in 1..(n - 1) : i \in 1..n /\ i + 1 \in 1..n
  BY <1>4
<1>10. ASSUME NEW i \in 1..(n - 1)
       PROVE  t[q[i]] = IF i = n - 1 THEN None ELSE q[i + 1]
  <2>1. i # n - 1 => i + 1 \in 1..(n - 1)
    BY <1>4
  <2>2. CASE i < k
    <3>1. q[i] = s[i] /\ i # n - 1 /\ q[i + 1] = s[i + 1]
      BY <1>4, <1>5, <2>1, <2>2
    <3>2. s[i] # p /\ to[s[i]] = s[i + 1]
      BY <1>3, <1>4, <1>7, <1>8, <1>9, <2>2
    <3> QED BY <1>6, <1>9, <3>1, <3>2
  <2>3. CASE i = k
    <3>1. q[i] = p /\ t[q[i]] = to[s[k + 1]]
      BY <1>3, <1>4, <1>5, <1>6, <2>3
    <3>2. to[s[k + 1]] = IF k + 1 = n THEN None ELSE s[(k + 1) + 1]
      BY <1>4, <1>8
    <3>3. i # n - 1 => q[i + 1] = s[(i + 1) + 1]
      <4>1. ~(i + 1 <= k)
        BY <2>3
      <4> QED BY <1>5, <2>1, <4>1
    <3>4. k + 1 = n <=> i = n - 1
      BY <2>3
    <3> QED BY <2>3, <3>1, <3>2, <3>3, <3>4
  <2>4. CASE i > k
    <3>1. q[i] = s[i + 1]
      BY <1>5, <2>4
    <3>2. to[s[i + 1]] = IF i + 1 = n THEN None ELSE s[(i + 1) + 1]
      BY <1>8, <1>9
    <3>3. i # n - 1 => q[i + 1] = s[(i + 1) + 1]
      <4>1. ~(i + 1 <= k)
        BY <2>4
      <4> QED BY <1>5, <2>1, <4>1
    <3>4. s[i + 1] # p
      BY <1>3, <1>7, <1>9, <2>4
    <3>5. i + 1 = n <=> i = n - 1
      OBVIOUS
    <3> QED BY <1>6, <1>9, <3>1, <3>2, <3>3, <3>4, <3>5
  <2> QED BY <2>2, <2>3, <2>4
<1>11. ASSUME NEW i \in 1..(n - 1), NEW j \in 1..(n - 1), q[i] = q[j] PROVE i = j
  <2> DEFINE at1 == IF i <= k THEN i ELSE i + 1
             at2 == IF j <= k THEN j ELSE j + 1
  <2>1. at1 \in 1..n /\ at2 \in 1..n /\ q[i] = s[at1] /\ q[j] = s[at2]
    BY <1>5, <1>9
  <2>2. at1 = at2
    BY <1>7, <1>11, <2>1
  <2> QED BY <2>2
<1>12. held \ {v} = {q[i] : i \in 1..(n - 1)}
  <2>1. ASSUME NEW x \in held \ {v} PROVE x \in {q[i] : i \in 1..(n - 1)}
    <3>1. PICK i \in 1..n : x = s[i]
      BY <1>2 DEF Chained
    <3>2. i # k + 1
      BY <1>4, <3>1
    <3>3. CASE i <= k
      BY <1>4, <1>5, <3>1, <3>3
    <3>4. CASE i > k
      <4>1. i - 1 \in 1..(n - 1) /\ ~(i - 1 <= k) /\ (i - 1) + 1 = i
        BY <3>2, <3>4
      <4>2. x = q[i - 1]
        BY <1>5, <3>1, <4>1
      <4> QED BY <4>1, <4>2
    <3> QED BY <3>3, <3>4
  <2>2. ASSUME NEW i \in 1..(n - 1) PROVE q[i] \in held \ {v}
    <3> DEFINE at1 == IF i <= k THEN i ELSE i + 1
    <3>1. at1 \in 1..n /\ at1 # k + 1 /\ q[i] = s[at1]
      BY <1>5, <1>9
    <3>2. s[at1] # v
      BY <1>4, <1>7, <3>1
    <3> QED BY <1>2, <3>1, <3>2 DEF Chained
  <2> QED BY <2>1, <2>2
<1>13. head = IF n - 1 = 0 THEN None ELSE q[1]
  BY <1>2, <1>4, <1>5 DEF Chained
<1>14. Chained(n - 1, q, head, t, held \ {v})
  BY <1>10, <1>11, <1>12, <1>13 DEF Chained
<1>15. v \in held
  BY <1>2, <1>4 DEF Chained
<1> QED BY <1>4, <1>5, <1>14, <1>15 DEF ListIs, t

(* Whoever is on the list leads to another one of it or to its end.        *)
LEMMA Onward ==
  ASSUME NEW head, NEW to, NEW held, ListIs(head, to, held), NEW p \in held
  PROVE  to[p] \in held \cup {None}
<1>1. PICK n \in Nat : \E s \in [1..n -> Vms] : Chained(n, s, head, to, held)
  BY DEF ListIs
<1>2. PICK s \in [1..n -> Vms] : Chained(n, s, head, to, held)
  BY <1>1
<1>3. PICK i \in 1..n : p = s[i]
  BY <1>2 DEF Chained
<1>4. i # n => i + 1 \in 1..n
  OBVIOUS
<1> QED BY <1>2, <1>3, <1>4 DEF Chained

(* What a VM outside the list has in its link does not matter.             *)
LEMMA Unheld ==
  ASSUME NEW head, NEW to \in [Vms -> Vms \cup {None}], NEW held, ListIs(head, to, held),
         NEW v, v \notin held, NEW x
  PROVE  ListIs(head, [to EXCEPT ![v] = x], held)
<1>1. PICK n \in Nat : \E s \in [1..n -> Vms] : Chained(n, s, head, to, held)
  BY DEF ListIs
<1>2. PICK s \in [1..n -> Vms] : Chained(n, s, head, to, held)
  BY <1>1
<1> DEFINE t == [to EXCEPT ![v] = x]
<1>3. \A y \in Vms : y # v => t[y] = to[y]
  OBVIOUS
<1>4. \A i \in 1..n : s[i] \in Vms /\ s[i] # v
  BY <1>2 DEF Chained
<1> HIDE DEF t
<1>5. \A i \in 1..n : t[s[i]] = to[s[i]]
  BY <1>3, <1>4
<1>6. Chained(n, s, head, t, held)
  BY <1>2, <1>5 DEF Chained
<1> QED BY <1>6 DEF ListIs, t

(* The walk of the list that Listed is about (system.c).                   *)
LEMMA Sizes == Cardinality(Vms) \in Nat
BY VmsAssumption, FS_CardinalityType

LEMMA SameSize == V!Cardinality(Vms) = Cardinality(Vms)
BY DEF V!Cardinality, Cardinality, V!IsFiniteSet, IsFiniteSet

(* A function that goes along the list.                                    *)
Follows(f, N) ==
  f = [k \in 0..N |->
        IF k = 0 THEN vmList ELSE IF f[k - 1] = None THEN None ELSE link[f[k - 1]]]

LEMMA ChainFollows ==
  ASSUME NEW f, Follows(f, Cardinality(Vms))
  PROVE  V!Chain = f
<1> DEFINE N == Cardinality(Vms)
           c == V!Chain
<1>1. N \in Nat
  BY Sizes
<1>2. V!Chain = CHOOSE g : Follows(g, V!Cardinality(Vms))
  BY Zenon DEF V!Chain, Follows
<1>3. Follows(c, N)
  BY <1>2, SameSize
<1> HIDE DEF N, c
<1>4. /\ c = [k \in 0..N |-> IF k = 0 THEN vmList ELSE IF c[k - 1] = None THEN None ELSE link[c[k - 1]]]
      /\ f = [k \in 0..N |-> IF k = 0 THEN vmList ELSE IF f[k - 1] = None THEN None ELSE link[f[k - 1]]]
  BY <1>3 DEF Follows, N
<1>5. /\ \A k \in 0..N : c[k] = IF k = 0 THEN vmList ELSE IF c[k - 1] = None THEN None ELSE link[c[k - 1]]
      /\ \A k \in 0..N : f[k] = IF k = 0 THEN vmList ELSE IF f[k - 1] = None THEN None ELSE link[f[k - 1]]
  BY <1>4, Zenon
<1>6. ASSUME NEW k \in 0..N, c[k] # f[k] PROVE FALSE
  <2> DEFINE T == {i \in 0..N : c[i] # f[i]}
  <2>1. T \in SUBSET Nat /\ T # {}
    BY <1>1, <1>6
  <2> HIDE DEF T
  <2>2. PICK i \in T : \A j \in T : i <= j
    BY <2>1, Least
  <2>3. i \in 0..N /\ c[i] # f[i]
    BY DEF T
  <2>4. CASE i = 0
    BY <1>5, <2>3, <2>4
  <2>5. CASE i # 0
    <3>1. i - 1 \in 0..N /\ i - 1 \notin T
      BY <1>1, <2>2, <2>3, <2>5
    <3>2. c[i - 1] = f[i - 1]
      BY <3>1 DEF T
    <3> QED BY <1>5, <2>3, <2>5, <3>2
  <2> QED BY <2>4, <2>5
<1>7. c = [k \in 0..N |-> c[k]] /\ f = [k \in 0..N |-> f[k]]
  BY <1>4, Zenon
<1>8. c = f
  BY <1>6, <1>7
<1> QED BY <1>8 DEF c

LEMMA ListWalked ==
  ASSUME ListIs(vmList, link, members), members \subseteq Vms
  PROVE  V!Listed
<1>1. PICK n \in Nat : \E s \in [1..n -> Vms] : Chained(n, s, vmList, link, members)
  BY DEF ListIs
<1>2. PICK s \in [1..n -> Vms] : Chained(n, s, vmList, link, members)
  BY <1>1
<1>3. Cardinality(members) = n /\ n <= Cardinality(Vms)
  <2>1. s \in Bijection(1..n, members)
    <3>1. s \in [1..n -> members] /\ \A x \in members : \E i \in 1..n : s[i] = x
      BY <1>2 DEF Chained
    <3>2. \A i \in 1..n : \A j \in 1..n : s[i] = s[j] => i = j
      BY <1>2 DEF Chained
    <3> QED BY <3>1, <3>2 DEF Bijection, Injection, Surjection, IsInjective
  <2>2. IsFiniteSet(1..n) /\ Cardinality(1..n) = n
    BY FS_Interval
  <2>3. Cardinality(members) = n
    BY <2>1, <2>2, FS_Bijection DEF ExistsBijection
  <2>4. Cardinality(members) <= Cardinality(Vms)
    BY VmsAssumption, FS_Subset
  <2> QED BY <2>3, <2>4
<1> DEFINE N == Cardinality(Vms)
           f == [k \in 0..N |-> IF k < n THEN s[k + 1] ELSE None]
<1>4. N \in Nat
  BY Sizes
<1>5. \A k \in 0..N : f[k] = IF k < n THEN s[k + 1] ELSE None
  OBVIOUS
<1>6. DOMAIN f = 0..N /\ f = [k \in 0..N |-> f[k]]
  OBVIOUS
<1> HIDE DEF f
<1>7. ASSUME NEW k \in 0..N
      PROVE  f[k] = IF k = 0 THEN vmList ELSE IF f[k - 1] = None THEN None ELSE link[f[k - 1]]
  <2>1. CASE k = 0
    BY <1>2, <1>5, <2>1 DEF Chained
  <2>2. CASE k # 0 /\ k - 1 < n
    <3>1. k - 1 \in 0..N /\ k \in 1..n /\ f[k - 1] = s[k]
      <4>1. k - 1 \in 0..N /\ k \in 1..n /\ (k - 1) + 1 = k
        BY <1>4, <2>2
      <4> QED BY <1>5, <2>2, <4>1
    <3>2. f[k - 1] # None /\ link[s[k]] = IF k = n THEN None ELSE s[k + 1]
      BY <1>2, <3>1, VmsAssumption DEF Chained
    <3>3. k # n <=> k < n
      BY <3>1
    <3> QED BY <1>5, <2>2, <3>1, <3>2, <3>3
  <2>3. CASE k # 0 /\ ~(k - 1 < n)
    <3>1. k - 1 \in 0..N /\ ~(k < n)
      BY <1>4, <2>3
    <3> QED BY <1>5, <2>3, <3>1
  <2> QED BY <2>1, <2>2, <2>3
<1>8. Follows(f, N)
  BY <1>6, <1>7, Zenon DEF Follows
<1>9. V!Chain = f
  BY <1>8, ChainFollows
<1>10. {f[k] : k \in 0..N} \ {None} = members
  <2>1. ASSUME NEW k \in 0..N, f[k] # None PROVE f[k] \in members
    BY <1>2, <1>5, <2>1 DEF Chained
  <2>2. ASSUME NEW x \in members PROVE x # None /\ \E k \in 0..N : f[k] = x
    <3>1. PICK i \in 1..n : x = s[i]
      BY <1>2 DEF Chained
    <3>2. i - 1 \in 0..N /\ i - 1 < n /\ (i - 1) + 1 = i
      BY <1>3, <1>4, <3>1
    <3>3. f[i - 1] = x
      BY <1>5, <3>1, <3>2
    <3> QED BY <3>1, <3>2, <3>3, VmsAssumption
  <2> QED BY <2>1, <2>2
<1>11. f[n] = None
  BY <1>3, <1>4, <1>5
<1>12. V!Cardinality(members) = Cardinality(members)
  BY DEF V!Cardinality, Cardinality, V!IsFiniteSet, IsFiniteSet
<1> QED BY <1>3, <1>9, <1>10, <1>11, <1>12, SameSize DEF V!Listed

--------------------------------------------------------------------------------
(* Where Main and the tasks are in the operations on VMs.                  *)
VmPcs == {"run", "asleep", "link", "publish", "lock", "behead", "search", "unlock",
          "end", "cancel", "join", "final", "ended"}

LockedPcs == {"publish", "behead", "search", "unlock", "end", "cancel", "join", "final"}

OwnedPcs == {"link", "publish", "end", "cancel", "join"}

VmTypes ==
  /\ link \in [Vms -> Vms \cup {None}] /\ vmList \in Vms \cup {None}
  /\ running \in [Vms -> BOOLEAN] /\ busy \in [Vms -> BOOLEAN] /\ members \subseteq Vms
  /\ memory \in [Vms -> {"free", "used", "freed"}]
  /\ at \in [V!VmThreads -> VmPcs] /\ its \in [V!VmThreads -> Vms \cup {None}]
  /\ pList \in [V!VmThreads -> Vms \cup {None}] /\ lock \in V!VmThreads \cup {None}
  /\ \A t \in Vms : at[t] \in {"run", "asleep", "link", "publish"}

(* The system mutex is held where the code has locked it.                  *)
VmLocks == \A t \in V!VmThreads : at[t] \in LockedPcs <=> lock = t

(* A VM that is being created or destroyed is on no list and in the hands  *)
(* of one thread; those on the list are in use.                            *)
VmOwners ==
  /\ \A t \in V!VmThreads : at[t] \in OwnedPcs => its[t] \in Vms \ members /\ memory[its[t]] = "used"
  /\ \A t \in V!VmThreads : \A u \in V!VmThreads :
       at[t] \in OwnedPcs /\ at[u] \in OwnedPcs /\ its[t] = its[u] => t = u
  /\ \A v \in members : memory[v] = "used"

(* What a thread that links a VM, or Main that looks for one, has read is  *)
(* still so.                                                               *)
VmRead ==
  /\ \A t \in V!VmThreads : at[t] = "publish" => link[its[t]] = vmList
  /\ at[Main] \in {"lock", "behead", "search"} =>
       its[Main] \in members /\ pList[Main] \in members \cup {None}
  /\ at[Main] = "behead" => vmList = its[Main]

(* A thread that runs is marked active until Main, who clears the mark,    *)
(* has joined it: ficlVmDestroy frees a VM that is not active at once.     *)
VmMarked ==
  \A v \in Vms : running[v] => busy[v] \/ (at[Main] \in {"cancel", "join"} /\ its[Main] = v)

VmInv == /\ VmTypes /\ VmLocks /\ VmOwners /\ VmRead /\ VmMarked
         /\ ListIs(vmList, link, members) /\ V!FreedUnused

LEMMA VmInitially == V!Init => VmInv
<1> SUFFICES ASSUME V!Init PROVE VmInv
  OBVIOUS
<1> USE VmsAssumption DEF V!Init
<1>1. VmTypes
  BY DEF VmTypes, VmPcs, V!VmThreads
<1>2. VmLocks /\ VmOwners /\ VmRead /\ VmMarked /\ V!FreedUnused
  BY DEF VmLocks, VmOwners, VmRead, VmMarked, V!FreedUnused, LockedPcs, OwnedPcs, V!VmThreads
<1>3. ListIs(vmList, link, members)
  <2> DEFINE s == [i \in 1..1 |-> First]
  <2>1. s \in [1..1 -> Vms] /\ s[1] = First /\ 1..1 = {1}
    OBVIOUS
  <2> HIDE DEF s
  <2>2. Chained(1, s, vmList, link, members)
    BY <2>1 DEF Chained
  <2> QED BY <2>1, <2>2 DEF ListIs
<1> QED BY <1>1, <1>2, <1>3 DEF VmInv

(* Every step of VmList keeps these (system.c, ficlVmDestroy of vm.c,      *)
(* CONSTRUCT and ACTIVATE of extras.c).                                    *)
LEMMA VmInductive == VmInv /\ [V!Next]_vmVars => VmInv'
<1> SUFFICES ASSUME VmInv, [V!Next]_vmVars PROVE VmInv'
  OBVIOUS
<1> USE VmsAssumption
<1> DEFINE Ths == V!VmThreads
           Rest == VmTypes' /\ VmLocks' /\ VmOwners' /\ VmRead' /\ VmMarked' /\ V!FreedUnused'
<1>ths. Ths = Vms \cup {Main} /\ Main \in Ths /\ None \notin Ths
  BY DEF V!VmThreads
<1>list. ASSUME ListIs(vmList', link', members'), Rest PROVE VmInv'
  BY <1>list DEF VmInv
<1>same. ASSUME UNCHANGED <<vmList, link, members>> PROVE ListIs(vmList', link', members')
  BY <1>same DEF VmInv
<1>inv. VmTypes /\ VmLocks /\ VmOwners /\ VmRead /\ VmMarked /\ V!FreedUnused /\ ListIs(vmList, link, members)
  BY DEF VmInv
<1>pcs. "run" \notin LockedPcs \cup OwnedPcs /\ {"asleep", "lock", "ended"} \cap (LockedPcs \cup OwnedPcs) = {}
  BY DEF LockedPcs, OwnedPcs
<1> HIDE DEF Rest
<1>1. ASSUME NEW t \in Ths, NEW v \in Vms, V!Construct(t, v) PROVE VmInv'
  <2>0. /\ V!At(t, "run") /\ memory[v] = "free" /\ memory' = [memory EXCEPT ![v] = "used"]
        /\ link' = [link EXCEPT ![v] = None] /\ its' = [its EXCEPT ![t] = v]
        /\ at' = [at EXCEPT ![t] = "link"]
        /\ busy' = [busy EXCEPT ![v] = FALSE]
        /\ UNCHANGED <<vmList, running, dying, pList, lock, members, misused>>
    BY <1>1 DEF V!Construct, V!Goto
  <2>1. ListIs(vmList', link', members')
    <3>1. v \notin members
      BY <1>inv, <2>0 DEF VmOwners
    <3> QED BY <1>inv, <2>0, <3>1, Unheld DEF VmTypes
  <2>2. Rest
    BY <1>inv, <1>ths, <1>pcs, <2>0
    DEF Rest, VmTypes, VmLocks, VmOwners, VmRead, VmMarked, V!FreedUnused, V!At, LockedPcs, OwnedPcs, VmPcs
  <2> QED BY <1>list, <2>1, <2>2
<1>2. ASSUME NEW t \in Ths, V!Link(t) PROVE VmInv'
  <2>0. /\ V!At(t, "link") /\ lock = None /\ lock' = t
        /\ link' = [link EXCEPT ![its[t]] = vmList] /\ at' = [at EXCEPT ![t] = "publish"]
        /\ UNCHANGED <<vmList, running, busy, its, pList, memory, members, misused>>
    BY <1>2 DEF V!Link, V!Goto, V!taskVars
  <2>1. ListIs(vmList', link', members')
    <3>1. its[t] \notin members
      BY <1>inv, <2>0 DEF VmOwners, OwnedPcs, V!At
    <3> QED BY <1>inv, <2>0, <3>1, Unheld DEF VmTypes
  <2>2. Rest
    BY <1>inv, <1>ths, <1>pcs, <2>0
    DEF Rest, VmTypes, VmLocks, VmOwners, VmRead, VmMarked, V!FreedUnused, V!At, LockedPcs, OwnedPcs, VmPcs
  <2> QED BY <1>list, <2>1, <2>2
<1>3. ASSUME NEW t \in Ths, V!Publish(t) PROVE VmInv'
  <2>0. /\ V!At(t, "publish") /\ lock' = None /\ vmList' = its[t]
        /\ members' = members \cup {its[t]} /\ at' = [at EXCEPT ![t] = "run"]
        /\ UNCHANGED <<link, running, busy, its, pList, memory, misused>>
    BY <1>3 DEF V!Publish, V!Goto, V!taskVars
  <2>1. /\ its[t] \in Vms /\ its[t] \notin members /\ memory[its[t]] = "used"
        /\ link[its[t]] = vmList /\ lock = t
    BY <1>inv, <2>0 DEF VmOwners, VmRead, VmLocks, OwnedPcs, LockedPcs, V!At
  <2>2. ListIs(vmList', link', members')
    BY <1>inv, <2>0, <2>1, Pushed
  <2>3. Rest
    BY <1>inv, <1>ths, <1>pcs, <2>0, <2>1
    DEF Rest, VmTypes, VmLocks, VmOwners, VmRead, VmMarked, V!FreedUnused, V!At, LockedPcs, OwnedPcs, VmPcs
  <2> QED BY <1>list, <2>2, <2>3
<1>4. ASSUME NEW v \in Vms, V!Activate(v) PROVE VmInv'
  <2>0. /\ V!At(Main, "run") /\ v \in members
        /\ running' = [running EXCEPT ![v] = TRUE] /\ busy' = [busy EXCEPT ![v] = TRUE]
        /\ (misused' <=> (misused \/ memory[v] = "freed"))
        /\ UNCHANGED <<vmList, link, at, its, pList, lock, memory, members>>
    BY <1>4, Zenon DEF V!Activate, V!listVars, V!threadVars, V!Uses
  <2>1. ListIs(vmList', link', members')
    BY <1>same, <2>0
  <2>2. memory[v] = "used"
    BY <1>inv, <2>0 DEF VmOwners
  <2>3. Rest
    BY <1>inv, <2>0, <2>2 DEF Rest, VmTypes, VmLocks, VmOwners, VmRead, VmMarked, V!FreedUnused
  <2> QED BY <1>list, <2>1, <2>3
<1>4a. ASSUME NEW v \in Vms, V!TaskStep(v) PROVE VmInv'
  <2>0. UNCHANGED <<vmList, link, busy, its, pList, lock, memory, members, misused>>
    BY <1>4a, Zenon DEF V!TaskStep, V!Returns, V!InputOutput, V!Pause, V!Stop, V!Awakened,
                        V!StopCancelled, V!listVars, V!taskVars
  <2>1. /\ at[v] \in {"run", "asleep"}
        /\ \/ running' = [running EXCEPT ![v] = FALSE] /\ UNCHANGED at
           \/ UNCHANGED <<running, at>>
           \/ \E where \in {"run", "asleep"} : at' = [at EXCEPT ![v] = where] /\ UNCHANGED running
    BY <1>4a DEF V!TaskStep, V!Returns, V!InputOutput, V!Pause, V!Stop, V!Awakened,
                 V!StopCancelled, V!At, V!Ends, V!Goto, V!taskVars
  <2>2. ListIs(vmList', link', members')
    BY <1>same, <2>0
  <2>3. v # Main /\ {"run", "asleep"} \cap (LockedPcs \cup OwnedPcs) = {}
    BY <1>pcs
  <2>4. \A t \in Ths : (at'[t] \in LockedPcs <=> at[t] \in LockedPcs)
                     /\ (at'[t] \in OwnedPcs <=> at[t] \in OwnedPcs)
                     /\ (at'[t] = "publish" <=> at[t] = "publish")
    BY <1>inv, <1>ths, <2>1, <2>3 DEF VmTypes
  <2>5. at'[Main] = at[Main] /\ \A u \in Vms : running'[u] => running[u]
    BY <1>inv, <1>ths, <2>1, <2>3 DEF VmTypes
  <2>6. VmTypes'
    <3>0. /\ at \in [Ths -> VmPcs] /\ running \in [Vms -> BOOLEAN]
          /\ {"run", "asleep"} \subseteq VmPcs
      BY <1>inv DEF VmTypes, VmPcs
    <3>1. at' \in [Ths -> VmPcs] /\ running' \in [Vms -> BOOLEAN]
      <4>1. CASE running' = [running EXCEPT ![v] = FALSE] /\ UNCHANGED at
        BY <3>0, <4>1
      <4>2. ASSUME NEW where \in {"run", "asleep"}, at' = [at EXCEPT ![v] = where],
                   UNCHANGED running
            PROVE  at' \in [Ths -> VmPcs] /\ running' \in [Vms -> BOOLEAN]
        BY <3>0, <4>2
      <4> QED BY <2>1, <3>0, <4>1, <4>2
    <3>2. \A t \in Vms : at'[t] \in {"run", "asleep", "link", "publish"}
      BY <1>inv, <1>ths, <2>1 DEF VmTypes
    <3> QED BY <1>inv, <2>0, <3>1, <3>2 DEF VmTypes
  <2>7. VmLocks' /\ VmOwners' /\ VmRead'
    BY <1>inv, <1>ths, <2>0, <2>4, <2>5 DEF VmLocks, VmOwners, VmRead
  <2>8. VmMarked' /\ V!FreedUnused'
    BY <1>inv, <2>0, <2>5 DEF VmMarked, V!FreedUnused
  <2>9. Rest
    BY <2>6, <2>7, <2>8 DEF Rest
  <2> QED BY <1>list, <2>2, <2>9
<1>5. ASSUME NEW v \in Vms, V!DestroyVm(v) PROVE VmInv'
  <2>0. /\ V!At(Main, "run") /\ v \in members
        /\ its' = [its EXCEPT ![Main] = v] /\ pList' = [pList EXCEPT ![Main] = vmList]
        /\ at' = [at EXCEPT ![Main] = "lock"]
        /\ UNCHANGED <<vmList, link, running, busy, lock, memory, members, misused>>
    BY <1>5, Zenon DEF V!DestroyVm, V!Goto, V!taskVars, V!listVars
  <2>1. vmList \in members \cup {None}
    BY <1>inv, Popped DEF VmTypes
  <2>8. ListIs(vmList', link', members')
    BY <1>same, <2>0
  <2>9. Rest
    BY <1>inv, <1>ths, <1>pcs, <2>0, <2>1
    DEF Rest, VmTypes, VmLocks, VmOwners, VmRead, VmMarked, V!FreedUnused, V!At, LockedPcs, OwnedPcs, VmPcs
  <2> QED BY <1>list, <2>8, <2>9
<1>6. CASE V!DestroyLock
  <2>0. /\ V!At(Main, "lock") /\ lock = None /\ lock' = Main
        /\ at' = [at EXCEPT ![Main] = IF vmList = its[Main] THEN "behead" ELSE "search"]
        /\ UNCHANGED <<vmList, link, running, busy, its, pList, memory, members, misused>>
    BY <1>6, Zenon DEF V!DestroyLock, V!Goto, V!taskVars, V!listVars
  <2>8. ListIs(vmList', link', members')
    BY <1>same, <2>0
  <2>9. Rest
    BY <1>inv, <1>ths, <1>pcs, <2>0
    DEF Rest, VmTypes, VmLocks, VmOwners, VmRead, VmMarked, V!FreedUnused, V!At, LockedPcs, OwnedPcs, VmPcs
  <2> QED BY <1>list, <2>8, <2>9
<1>7. CASE V!Behead
  <2>0. /\ V!At(Main, "behead")
        /\ vmList' = link[vmList] /\ members' = members \ {its[Main]}
        /\ (misused' <=> (misused \/ memory[its[Main]] = "freed"))
        /\ at' = [at EXCEPT ![Main] = IF pList[Main] = None THEN "unlock" ELSE "end"]
        /\ UNCHANGED <<link, running, busy, its, pList, lock, memory>>
    BY <1>7, Zenon DEF V!Behead, V!Goto, V!taskVars, V!Uses
  <2>1. /\ its[Main] \in members /\ vmList = its[Main] /\ lock = Main
        /\ memory[its[Main]] = "used" /\ its[Main] \in Vms
    BY <1>inv, <1>ths, <2>0 DEF VmRead, VmLocks, VmOwners, VmTypes, V!At, LockedPcs
  <2>8. ListIs(vmList', link', members')
    BY <1>inv, <2>0, <2>1, Popped
  <2>9. Rest
    BY <1>inv, <1>ths, <1>pcs, <2>0, <2>1
    DEF Rest, VmTypes, VmLocks, VmOwners, VmRead, VmMarked, V!FreedUnused, V!At, LockedPcs, OwnedPcs, VmPcs
  <2> QED BY <1>list, <2>8, <2>9
<1>8. CASE V!Search
  <2>0. /\ V!At(Main, "search") /\ pList[Main] # None
        /\ pList' = [pList EXCEPT ![Main] = link[pList[Main]]]
        /\ (misused' <=> (misused \/ memory[pList[Main]] = "freed"))
        /\ UNCHANGED <<vmList, link, running, busy, at, its, lock, memory, members>>
    BY <1>8, Zenon DEF V!Search, V!taskVars, V!listVars, V!Uses
  <2>1. pList[Main] \in members /\ memory[pList[Main]] = "used"
    BY <1>inv, <2>0 DEF VmRead, VmOwners, V!At
  <2>2. link[pList[Main]] \in members \cup {None}
    BY <1>inv, <2>1, Onward
  <2>8. ListIs(vmList', link', members')
    BY <1>same, <2>0
  <2>9. Rest
    BY <1>inv, <1>ths, <1>pcs, <2>0, <2>1, <2>2
    DEF Rest, VmTypes, VmLocks, VmOwners, VmRead, VmMarked, V!FreedUnused, V!At, LockedPcs, OwnedPcs, VmPcs
  <2> QED BY <1>list, <2>8, <2>9
<1>9. CASE V!Unlink
  <2>0. /\ V!At(Main, "search") /\ pList[Main] # None /\ link[pList[Main]] = its[Main]
        /\ link' = [link EXCEPT ![pList[Main]] = link[its[Main]]]
        /\ members' = members \ {its[Main]} /\ at' = [at EXCEPT ![Main] = "end"]
        /\ (misused' <=> (misused \/ memory[pList[Main]] = "freed"))
        /\ UNCHANGED <<vmList, running, busy, its, pList, lock, memory>>
    BY <1>9, Zenon DEF V!Unlink, V!taskVars, V!Goto, V!Uses
  <2>1. /\ pList[Main] \in members /\ memory[pList[Main]] = "used" /\ lock = Main
        /\ its[Main] \in members /\ memory[its[Main]] = "used" /\ its[Main] \in Vms
    BY <1>inv, <1>ths, <2>0 DEF VmRead, VmOwners, VmLocks, VmTypes, LockedPcs, V!At
  <2>8. ListIs(vmList', link', members')
    BY <1>inv, <2>0, <2>1, Dropped DEF VmTypes
  <2>9. Rest
    BY <1>inv, <1>ths, <1>pcs, <2>0, <2>1
    DEF Rest, VmTypes, VmLocks, VmOwners, VmRead, VmMarked, V!FreedUnused, V!At, LockedPcs, OwnedPcs, VmPcs
  <2> QED BY <1>list, <2>8, <2>9
<1>10. CASE V!NotFound \/ V!Unlock
  <2>0. /\ \/ V!At(Main, "search") /\ at' = [at EXCEPT ![Main] = "unlock"] /\ UNCHANGED lock
           \/ V!At(Main, "unlock") /\ at' = [at EXCEPT ![Main] = "run"] /\ lock' = None
        /\ UNCHANGED <<vmList, link, running, busy, its, pList, memory, members, misused>>
    BY <1>10, Zenon DEF V!NotFound, V!Unlock, V!taskVars, V!listVars, V!Goto
  <2>8. ListIs(vmList', link', members')
    BY <1>same, <2>0
  <2>9. Rest
    BY <1>inv, <1>ths, <1>pcs, <2>0
    DEF Rest, VmTypes, VmLocks, VmOwners, VmRead, VmMarked, V!FreedUnused, V!At, LockedPcs, OwnedPcs, VmPcs
  <2> QED BY <1>list, <2>8, <2>9
<1>11. CASE V!VmDestroy
  <2>0. /\ V!At(Main, "end") /\ at' = [at EXCEPT ![Main] = "cancel"]
        /\ busy' = [busy EXCEPT ![its[Main]] = FALSE]
        /\ (misused' <=> (misused \/ memory[its[Main]] = "freed"))
        /\ UNCHANGED <<vmList, link, running, its, pList, lock, memory, members>>
    BY <1>11, Zenon DEF V!VmDestroy, V!Goto, V!Uses, V!listVars
  <2>1. memory[its[Main]] = "used"
    BY <1>inv, <1>ths, <2>0 DEF VmOwners, OwnedPcs, V!At
  <2>8. ListIs(vmList', link', members')
    BY <1>same, <2>0
  <2>9. Rest
    BY <1>inv, <1>ths, <1>pcs, <2>0, <2>1
    DEF Rest, VmTypes, VmLocks, VmOwners, VmRead, VmMarked, V!FreedUnused, V!At, LockedPcs, OwnedPcs, VmPcs
  <2> QED BY <1>list, <2>8, <2>9
<1>11a. CASE V!Cancel
  <2>0. /\ V!At(Main, "cancel") /\ at' = [at EXCEPT ![Main] = "join"]
        /\ UNCHANGED <<vmList, link, running, busy, its, pList, lock, memory, members, misused>>
    BY <1>11a, Zenon DEF V!Cancel, V!Goto, V!listVars
  <2>8. ListIs(vmList', link', members')
    BY <1>same, <2>0
  <2>9. Rest
    BY <1>inv, <1>ths, <1>pcs, <2>0
    DEF Rest, VmTypes, VmLocks, VmOwners, VmRead, VmMarked, V!FreedUnused, V!At, LockedPcs, OwnedPcs, VmPcs
  <2> QED BY <1>list, <2>8, <2>9
<1>12. CASE V!VmFreed
  <2>0. /\ \/ V!At(Main, "end") /\ ~busy[its[Main]]
           \/ V!At(Main, "join") /\ ~running[its[Main]]
        /\ \E where \in {"final", "unlock"} : at' = [at EXCEPT ![Main] = where]
        /\ memory' = [memory EXCEPT ![its[Main]] = "freed"]
        /\ (misused' <=> (misused \/ memory[its[Main]] = "freed"))
        /\ UNCHANGED <<vmList, link, running, busy, its, pList, lock, members>>
    BY <1>12, Zenon DEF V!VmFreed, V!Joined, V!Goto, V!Uses, V!listVars, V!taskVars
  <2>1. memory[its[Main]] = "used" /\ its[Main] \in Vms \ members
    BY <1>inv, <1>ths, <2>0 DEF VmOwners, OwnedPcs, V!At
  <2>2. ~running[its[Main]]
    BY <1>inv, <2>0, <2>1 DEF VmMarked, V!At
  <2>8. ListIs(vmList', link', members')
    BY <1>same, <2>0
  <2>9. Rest
    BY <1>inv, <1>ths, <1>pcs, <2>0, <2>1, <2>2
    DEF Rest, VmTypes, VmLocks, VmOwners, VmRead, VmMarked, V!FreedUnused, V!At, LockedPcs, OwnedPcs, VmPcs
  <2> QED BY <1>list, <2>8, <2>9
<1>13. CASE V!SystemDestroy \/ V!SystemFreed
  <2>0. /\ \/ V!At(Main, "run") /\ at' = [at EXCEPT ![Main] = "final"] /\ lock = None /\ lock' = Main
           \/ V!At(Main, "final") /\ at' = [at EXCEPT ![Main] = "ended"] /\ lock' = None
        /\ UNCHANGED <<vmList, link, running, busy, its, pList, memory, members, misused>>
    BY <1>13, Zenon DEF V!SystemDestroy, V!SystemFreed, V!taskVars, V!listVars, V!Goto
  <2>8. ListIs(vmList', link', members')
    BY <1>same, <2>0
  <2>9. Rest
    BY <1>inv, <1>ths, <1>pcs, <2>0
    DEF Rest, VmTypes, VmLocks, VmOwners, VmRead, VmMarked, V!FreedUnused, V!At, LockedPcs, OwnedPcs, VmPcs
  <2> QED BY <1>list, <2>8, <2>9
<1>14. CASE V!NextVm
  <2>0. /\ V!At(Main, "final") /\ vmList # None /\ its' = [its EXCEPT ![Main] = vmList]
        /\ vmList' = link[vmList] /\ members' = members \ {vmList}
        /\ at' = [at EXCEPT ![Main] = "end"]
        /\ (misused' <=> (misused \/ memory[vmList] = "freed"))
        /\ UNCHANGED <<link, running, busy, pList, lock, memory>>
    BY <1>14, Zenon DEF V!NextVm, V!taskVars, V!Goto, V!Uses
  <2>1. vmList \in Vms /\ vmList \in members /\ memory[vmList] = "used" /\ lock = Main
    BY <1>inv, <1>ths, <2>0, Popped DEF VmTypes, VmOwners, VmLocks, V!At, LockedPcs
  <2>8. ListIs(vmList', link', members')
    BY <1>inv, <2>0, <2>1, Popped
  <2>9. Rest
    BY <1>inv, <1>ths, <1>pcs, <2>0, <2>1
    DEF Rest, VmTypes, VmLocks, VmOwners, VmRead, VmMarked, V!FreedUnused, V!At, LockedPcs, OwnedPcs, VmPcs
  <2> QED BY <1>list, <2>8, <2>9
<1>15. CASE UNCHANGED vmVars
  <2>0. UNCHANGED <<vmList, link, running, busy, at, its, pList, lock, memory, members, misused>>
    BY <1>15 DEF vmVars
  <2>8. ListIs(vmList', link', members')
    BY <1>same, <2>0
  <2>9. Rest
    BY <1>inv, <2>0 DEF Rest, VmTypes, VmLocks, VmOwners, VmRead, VmMarked, V!FreedUnused
  <2> QED BY <1>list, <2>8, <2>9
<1> QED
  BY <1>1, <1>2, <1>3, <1>4, <1>4a, <1>5, <1>6, <1>7, <1>8, <1>9, <1>10, <1>11, <1>11a, <1>12, <1>13, <1>14, <1>15
  DEF V!Next, V!ThreadStep, V!MainStep

(* The list holds each VM that was created and not destroyed, once, and no *)
(* VM is used or runs after it was freed, for any number of VMs that are   *)
(* created and destroyed by threads at once, and with the programs that    *)
(* MCTaskLife runs beside them (system.c, vm.c).                           *)
THEOREM VmsAreSound == MCSpec => []VmsSound
<1>1. MCInit => VmInv
  BY VmInitially DEF MCInit
<1>2. VmInv /\ [MCNext]_mcVars => VmInv'
  <2>1. [MCNext]_mcVars => [V!Next]_vmVars
    BY DEF MCNext, mcVars
  <2> QED BY <2>1, VmInductive
<1>3. VmInv => VmsSound
  BY ListWalked DEF VmInv, VmTypes, VmsSound
<1> QED BY <1>1, <1>2, <1>3, PTL DEF MCSpec

================================================================================
