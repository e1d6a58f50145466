---------------------------- MODULE DictLock_proof ----------------------------
(***************************************************************************)
(* Theorems about the lock of the dictionary, for every number of threads, *)
(* word lists and words executed.                                          *)
(***************************************************************************)
EXTENDS DictLock, TLAPS

USE DictLockAssumption

(* The control part of TypeOK, all that the lock depends on.               *)
LockType == /\ holder \in Threads \cup {None}
            /\ depth \in Nat
            /\ pc \in [Threads -> Pcs]
            /\ open \in [Threads -> Nat]

(* Brackets thread t has open: its traversals and the word it is in.       *)
Held(t) == open[t] + (IF pc[t] \in Bracket THEN 1 ELSE 0)

(* The owner locked at least once for every bracket it has open, and       *)
(* nobody else has one open.                                               *)
LockInv == /\ LockType
           /\ holder = None <=> depth = 0
           /\ \A t \in Threads : /\ holder = t => depth >= Held(t)
                                 /\ holder # t => Held(t) = 0

LEMMA LockInductive == LockInv /\ [Next]_vars => LockInv'
<1> SUFFICES ASSUME LockInv, [Next]_vars
             PROVE  LockInv'
  OBVIOUS
<1> USE DEF LockInv, LockType, Held, Bracket, Pcs, At, Goto, Is, Begin, Lock,
            Acquire, Release, Throw, lockVars, spaceVars, orderVars, histVars
<1>1. ASSUME NEW t \in Threads, Lookup(t) PROVE LockInv'
  BY <1>1 DEF Lookup
<1>2. ASSUME NEW t \in Threads, LookupLocal(t) PROVE LockInv'
  BY <1>2, SMTT(30) DEF LookupLocal
<1>3. ASSUME NEW t \in Threads, SearchPush(t) PROVE LockInv'
  BY <1>3 DEF SearchPush
<1>4. ASSUME NEW t \in Threads, SearchPop(t) PROVE LockInv'
  BY <1>4 DEF SearchPop
<1>5. ASSUME NEW t \in Threads, SetOrder(t) PROVE LockInv'
  BY <1>5 DEF SetOrder
<1>6. ASSUME NEW t \in Threads, GetOrder(t) PROVE LockInv'
  BY <1>6, SMTT(30) DEF GetOrder, GetOrderBegin
<1>7. ASSUME NEW t \in Threads, Create(t) PROVE LockInv'
  BY <1>7, SMTT(30) DEF Create
<1>8. ASSUME NEW t \in Threads, Comma(t) PROVE LockInv'
  BY <1>8 DEF Comma
<1>9. ASSUME NEW t \in Threads, Traverse(t) PROVE LockInv'
  BY <1>9, SMTT(30) DEF Traverse
<1>10. ASSUME NEW t \in Threads, XtThrows(t) PROVE LockInv'
  BY <1>10 DEF XtThrows
<1>11. ASSUME NEW t \in Threads, Unlock(t) PROVE LockInv'
  BY <1>11 DEF Unlock
<1>12. ASSUME UNCHANGED vars PROVE LockInv'
  BY <1>12 DEF vars
<1> QED
  BY <1>1, <1>2, <1>3, <1>4, <1>5, <1>6, <1>7, <1>8, <1>9, <1>10, <1>11, <1>12
  DEF Next, Step

LEMMA LockAlways == Spec => []LockInv
<1>1. Init => LockInv
  BY DEF Init, LockInv, LockType, Held, Bracket, Pcs
<1> QED
  BY <1>1, LockInductive, PTL DEF Spec

(* Whatever the programs do, and although lookups and errors leave the     *)
(* lock behind, two threads are never inside bracketed updates at once     *)
(* (ficlDictionaryLock).                                                   *)
THEOREM UpdatesExclusive == Spec => []Exclusive
<1>1. LockInv => Exclusive
  BY DEF LockInv, LockType, Exclusive, Held
<1> QED
  BY <1>1, LockAlways, PTL

--------------------------------------------------------------------------------
(* What TypeOK says beyond LockType.                                       *)
DataType == /\ uses \in [Threads -> Nat] /\ used \subseteq Words
            /\ loc \in [Threads -> Nat]
            /\ here \in Nat /\ writes \in Nat
            /\ slots \in [0..MaxWordlists -> Wids]
            /\ count \in 0..(MaxWordlists + 1)

LEMMA TypeInductive == TypeOK /\ LockInv /\ [Next]_vars => TypeOK'
<1> SUFFICES ASSUME TypeOK, LockInv, [Next]_vars
             PROVE  DataType'
  BY LockInductive DEF TypeOK, DataType, LockInv, LockType
<1> DataType
  BY DEF TypeOK, DataType
<1>0. ASSUME NEW t \in Threads, NEW w, Is(t, w)
      PROVE  uses' \in [Threads -> Nat] /\ used' \subseteq Words
  BY <1>0 DEF Is, DataType
<1> USE <1>0 DEF DataType, At, Goto, Begin, Lock, Throw, lockVars, spaceVars, orderVars,
            histVars
<1>1. ASSUME NEW t \in Threads, Lookup(t) PROVE DataType'
  BY <1>1 DEF Lookup
<1>2. ASSUME NEW t \in Threads, LookupLocal(t) PROVE DataType'
  BY <1>2, SMTT(30) DEF LookupLocal
<1>3. ASSUME NEW t \in Threads, SearchPush(t) PROVE DataType'
  <2>1. CASE Begin(t, "search_push")
    BY <2>1
  <2>2. CASE Lock(t, "search_push", "push_in") \/ (Throw(t) /\ UNCHANGED <<uses, used>>)
    BY <2>2
  <2>3. CASE ~PushFull /\ (\E w \in Wids : SetOrderTo([slots EXCEPT ![count] = w], count + 1)) /\ UNCHANGED <<uses, used, loc, spaceVars>>
    BY <2>3 DEF SetOrderTo, PushFull
  <2> QED
    BY <1>3, <2>1, <2>2, <2>3 DEF SearchPush
<1>4. ASSUME NEW t \in Threads, SearchPop(t) PROVE DataType'
  BY <1>4 DEF SearchPop, SetOrderTo
<1>5. ASSUME NEW t \in Threads, SetOrder(t) PROVE DataType'
  <2>1. CASE Begin(t, "set_order") \/ Lock(t, "set_order", "set_in")
    BY <2>1
  <2>2. ASSUME NEW n \in 0..MaxWordlists, NEW f \in [0..(n - 1) -> Wids],
               SetOrderTo([i \in 0..MaxWordlists |-> IF i < n THEN f[i] ELSE slots[i]], n),
               Goto(t, "unlock"), UNCHANGED <<lockVars, uses, used, open, loc, spaceVars>>
        PROVE  DataType'
    BY <2>2 DEF SetOrderTo
  <2> QED
    BY <1>5, <2>1, <2>2 DEF SetOrder
<1>6. ASSUME NEW t \in Threads, GetOrder(t) PROVE DataType'
  BY <1>6, SMTT(30) DEF GetOrder, GetOrderBegin
<1>7. ASSUME NEW t \in Threads, Create(t) PROVE DataType'
  BY <1>7 DEF Create, ReadHere, WriteHere
<1>8. ASSUME NEW t \in Threads, Comma(t) PROVE DataType'
  <2>1. CASE Is(t, "comma") /\ ReadHere(t) /\ UNCHANGED <<spaceVars, orderVars>>
    BY <2>1 DEF ReadHere
  <2>2. CASE WriteHere(t) /\ UNCHANGED <<uses, used, loc, orderVars>>
    BY <2>2 DEF WriteHere
  <2> QED
    BY <1>8, <2>1, <2>2 DEF Comma
<1>9. ASSUME NEW t \in Threads, Traverse(t) PROVE DataType'
  BY <1>9, SMTT(30) DEF Traverse
<1>10. ASSUME NEW t \in Threads, XtThrows(t) PROVE DataType'
  BY <1>10 DEF XtThrows
<1>11. ASSUME NEW t \in Threads, Unlock(t) PROVE DataType'
  BY <1>11 DEF Unlock
<1>12. ASSUME UNCHANGED vars PROVE DataType'
  BY <1>12 DEF vars
<1> QED
  BY <1>1, <1>2, <1>3, <1>4, <1>5, <1>6, <1>7, <1>8, <1>9, <1>10, <1>11, <1>12
  DEF Next, Step

(* Every variable keeps its type: depth and open never go below zero, and  *)
(* >SEARCH never goes more than one list beyond the array of the order.    *)
THEOREM TypeCorrect == Spec => []TypeOK
<1>1. Init => TypeOK
  BY DEF Init, TypeOK, Bracket, Pcs
<1> QED
  BY <1>1, TypeInductive, LockAlways, PTL DEF Spec

--------------------------------------------------------------------------------
(* As long as no word has been used that leaves the lock behind, the depth *)
(* is exact.                                                               *)
DepthExact ==
  used \cap Leaking = {} =>
    \A t \in Threads :
      /\ holder = t => depth = Held(t)
      /\ pc[t] \notin {"lookup", "lookup_in", "search_push", "push_in",
                       "search_pop", "pop_in"}

(* As long as nobody appends without the lock, HERE does not move between  *)
(* its being read and being written.                                       *)
HereExact ==
  "comma" \notin used =>
    /\ here = writes
    /\ \A t \in Threads : /\ pc[t] # "comma_write"
                          /\ At(t, "create_write") => loc[t] = here

BracketInv == TypeOK /\ LockInv /\ DepthExact /\ HereExact

(* A lock taken at the begin of a bracket keeps the depth exact.           *)
LEMMA DepthLock ==
  ASSUME LockInv, DepthExact, NEW t \in Threads, NEW p, p \notin Bracket,
         NEW q \in Bracket \ {"lookup_in", "push_in", "pop_in"}, Lock(t, p, q)
  PROVE  DepthExact'
<1> SUFFICES ASSUME used' \cap Leaking = {}, NEW u \in Threads
             PROVE  /\ holder' = u => depth' = Held(u)'
                    /\ pc'[u] \notin {"lookup", "lookup_in", "search_push", "push_in",
                                      "search_pop", "pop_in"}
  BY DEF DepthExact, Held
<1> USE DEF Lock, Acquire, Goto, At, LockInv, LockType
<1>1. used' = used /\ open' = open /\ pc' = [pc EXCEPT ![t] = q] /\ pc[t] = p
  OBVIOUS
<1>2. depth = Held(t) /\ Held(t) = open[t] /\ depth' = depth + 1 /\ holder' = t
  BY <1>1 DEF DepthExact, Held
<1>3. Held(t)' = open[t] + 1
  BY <1>1 DEF Held
<1> QED
  BY <1>1, <1>2, <1>3 DEF DepthExact, Bracket

LEMMA DepthStep ==
  ASSUME TypeOK, LockInv, DepthExact, Next PROVE DepthExact'
<1> USE DEF TypeOK, LockInv, LockType, DepthExact, Leaking, Held, Bracket, Pcs, At, Goto,
            Is, Begin, Lock, Acquire, Release, Throw, lockVars, spaceVars, orderVars,
            histVars
<1>1. ASSUME NEW t \in Threads, Lookup(t) PROVE DepthExact'
  BY <1>1 DEF Lookup
<1>2. ASSUME NEW t \in Threads, LookupLocal(t) PROVE DepthExact'
  <2>1. CASE Begin(t, "lookup_local")
    BY <2>1
  <2>2. CASE Lock(t, "lookup_local", "local_in")
    BY <2>2, DepthLock
  <2>3. CASE At(t, "local_in") /\ Goto(t, "unlock") /\ UNCHANGED <<lockVars, uses, used, open>>
    BY <2>3
  <2> QED
    BY <1>2, <2>1, <2>2, <2>3 DEF LookupLocal
<1>3. ASSUME NEW t \in Threads, SearchPush(t) PROVE DepthExact'
  BY <1>3 DEF SearchPush
<1>4. ASSUME NEW t \in Threads, SearchPop(t) PROVE DepthExact'
  BY <1>4 DEF SearchPop
<1>5. ASSUME NEW t \in Threads, SetOrder(t) PROVE DepthExact'
  BY <1>5 DEF SetOrder
<1>6. ASSUME NEW t \in Threads, GetOrder(t) PROVE DepthExact'
  <2>1. CASE GetOrderBegin(t)
    BY <2>1 DEF GetOrderBegin
  <2>2. CASE Lock(t, "get_order", "get_in")
    BY <2>2, DepthLock
  <2>3. CASE At(t, "get_in") /\ Goto(t, "unlock") /\ UNCHANGED <<lockVars, uses, used, open>>
    BY <2>3
  <2> QED
    BY <1>6, <2>1, <2>2, <2>3 DEF GetOrder
<1>7. ASSUME NEW t \in Threads, Create(t) PROVE DepthExact'
  <2>1. CASE Begin(t, "create")
    BY <2>1
  <2>2. CASE Lock(t, "create", "create_read")
    BY <2>2, DepthLock
  <2>3. CASE At(t, "create_read") /\ Goto(t, "create_write") /\ UNCHANGED <<lockVars, uses, used, open>>
    BY <2>3
  <2>4. CASE At(t, "create_write") /\ Goto(t, "unlock") /\ UNCHANGED <<lockVars, uses, used, open>>
    BY <2>4
  <2> QED
    BY <1>7, <2>1, <2>2, <2>3, <2>4 DEF Create
<1>8. ASSUME NEW t \in Threads, Comma(t) PROVE DepthExact'
  BY <1>8 DEF Comma
<1>9. ASSUME NEW t \in Threads, Traverse(t) PROVE DepthExact'
  BY <1>9, SMTT(30) DEF Traverse
<1>10. ASSUME NEW t \in Threads, XtThrows(t) PROVE DepthExact'
  BY <1>10 DEF XtThrows
<1>11. ASSUME NEW t \in Threads, Unlock(t) PROVE DepthExact'
  BY <1>11 DEF Unlock
<1> QED
  BY <1>1, <1>2, <1>3, <1>4, <1>5, <1>6, <1>7, <1>8, <1>9, <1>10, <1>11 DEF Next, Step

LEMMA HereStep ==
  ASSUME TypeOK, LockInv, HereExact, Next PROVE HereExact'
<1> USE DEF TypeOK, LockInv, LockType, HereExact, Held, Bracket, Pcs, At, Goto,
            Is, Begin, Lock, Acquire, Release, Throw, lockVars, spaceVars, orderVars,
            histVars
<1>1. ASSUME NEW t \in Threads, Lookup(t) PROVE HereExact'
  BY <1>1 DEF Lookup
<1>2. ASSUME NEW t \in Threads, LookupLocal(t) PROVE HereExact'
  BY <1>2, SMTT(30) DEF LookupLocal
<1>3. ASSUME NEW t \in Threads, SearchPush(t) PROVE HereExact'
  BY <1>3 DEF SearchPush
<1>4. ASSUME NEW t \in Threads, SearchPop(t) PROVE HereExact'
  BY <1>4 DEF SearchPop
<1>5. ASSUME NEW t \in Threads, SetOrder(t) PROVE HereExact'
  BY <1>5 DEF SetOrder
<1>6. ASSUME NEW t \in Threads, GetOrder(t) PROVE HereExact'
  BY <1>6, SMTT(30) DEF GetOrder, GetOrderBegin
<1>7. ASSUME NEW t \in Threads, Create(t) PROVE HereExact'
  BY <1>7 DEF Create, ReadHere, WriteHere
<1>8. ASSUME NEW t \in Threads, Comma(t) PROVE HereExact'
  BY <1>8 DEF Comma
<1>9. ASSUME NEW t \in Threads, Traverse(t) PROVE HereExact'
  BY <1>9, SMTT(30) DEF Traverse
<1>10. ASSUME NEW t \in Threads, XtThrows(t) PROVE HereExact'
  BY <1>10 DEF XtThrows
<1>11. ASSUME NEW t \in Threads, Unlock(t) PROVE HereExact'
  BY <1>11 DEF Unlock
<1> QED
  BY <1>1, <1>2, <1>3, <1>4, <1>5, <1>6, <1>7, <1>8, <1>9, <1>10, <1>11 DEF Next, Step

LEMMA BracketAlways == Spec => []BracketInv
<1>1. Init => BracketInv
  BY DEF Init, BracketInv, TypeOK, LockInv, LockType, DepthExact, HereExact,
         Held, Bracket, Pcs, At
<1>2. BracketInv /\ [Next]_vars => BracketInv'
  <2> SUFFICES ASSUME BracketInv, [Next]_vars
               PROVE  BracketInv'
    OBVIOUS
  <2>1. TypeOK' /\ LockInv'
    BY TypeInductive, LockInductive DEF BracketInv
  <2>2. CASE Next
    BY <2>1, <2>2, DepthStep, HereStep DEF BracketInv
  <2>3. CASE UNCHANGED vars
    BY <2>1, <2>3 DEF BracketInv, DepthExact, HereExact, Held, At, vars,
       lockVars, spaceVars, orderVars
  <2> QED
    BY <2>2, <2>3
<1> QED
  BY <1>1, <1>2, PTL DEF Spec

(* As long as no lookup was made, nor a word that may throw with the lock  *)
(* held, every thread gives the dictionary back (ficlDictionaryLock).      *)
THEOREM LocksPaired == Spec => []Balanced
<1>1. BracketInv => Balanced
  BY DEF BracketInv, LockInv, LockType, DepthExact, Balanced, LockGivenBack, Held, Bracket, At
<1> QED
  BY <1>1, BracketAlways, PTL

(* Definitions made under the lock never overwrite each other's cells,     *)
(* whatever other words leave the lock behind (ficlDictionaryAppendWord).  *)
THEOREM CellsKept == Spec => []NoCellLost
<1>1. BracketInv => NoCellLost
  BY DEF BracketInv, HereExact, NoCellLost
<1> QED
  BY <1>1, BracketAlways, PTL

================================================================================
