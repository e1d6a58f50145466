-------------------------------- MODULE DictLock --------------------------------
(***************************************************************************)
(* The dictionary shared by the VMs of a system and the recursive mutex    *)
(* that ficlDictionaryLock takes and releases around its updates:          *)
(* dictionary.c, search.c, ficlSystemLookupLocal and TRAVERSE-WORDLIST.    *)
(*                                                                         *)
(* A word that uses the dictionary is a few steps: what it does before the *)
(* lock, the lock, the bracketed body, the unlock.  The data are the       *)
(* pointer HERE and the search order; what is compiled is left out.        *)
(***************************************************************************)
EXTENDS Naturals, FiniteSets, Sequences

CONSTANTS
  Threads,       \* the threads, each running a VM of the system
  None,          \* no thread
  Wids,          \* word lists
  MaxWordlists,  \* FICL_MAX_WORDLISTS, the size of dictionary->wordlists
  Words,         \* the words the programs use
  MaxUses        \* bound: words each thread executes

LookupWords == {"lookup", "lookup_local"}
OrderWords  == {"get_order", "set_order", "search_push", "search_pop"}
SpaceWords  == {"create", "comma"}

ASSUME DictLockAssumption ==
  /\ None \notin Threads
  /\ Wids # {}
  /\ MaxWordlists \in Nat \ {0}
  /\ Words \subseteq LookupWords \cup OrderWords \cup SpaceWords
                       \cup {"traverse", "throw"}
  /\ MaxUses \in Nat

VARIABLES
  holder,  \* the thread that owns dictionaryMutex
  depth,   \* how often it locked it
  pc,      \* where each thread is
  uses,    \* words each thread has begun
  used,    \* history: which words any thread has begun
  open,    \* TRAVERSE-WORDLISTs a thread is inside of
  loc,     \* a value of HERE or of wordlistCount a thread has read
  here,    \* dictionary->here, in cells
  writes,  \* history: cells written
  slots,   \* dictionary->wordlists and the cell behind it
  count,   \* dictionary->wordlistCount
  got,     \* what GET-ORDER pushed last
  seen     \* history: the search orders there were during a GET-ORDER

lockVars  == <<holder, depth>>
spaceVars == <<here, writes>>
orderVars == <<slots, count>>
histVars  == <<got, seen>>
vars == <<lockVars, pc, uses, used, open, loc, spaceVars, orderVars, histVars>>

(* Control points of a word; "run" is between words.                       *)
Bracket == {"lookup_in", "local_in", "push_in", "pop_in", "set_in", "get_in",
            "create_read", "create_write", "unlock"}
Pcs == {"run", "lookup", "lookup_local", "search_push", "search_pop",
        "set_order", "get_order", "create", "comma_write", "traverse"}
         \cup Bracket

Goto(t, p) == pc' = [pc EXCEPT ![t] = p]
At(t, p)   == pc[t] = p

(* Thread t, between two words, begins w.                                  *)
Is(t, w)   == /\ At(t, "run") /\ w \in Words
              /\ uses[t] < MaxUses
              /\ uses' = [uses EXCEPT ![t] = @ + 1]
              /\ used' = used \cup {w}

(* The search order, first searched last.                                  *)
Order(s, n) == [i \in 1..n |-> s[i - 1]]

Init ==
  /\ holder = None /\ depth = 0
  /\ pc = [t \in Threads |-> "run"]
  /\ uses = [t \in Threads |-> 0] /\ used = {}
  /\ open = [t \in Threads |-> 0]
  /\ loc = [t \in Threads |-> 0]
  /\ here = 0 /\ writes = 0
  /\ \E w \in Wids : slots = [i \in 0..MaxWordlists |-> w]
  /\ count = 1
  /\ got = [t \in Threads |-> <<>>]
  /\ seen = [t \in Threads |-> {}]

--------------------------------------------------------------------------------
(* ficlDictionaryLock: a recursive mutex.                                  *)

(* Mutant of Acquire: the lock is not taken.                               *)
AcquireNothing(t) == UNCHANGED lockVars

Acquire(t) == /\ holder \in {None, t}
              /\ holder' = t
              /\ depth' = depth + 1

(* Mutant of Release: the lock is kept.                                    *)
ReleaseNothing(t) == UNCHANGED lockVars

(* Mutant of Release: an unlock gives the mutex up whatever its depth.     *)
ReleaseAll(t) == /\ holder = t
                 /\ depth' = 0
                 /\ holder' = None

(* pthread_mutex_unlock fails without effect for who is not the owner.     *)
Release(t) == IF holder = t
              THEN /\ depth' = depth - 1
                   /\ holder' = IF depth = 1 THEN None ELSE t
              ELSE UNCHANGED lockVars

(* Begin a word that locks first.                                          *)
Begin(t, w) == /\ Is(t, w)
               /\ Goto(t, w)
               /\ UNCHANGED <<lockVars, open, loc, spaceVars, orderVars, histVars>>

(* Take the lock at control point p and go on at q.                        *)
Lock(t, p, q) == /\ At(t, p)
                 /\ Acquire(t)
                 /\ Goto(t, q)
                 /\ UNCHANGED <<uses, used, open, loc, spaceVars, orderVars, histVars>>

Unlock(t) == /\ At(t, "unlock")
             /\ Release(t)
             /\ Goto(t, "run")
             /\ got' = [got EXCEPT ![t] = <<>>]
             /\ seen' = [seen EXCEPT ![t] = {}]
             /\ UNCHANGED <<uses, used, open, loc, spaceVars, orderVars>>

(* ficlVmThrow leaves the words, and the traversals, a thread is in.       *)
Throw(t) == /\ Goto(t, "run")
            /\ open' = [open EXCEPT ![t] = 0]
            /\ UNCHANGED <<lockVars, loc, spaceVars, orderVars, histVars>>

--------------------------------------------------------------------------------
(* ficlDictionaryLookup and ficlDictionaryLookupSmudged: the second call   *)
(* of ficlDictionaryLock is not an unlock.                                 *)
Lookup(t) ==
  \/ Begin(t, "lookup")
  \/ Lock(t, "lookup", "lookup_in")
  \/ Lock(t, "lookup_in", "run")

(* ficlSystemLookupLocal, SEARCH-WORDLIST                                  *)
LookupLocal(t) ==
  \/ Begin(t, "lookup_local")
  \/ Lock(t, "lookup_local", "local_in")
  \/ /\ At(t, "local_in")
     /\ Goto(t, "unlock")
     /\ UNCHANGED <<lockVars, uses, used, open, loc, spaceVars, orderVars, histVars>>

(* A change of the search order, seen by the GET-ORDERs under way.         *)
SetOrderTo(s, n) ==
  /\ slots' = s /\ count' = n
  /\ seen' = [u \in Threads |-> IF At(u, "get_order") \/ At(u, "get_in")
                                THEN seen[u] \cup {Order(s, n)} ELSE seen[u]]
  /\ UNCHANGED got

(* >SEARCH: the test for a full search order lets one more in.  The list   *)
(* goes where wordlistCount and size are (ficl.h); what becomes of them is *)
(* left out, the model goes on as if a cell were free there.               *)
PushFull == count > MaxWordlists

SearchPush(t) ==
  \/ Begin(t, "search_push")
  \/ Lock(t, "search_push", "push_in")
  \/ At(t, "push_in") /\ PushFull /\ Throw(t) /\ UNCHANGED <<uses, used>>
  \/ /\ At(t, "push_in") /\ ~PushFull
     /\ \E w \in Wids : SetOrderTo([slots EXCEPT ![count] = w], count + 1)
     /\ Goto(t, "unlock")
     /\ UNCHANGED <<lockVars, uses, used, open, loc, spaceVars>>

(* SEARCH>                                                                 *)
SearchPop(t) ==
  \/ Begin(t, "search_pop")
  \/ Lock(t, "search_pop", "pop_in")
  \/ At(t, "pop_in") /\ count = 0 /\ Throw(t) /\ UNCHANGED <<uses, used>>
  \/ /\ At(t, "pop_in") /\ count > 0
     /\ SetOrderTo(slots, count - 1)
     /\ Goto(t, "unlock")
     /\ UNCHANGED <<lockVars, uses, used, open, loc, spaceVars>>

(* SET-ORDER, with a list of at most FICL_MAX_WORDLISTS.                   *)
SetOrder(t) ==
  \/ Begin(t, "set_order")
  \/ Lock(t, "set_order", "set_in")
  \/ /\ At(t, "set_in")
     /\ \E n \in 0..MaxWordlists : \E f \in [0..(n - 1) -> Wids] :
          SetOrderTo([i \in 0..MaxWordlists |-> IF i < n THEN f[i] ELSE slots[i]], n)
     /\ Goto(t, "unlock")
     /\ UNCHANGED <<lockVars, uses, used, open, loc, spaceVars>>

(* GET-ORDER reads wordlistCount before it takes the lock.                 *)
GetOrderBegin(t) ==
  /\ Is(t, "get_order")
  /\ loc' = [loc EXCEPT ![t] = count]
  /\ seen' = [seen EXCEPT ![t] = {Order(slots, count)}]
  /\ Goto(t, "get_order")
  /\ UNCHANGED <<lockVars, open, spaceVars, orderVars, got>>

GetOrder(t) ==
  \/ GetOrderBegin(t)
  \/ Lock(t, "get_order", "get_in")
  \/ /\ At(t, "get_in")
     /\ got' = [got EXCEPT ![t] = Order(slots, loc[t])]
     /\ Goto(t, "unlock")
     /\ UNCHANGED <<lockVars, uses, used, open, loc, spaceVars, orderVars, seen>>

--------------------------------------------------------------------------------
(* The use of HERE: read it, write the cell, advance it.                   *)
ReadHere(t) == loc' = [loc EXCEPT ![t] = here]
WriteHere(t) == here' = loc[t] + 1 /\ writes' = writes + 1

(* ficlDictionaryAppendWord and the other bracketed updates                *)
Create(t) ==
  \/ Begin(t, "create")
  \/ Lock(t, "create", "create_read")
  \/ /\ At(t, "create_read")
     /\ ReadHere(t) /\ Goto(t, "create_write")
     /\ UNCHANGED <<lockVars, uses, used, open, spaceVars, orderVars, histVars>>
  \/ /\ At(t, "create_write")
     /\ WriteHere(t) /\ Goto(t, "unlock")
     /\ UNCHANGED <<lockVars, uses, used, open, loc, orderVars, histVars>>

(* ficlDictionaryAppendCell, AllotCells and Allot do not lock.             *)
Comma(t) ==
  \/ /\ Is(t, "comma")
     /\ ReadHere(t) /\ Goto(t, "comma_write")
     /\ UNCHANGED <<lockVars, open, spaceVars, orderVars, histVars>>
  \/ /\ At(t, "comma_write")
     /\ WriteHere(t) /\ Goto(t, "run")
     /\ UNCHANGED <<lockVars, uses, used, open, loc, orderVars, histVars>>

--------------------------------------------------------------------------------
(* TRAVERSE-WORDLIST holds the lock while it executes the xt, which may    *)
(* use any other word.                                                     *)
Traverse(t) ==
  \/ Begin(t, "traverse")
  \/ /\ At(t, "traverse")
     /\ Acquire(t)
     /\ open' = [open EXCEPT ![t] = @ + 1]
     /\ Goto(t, "run")
     /\ UNCHANGED <<uses, used, loc, spaceVars, orderVars, histVars>>
  \/ /\ At(t, "run") /\ open[t] > 0
     /\ Release(t)
     /\ open' = [open EXCEPT ![t] = @ - 1]
     /\ UNCHANGED <<pc, uses, used, loc, spaceVars, orderVars, histVars>>

(* An error in the xt of a traversal                                       *)
XtThrows(t) == Is(t, "throw") /\ open[t] > 0 /\ Throw(t)

Step(t) == \/ Lookup(t) \/ LookupLocal(t) \/ SearchPush(t) \/ SearchPop(t)
           \/ SetOrder(t) \/ GetOrder(t) \/ Create(t) \/ Comma(t)
           \/ Traverse(t) \/ XtThrows(t) \/ Unlock(t)

Next == \E t \in Threads : Step(t)

Spec == Init /\ [][Next]_vars

(* The scheduler runs every thread.  The mutex need not be fair: programs  *)
(* are finite, so no thread contends for it for ever.                      *)
Fairness == \A t \in Threads : WF_vars(Step(t))

FairSpec == Spec /\ Fairness

--------------------------------------------------------------------------------
TypeOK ==
  /\ holder \in Threads \cup {None}
  /\ depth \in Nat
  /\ pc \in [Threads -> Pcs]
  /\ uses \in [Threads -> Nat] /\ used \subseteq Words
  /\ open \in [Threads -> Nat]
  /\ loc \in [Threads -> Nat]
  /\ here \in Nat /\ writes \in Nat
  /\ slots \in [0..MaxWordlists -> Wids]
  /\ count \in 0..(MaxWordlists + 1)

(* No two threads are inside bracketed updates of the dictionary: who is   *)
(* in a bracket, or in a traversal, owns the lock.                         *)
Exclusive ==
  \A t \in Threads : pc[t] \in Bracket \/ open[t] > 0 => holder = t /\ depth > 0

(* Words that leave the lock behind: the lookups, and those that may throw *)
(* between the lock and the unlock.                                        *)
Leaking == {"lookup", "search_push", "search_pop", "throw"}

(* Between two words, and outside any traversal, a thread does not own the *)
(* dictionary.                                                             *)
LockGivenBack ==
  \A t \in Threads : At(t, "run") /\ open[t] = 0 => holder # t

(* The words that pair their locks give the dictionary back, whatever      *)
(* other words run next to them that pair theirs.                          *)
Balanced == used \cap Leaking = {} => LockGivenBack

(* No cell is written over a cell another thread has written, HERE counts  *)
(* the cells that were appended, as long as nobody appends without the     *)
(* lock; words that keep the lock too long do no harm here.                *)
NoCellLost == "comma" \notin used => here = writes

(* GET-ORDER returns a search order that there was while it ran.           *)
OrderSnapshot ==
  \A t \in Threads : At(t, "unlock") /\ seen[t] # {} => got[t] \in seen[t]

(* A word that uses the dictionary comes back, unless a word that keeps    *)
(* the lock is used.                                                       *)
WordsReturn ==
  \A t \in Threads : pc[t] # "run" ~> pc[t] = "run" \/ used \cap Leaking # {}

================================================================================
