------------------------------- MODULE Machine --------------------------------
(***************************************************************************)
(* The three stacks of a VM while it runs words of the whole vocabulary in *)
(* any order, with the errors their checks throw, CATCH and ABORT.         *)
(* Source: vm.c, stack.c, and CATCH and THROW of primitives.c.             *)
(*                                                                         *)
(* A word takes its cells, gives its cells and drops what it held; it may  *)
(* throw after any of these.  The run of a VM is followed up to the first  *)
(* moment at which a stack leaves its array: what a program does with the  *)
(* memory around it is not modelled.                                       *)
(***************************************************************************)
EXTENDS SystemWords, Sequences

CONSTANT MaxCatch  \* bound: CATCHes inside one another

(* The build is the one with all checks, the default of ficl.h. *)
ASSUME MachineAssumption == MaxCatch \in Nat /\ Robust = 2

Vocabulary == SystemWords \cup VmWords \cup CoreWords \cup FloatWords

VARIABLES
  depth,    \* STKDEPTH of each stack
  rest,     \* what the word that runs has still to do, and what it checked
  failing,  \* an error is on its way to a handler
  frames,   \* the depths that each CATCH would restore
  weak      \* stacks that an open word has touched since they were reset

vars == <<depth, rest, failing, frames, weak>>

None == Cells(0, 0, 0)

Idle == [gives |-> None, drops |-> None, checked |-> {}]

Plus(a, b)  == [s \in Stacks |-> a[s] + b[s]]
Minus(a, b) == [s \in Stacks |-> a[s] - b[s]]

Inside(s) == 0 <= depth[s] /\ depth[s] <= Size[s]

(* The next word can start: nothing runs, nothing fails. *)
Ready == rest = Idle /\ ~ failing /\ \A s \in Stacks : Inside(s)

Init ==
  /\ depth = None
  /\ rest = Idle
  /\ failing = FALSE
  /\ frames = <<>>
  /\ weak = {}

Begin(w) ==
  /\ Ready
  /\ Admits(w, depth)
  /\ depth' = Minus(depth, w.takes)
  /\ rest' = [gives |-> w.gives, drops |-> w.drops,
              checked |-> {c.stack : c \in w.checks}]
  /\ weak' = weak \cup w.open
  /\ UNCHANGED <<failing, frames>>

(* ficlVmThrowError out of ficlStackCheck: the word has not begun. *)
Reject(w) ==
  /\ Ready
  /\ ~ Admits(w, depth)
  /\ failing' = TRUE
  /\ UNCHANGED <<depth, rest, frames, weak>>

Give ==
  /\ rest # Idle /\ ~ failing
  /\ depth' = Plus(depth, rest.gives)
  /\ rest' = IF rest.drops = None THEN Idle ELSE [rest EXCEPT !.gives = None]
  /\ UNCHANGED <<failing, frames, weak>>

Drop ==
  /\ rest.gives = None /\ rest.drops # None /\ ~ failing
  /\ depth' = Minus(depth, rest.drops)
  /\ rest' = Idle
  /\ UNCHANGED <<failing, frames, weak>>

(* The word throws by itself, with what it took gone. *)
Fail ==
  /\ rest # Idle /\ ~ failing
  /\ rest' = Idle
  /\ failing' = TRUE
  /\ UNCHANGED <<depth, frames, weak>>

(* CATCH pops the token, keeps the stack pointers and pushes the           *)
(* instruction pointer, for which it does not check.                       *)
CatchChecks == [level |-> Primitive, checks |-> {Check("data", 1, 0)}]

(* Mutant of Catch: the stack pointers are kept before the token is popped. *)
CatchKeepsToken ==
  /\ Ready
  /\ Len(frames) < MaxCatch
  /\ Admits(CatchChecks, depth)
  /\ depth' = Minus(depth, Cells(1, 0, -1))
  /\ frames' = Append(frames, [data |-> depth["data"], return |-> depth["return"]])
  /\ weak' = weak \cup {"return"}
  /\ UNCHANGED <<rest, failing>>

Catch ==
  /\ Ready
  /\ Len(frames) < MaxCatch
  /\ Admits(CatchChecks, depth)
  /\ depth' = Minus(depth, Cells(1, 0, -1))
  /\ frames' = Append(frames, [data |-> depth["data"] - 1, return |-> depth["return"]])
  /\ weak' = weak \cup {"return"}
  /\ UNCHANGED <<rest, failing>>

(* The word caught has returned: CATCH pushes 0, unchecked. *)
CatchReturn ==
  /\ Ready
  /\ frames # <<>>
  /\ depth' = Plus(depth, Cells(1, 0, -1))
  /\ frames' = SubSeq(frames, 1, Len(frames) - 1)
  /\ weak' = weak \cup {"data", "return"}
  /\ UNCHANGED <<rest, failing>>

(* The word caught has thrown: the data and the return stack are put back, *)
(* the float stack is not, and the code is pushed.                         *)
Unwind ==
  /\ failing
  /\ frames # <<>>
  /\ LET saved == frames[Len(frames)] IN
     depth' = [depth EXCEPT !["data"] = saved.data + 1, !["return"] = saved.return]
  /\ frames' = SubSeq(frames, 1, Len(frames) - 1)
  /\ failing' = FALSE
  /\ UNCHANGED <<rest, weak>>

(* ficlVmAbort at the handler of ficlVmExecuteString; when a word inside a *)
(* CATCH has called that, it throws the error again or drops it.           *)
Abort ==
  /\ failing
  /\ depth' = None
  /\ weak' = {}
  /\ failing' \in {FALSE, frames # <<>>}
  /\ UNCHANGED <<rest, frames>>

(* ficlVmQuit leaves the data and the float stack alone. *)
Quit ==
  /\ failing
  /\ depth' = [depth EXCEPT !["return"] = 0]
  /\ weak' = weak \ {"return"}
  /\ failing' \in {FALSE, frames # <<>>}
  /\ UNCHANGED <<rest, frames>>

Next ==
  \/ \E w \in Vocabulary : Begin(w)
  \/ \E w \in Vocabulary : Reject(w)
  \/ Give \/ Drop \/ Fail
  \/ Catch \/ CatchReturn \/ Unwind
  \/ Abort \/ Quit

Spec == Init /\ [][Next]_vars

TypeOK ==
  /\ depth \in [Stacks -> Int]
  /\ rest \in [gives : [Stacks -> Nat], drops : [Stacks -> Nat],
               checked : SUBSET Stacks]
  /\ failing \in BOOLEAN
  /\ frames \in Seq([data : Int, return : Int])
  /\ weak \subseteq Stacks

(***************************************************************************)
(* Properties                                                              *)
(***************************************************************************)
(* A stack on which only words with the right check have run since its     *)
(* last reset stays within its array at every step of every word, whatever *)
(* the program, and has room for what the word has still to give.          *)
(* Behaviour: the checks of vm.c and of every primitive, ficlStackCheck.   *)
InBounds ==
  \A s \in Stacks \ weak : Inside(s) /\ depth[s] + rest.gives[s] <= Size[s]

(* What a CATCH would put back is within the arrays, and leaves room for   *)
(* the code of the error.                                                  *)
(* Behaviour: CATCH pops its token before it keeps the stack pointers, so  *)
(* that the push after the longjmp needs no check of its own.              *)
CatchHasRoom ==
  \A i \in 1..Len(frames) :
     /\ 0 <= frames[i].data /\ frames[i].data < Size["data"]
     /\ 0 <= frames[i].return /\ frames[i].return <= Size["return"]

(* Words that check for more than one of their outcomes needs: the room    *)
(* for a copy that is not made, for a cell that is popped before the push, *)
(* for what an error leaves unused, for an argument RULEZ does not take.   *)
Overcautious ==
  {"?dup", "f?dup", "pick", "rot", "-rot", "froll", "f-roll", "frot", "f-rot",
   "f2over", "of", "fallthrough", "while", "?float", "rulez"}

(* A check throws only when the stack could not hold what the word does,   *)
(* but for the words above: no program that fits is stopped.               *)
(* Behaviour: the arguments of the checks against the bodies behind them.  *)
AlarmsAreTrue ==
  Ready => \A w \in Vocabulary :
             Admits(w, depth) \/ ~ Fits(w, depth) \/ w.names \cap Overcautious # {}
===============================================================================
