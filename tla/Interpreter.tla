------------------------------ MODULE Interpreter ------------------------------
(***************************************************************************)
(* The outer interpreter of one VM: lines from the host, EVALUATE,         *)
(* INCLUDE-FILE, EXECUTE-PARSING and other nested calls of xts, CATCH and  *)
(* THROW, errors, QUIT, BYE, and words that run out of text and are run    *)
(* again on the next line.  Source: vm.c, primitives.c, fileaccess.c,      *)
(* main.c.                                                                 *)
(*                                                                         *)
(* Every C function that calls setjmp is a frame; the inner loop it starts *)
(* hands exceptions on to it and is part of it.  A text is the number of   *)
(* words left in it; what a word does is chosen when it is executed.       *)
(***************************************************************************)
EXTENDS Integers, Sequences

CONSTANTS
  MaxText,    \* bound: words in a text
  MaxFrames,  \* bound: nested C functions
  MaxReturn,  \* bound: cells of the return stack
  Codes,      \* what programs throw with THROW
  Liberties   \* "catch": CATCH is executed while compiling

None      == 0
InnerExit == -256
OutOfText == -257
Restart   == -258
UserExit  == -259
ErrorExit == -260

ASSUME InterpreterAssumption ==
  /\ MaxText \in Nat /\ MaxFrames \in Nat \ {0} /\ MaxReturn \in Nat \ {0}
  /\ Codes \subseteq Int \ (-261..-256) /\ 0 \notin Codes
  /\ Liberties \subseteq {"catch"}

VARIABLES
  frames,   \* the C functions that called setjmp, innermost last
  handler,  \* vm->exceptionHandler: the frame it belongs to
  ip,       \* vm->ip
  rstack,   \* vm->returnStack
  tib,      \* vm->tib: which text, and how many words are left
  source,   \* vm->sourceId: -1 for a string, 0 for the user, or a file
  restart,  \* vm->restart
  running,  \* vm->runningWord: "other" is one that has not run out of text
  state,    \* vm->state
  def,      \* is there a definition in progress in the dictionary?
  next,     \* what the innermost frame does next
  except,   \* the exception on its way to the handler
  done      \* has the host stopped?

inputVars == <<tib, source>>
codeVars  == <<ip, rstack>>
compVars  == <<state, def>>
vars == <<frames, handler, codeVars, inputVars, restart, running, compVars,
          next, except, done>>

Lines   == {"line", "string"}       \* the host calls ficlVmEvaluate or ficlVmExecuteString
Texts   == Lines \cup {"evaluate", "include"}
Calls   == {"parsing", "xt"}
Again   == {"parse", "colon", "refill"}

(* ABORT, ABORT" and QUIT differ from an error in the data stack only.     *)
Thrown == Codes \cup {ErrorExit, UserExit}
NoText  == [text |-> 0, left |-> 0]
TibSet  == [text : 0..MaxFrames, left : 0..MaxText]
IpSet   == {"null", "loop", "exit", "body", "junk"}

Init ==
  /\ frames = <<>> /\ handler = 0
  /\ ip = "null" /\ rstack = <<>>
  /\ tib = NoText /\ source = 0
  /\ restart = FALSE /\ running = "other"
  /\ state = "interpret" /\ def = FALSE
  /\ next = "fetch" /\ except = None /\ done = FALSE

--------------------------------------------------------------------------------
(* Helpers.                                                                *)
Top == Len(frames)

(* What a C function saves of the VM; CATCH saves all of it.               *)
Frame(f) == [fn |-> f, tib |-> tib, source |-> source, handler |-> handler,
             ip |-> ip, rstack |-> rstack, restart |-> restart,
             running |-> running, state |-> state]

PushIP(to) == /\ Len(rstack) < MaxReturn
              /\ rstack' = Append(rstack, ip) /\ ip' = to

(* After a reset the fence below the stack is read.                        *)
PopIP == IF rstack = <<>>
         THEN ip' = "junk" /\ UNCHANGED rstack
         ELSE /\ ip' = rstack[Len(rstack)]
              /\ rstack' = SubSeq(rstack, 1, Len(rstack) - 1)

(* Mutant of Taken: a word of a colon definition takes one from the text.  *)
TakenAlways == [tib EXCEPT !.left = @ - 1]

(* The text when the word to execute has been taken from it.               *)
Taken == IF next = "fetch" /\ ip = "loop" THEN [tib EXCEPT !.left = @ - 1] ELSE tib

(* An xt is given, or an instruction or the text has a word to execute.    *)
Word == /\ except = None /\ Top > 0
        /\ \/ next = "word"
           \/ next = "fetch" /\ ip = "body"
           \/ next = "fetch" /\ ip = "loop" /\ tib.left > 0

--------------------------------------------------------------------------------
(* The host passes a line; the word that ran out of text goes first.       *)
Line(f) == /\ Top = 0 /\ except = None /\ ~done
           /\ frames' = <<Frame(f)>> /\ handler' = 1
           /\ \E n \in 0..MaxText : tib' = [text |-> 1, left |-> n]
           /\ source' = IF f = "line" THEN -1 ELSE source
           /\ IF restart THEN next' = "rerun" /\ UNCHANGED codeVars
                         ELSE next' = "fetch" /\ PushIP("loop")
           /\ UNCHANGED <<restart, running, compVars, except, done>>

(* Words that stay in the innermost frame.                                 *)
Plain == /\ Word
         /\ tib' = Taken /\ next' = "fetch" /\ running' = "other"
         /\ UNCHANGED <<frames, handler, codeVars, source, restart, compVars, except, done>>

Call == /\ Word /\ PushIP("body")
        /\ tib' = Taken /\ next' = "fetch"
        /\ UNCHANGED <<frames, handler, source, restart, running, compVars, except, done>>

Return == /\ except = None /\ Top > 0 /\ next = "fetch" /\ ip = "body"
          /\ PopIP
          /\ UNCHANGED <<frames, handler, inputVars, restart, running, compVars,
                         next, except, done>>

Semicolon == /\ Word /\ state = "compile"
             /\ state' = "interpret" /\ def' = FALSE
             /\ tib' = Taken /\ next' = "fetch" /\ running' = "other"
             /\ UNCHANGED <<frames, handler, codeVars, source, restart, except, done>>

(* Words that parse: when the text is used up they are to be run again on  *)
(* the next line, which only the host's text has.  The code has no such    *)
(* guard: in a text of EVALUATE or INCLUDE-FILE the word, or REFILL, sets  *)
(* restart for whatever line comes next, and the C function returns with   *)
(* the ip it had pushed for its interpreter still on the return stack.     *)
MayRunDry == Top = 1 \/ frames[Top].fn = "catch"

(* What a word that parses does with the name it got.                      *)
Named(w) == IF w = "colon" THEN state' = "compile" /\ def' = TRUE
                           ELSE UNCHANGED compVars

Parse(w) == /\ Word /\ Taken.left > 0
            /\ w = "colon" => state = "interpret"
            /\ tib' = [Taken EXCEPT !.left = @ - 1]
            /\ Named(w)
            /\ next' = "fetch" /\ running' = "other"
            /\ UNCHANGED <<frames, handler, codeVars, source, restart, except, done>>

RunDry(w) == /\ Word /\ Taken.left = 0 /\ MayRunDry
             /\ w = "refill" => source # -1 /\ ~restart
             /\ w = "colon" => state = "interpret"
             /\ tib' = Taken /\ running' = w /\ except' = Restart
             /\ UNCHANGED <<frames, handler, codeVars, source, restart, compVars, next, done>>

(* The word that ran out of text runs again before the new line is read;   *)
(* it may run out again, or fail at what it finds.                         *)
Rerun == /\ except = None /\ next = "rerun"
         /\ \/ running = "refill" /\ restart' = FALSE /\ next' = "fetch"
                 /\ UNCHANGED <<tib, compVars, except>>
            \/ /\ running # "refill" /\ tib.left > 0
               /\ tib' = [tib EXCEPT !.left = @ - 1]
               /\ \/ Named(running) /\ restart' = FALSE /\ next' = "fetch" /\ UNCHANGED except
                  \/ except' = ErrorExit /\ UNCHANGED <<restart, compVars, next>>
            \/ running # "refill" /\ tib.left = 0 /\ except' = Restart
                 /\ UNCHANGED <<tib, restart, compVars, next>>
         /\ UNCHANGED <<frames, handler, codeVars, source, running, done>>

--------------------------------------------------------------------------------
(* Words that nest: they save, and call setjmp.                            *)

Nest(f) == /\ Word /\ Top < MaxFrames
           /\ frames' = Append(frames, [Frame(f) EXCEPT !.tib = Taken])
           /\ handler' = Top + 1
           /\ running' = "other"
           /\ UNCHANGED <<restart, compVars, except, done>>

NewText == \E n \in 0..MaxText : tib' = [text |-> Top + 1, left |-> n]

Evaluate == Nest("evaluate") /\ NewText /\ source' = -1
              /\ PushIP("loop") /\ next' = "fetch"

(* The whole file is one text.                                             *)
IncludeFile == Nest("include") /\ NewText /\ source' = Top + 1
                 /\ PushIP("loop") /\ next' = "fetch"

ExecuteParsing == Nest("parsing") /\ NewText /\ UNCHANGED source
                    /\ PushIP("exit") /\ next' = "word"

(* A parse step or an xt called for every word of a list.                  *)
ExecuteXT == Nest("xt") /\ tib' = Taken /\ UNCHANGED source
               /\ PushIP("exit") /\ next' = "word"

Catch == /\ state = "compile" => "catch" \in Liberties
         /\ Nest("catch") /\ tib' = Taken /\ UNCHANGED source
         /\ PushIP("exit") /\ next' = "word"

--------------------------------------------------------------------------------
(* Exceptions are thrown,                                                  *)
Raise(e) == except' = e /\ UNCHANGED <<frames, handler, codeVars, source, restart,
                                       compVars, next, done>>

(* THROW, BYE, ABORT, QUIT, an unknown word.                               *)
Throw == /\ Word /\ \E e \in Thrown : Raise(e)
         /\ tib' = Taken /\ running' = "other"

(* The text is used up.                                                    *)
TextEnds == /\ except = None /\ Top > 0 /\ next = "fetch" /\ ip = "loop" /\ tib.left = 0
            /\ Raise(OutOfText) /\ UNCHANGED <<tib, running>>

(* The xt has returned to the exit-inner word.                             *)
XtEnds == /\ except = None /\ Top > 0 /\ next = "fetch" /\ ip = "exit"
          /\ Raise(InnerExit) /\ UNCHANGED <<tib, running>>

(* Mutant of Landing: vm->exceptionHandler is not put back.                *)
LandingKept(f) == /\ except # None /\ handler > 0 /\ frames[handler].fn = f
                  /\ frames' = SubSeq(frames, 1, handler - 1)
                  /\ UNCHANGED handler /\ next' = "fetch"

(* and land in the frame of the handler; those above it are gone.          *)
Landing(f) == /\ except # None /\ handler > 0 /\ frames[handler].fn = f
              /\ frames' = SubSeq(frames, 1, handler - 1)
              /\ handler' = frames[handler].handler
              /\ next' = "fetch"

Resets == except \notin {Restart, OutOfText, UserExit, InnerExit}

(* Mutant of ResetVm: the definition in progress is given back only.       *)
ResetOnlyDef == IF Resets
                THEN /\ def' = (def /\ state # "compile") /\ UNCHANGED state
                     /\ rstack' = <<>> /\ ip' = "null" /\ running' = "other"
                ELSE UNCHANGED <<def, state, rstack, ip, running>>

(* Mutant of ResetVm: the interpreter loop is left on the return stack.    *)
ResetNoPop == IF Resets
              THEN /\ def' = (def /\ state # "compile") /\ state' = "interpret"
                   /\ rstack' = <<>> /\ ip' = "null" /\ running' = "other"
              ELSE UNCHANGED <<codeVars, compVars, running>>

(* The cases of ficlVmExecuteString, with ficlVmQuit and ficlVmAbort.      *)
ResetVm == IF Resets
           THEN /\ def' = (def /\ state # "compile") /\ state' = "interpret"
                /\ rstack' = <<>> /\ ip' = "null" /\ running' = "other"
           ELSE /\ IF except = OutOfText THEN PopIP ELSE UNCHANGED codeVars
                /\ UNCHANGED <<compVars, running>>

(* What ficlVmExecuteString leaves in vm->sourceId, and returns.           *)
SourceLeft == IF Resets THEN 0 ELSE source
Result     == IF except = Restart THEN OutOfText ELSE except

TextLands(f) == /\ Landing(f)
                /\ ResetVm
                /\ restart' = (except = Restart \/ (restart /\ ~Resets))
                /\ tib' = frames[handler].tib

LineReturns(f) == /\ TextLands(f)
                  /\ source' = IF f = "line" THEN frames[handler].source ELSE SourceLeft
                  /\ except' = None /\ done' = (except = UserExit)

(* Mutants of EvaluateReturns: SOURCE-ID stays -1;                         *)
EvaluateStays == /\ TextLands("evaluate")
                 /\ except' = IF Result = OutOfText THEN None ELSE Result
                 /\ UNCHANGED <<source, done>>

(* an exception other than BYE is dropped.                                 *)
EvaluateDrops == /\ TextLands("evaluate")
                 /\ source' = frames[handler].source
                 /\ except' = IF Result = UserExit THEN Result ELSE None
                 /\ UNCHANGED done

EvaluateReturns == /\ TextLands("evaluate")
                   /\ source' = frames[handler].source
                   /\ except' = IF Result = OutOfText THEN None ELSE Result
                   /\ UNCHANGED done

(* A negative exception is passed on; with any other the file is done.     *)
IncludeReturns == /\ TextLands("include")
                  /\ IF Result < 0 /\ Result # OutOfText
                     THEN except' = Result /\ source' = SourceLeft
                     ELSE except' = None /\ source' = frames[handler].source
                  /\ UNCHANGED done

(* Mutants of XtReturns: exit-inner stays on the return stack;             *)
XtNoPop(f) == /\ Landing(f)
              /\ IF except = InnerExit
                 THEN /\ except' = None /\ running' = frames[handler].running
                      /\ tib' = IF f = "parsing" THEN frames[handler].tib ELSE tib
                 ELSE UNCHANGED <<except, running, tib>>
              /\ UNCHANGED <<codeVars, source, restart, compVars, done>>

(* the old handler is put back after the exception is thrown, not before.  *)
XtRethrows(f) == IF except = InnerExit
                 THEN /\ Landing(f) /\ PopIP
                      /\ except' = None /\ running' = frames[handler].running
                      /\ tib' = IF f = "parsing" THEN frames[handler].tib ELSE tib
                      /\ UNCHANGED <<source, restart, compVars, done>>
                 ELSE /\ except # None /\ handler > 0 /\ frames[handler].fn = f /\ PopIP
                      /\ UNCHANGED <<frames, handler, inputVars, restart, running, compVars,
                                     next, except, done>>

(* ficlVmExecuteXT; EXECUTE-PARSING brings its text back only if it        *)
(* returns.                                                                *)
XtReturns(f) == /\ Landing(f) /\ PopIP
                /\ IF except = InnerExit
                   THEN /\ except' = None /\ running' = frames[handler].running
                        /\ tib' = IF f = "parsing" THEN frames[handler].tib ELSE tib
                   ELSE UNCHANGED <<except, running, tib>>
                /\ UNCHANGED <<source, restart, compVars, done>>

CatchReturns ==
  /\ Landing("catch")
  /\ except' = None
  /\ IF except = InnerExit
     THEN PopIP /\ UNCHANGED <<inputVars, restart, running, state>>
     ELSE LET f == frames[handler] IN
          /\ ip' = f.ip /\ rstack' = f.rstack
          /\ tib' = f.tib /\ source' = f.source
          /\ restart' = f.restart /\ running' = f.running /\ state' = f.state
  /\ UNCHANGED <<def, done>>

--------------------------------------------------------------------------------
Enter == \/ \E f \in Lines : Line(f)
         \/ Evaluate \/ IncludeFile \/ ExecuteParsing \/ ExecuteXT \/ Catch

Execute == \/ Plain \/ Call \/ Return \/ Semicolon \/ Rerun \/ Throw \/ TextEnds \/ XtEnds
           \/ Parse("parse") \/ Parse("colon") \/ \E w \in Again : RunDry(w)

Unwind == \/ EvaluateReturns \/ IncludeReturns \/ CatchReturns
          \/ \E f \in Lines : LineReturns(f)
          \/ \E f \in Calls : XtReturns(f)

Next == Enter \/ Execute \/ Unwind

Spec     == Init /\ [][Next]_vars
FairSpec == Spec /\ WF_vars(Unwind)

--------------------------------------------------------------------------------
(* Properties.                                                             *)

FrameSet == [fn : Texts \cup Calls \cup {"catch"}, tib : TibSet, source : -1..MaxFrames,
             handler : 0..MaxFrames, ip : IpSet, rstack : Seq(IpSet), restart : BOOLEAN,
             running : Again \cup {"other"}, state : {"interpret", "compile"}]

(* What every variable may hold; a text has no fewer than zero words left. *)
TypeOK ==
  /\ frames \in Seq(FrameSet) /\ Top <= MaxFrames /\ handler \in 0..MaxFrames
  /\ ip \in IpSet /\ rstack \in Seq(IpSet) /\ Len(rstack) <= MaxReturn
  /\ tib \in TibSet /\ source \in -1..MaxFrames
  /\ restart \in BOOLEAN /\ running \in Again \cup {"other"}
  /\ state \in {"interpret", "compile"} /\ def \in BOOLEAN
  /\ next \in {"fetch", "word", "rerun"}
  /\ except \in Thrown \cup {None, InnerExit, OutOfText, Restart}
  /\ done \in BOOLEAN

(* vm->exceptionHandler is the jmp_buf of the innermost C function that is *)
(* still active, whatever was thrown across whatever was nested.           *)
HandlerLive == handler = Top /\ \A i \in DOMAIN frames : frames[i].handler = i - 1

(* Among the first k C functions, i is the last of those in S.             *)
Innermost(i, k, S) == frames[i].fn \in S /\ \A j \in i + 1..k : frames[j].fn \notin S

(* Text t and SOURCE-ID s are those that the first k C functions have set. *)
Input(k, t, s) ==
  /\ k = 0 => t = 0 /\ s = 0
  /\ \A i \in 1..k :
       /\ Innermost(i, k, Texts \cup {"parsing"}) => t = i
       /\ Innermost(i, k, Texts) => s = CASE frames[i].fn = "string"  -> 0
                                         [] frames[i].fn = "include" -> i
                                         [] OTHER -> -1

(* Code that executes reads the text, and reports the SOURCE-ID, of the    *)
(* innermost C function that set them: vm.c and primitives.c put them back *)
(* on every way out.                                                       *)
SourceIsCallers == except = None /\ ~done => Input(Top, tib.text, source)

(* Between two lines the VM is at rest: nothing is left on the return      *)
(* stack, unless a word waits for the next line to be run again.           *)
Settled ==
  Top = 0 /\ ~done =>
    IF restart THEN running \in Again /\ ip \in {"loop", "body"}
               ELSE ip = "null" /\ rstack = <<>>

(* What nested C functions change is put back on every way out: the        *)
(* exception handler, the text with its SOURCE-ID, and between lines the   *)
(* return stack (ficlVmExecuteString and ficlVmExecuteXT of vm.c, CATCH of *)
(* primitives.c, INCLUDE-FILE of fileaccess.c).                            *)
PutBack == HandlerLive /\ SourceIsCallers /\ Settled

(* When EVALUATE, INCLUDE-FILE, EXECUTE-PARSING or an xt is over, the code *)
(* that called it goes on where it was, with the return stack it had.      *)
(* This holds by MayRunDry only: a RESTART out of an EVALUATE, or a REFILL *)
(* in an included file, is taken for the end of the text but leaves the    *)
(* pushed ip on the return stack (ficlVmExecuteString of vm.c).            *)
Resumes ==
  [][Unwind /\ Top > 1 /\ except' = None =>
       LET f == frames[handler] IN ip' = f.ip /\ rstack' = f.rstack]_vars

(* While the VM compiles there is a definition in progress to compile to:  *)
(* an error gives back the definition and the state together.              *)
DefinitionWhileCompiling == except = None /\ state = "compile" => def

(* THROW "returns to the last executed catch context" (primitives.c).      *)
ThrowReachesCatch ==
  [][except' = None /\ except \in Codes =>
       \A i \in DOMAIN frames : Innermost(i, Top, {"catch"}) => i = handler]_vars

(* What is thrown lands: the C functions are left one by one until one     *)
(* deals with it.                                                          *)
ThrowsLand == except # None ~> except = None

================================================================================
