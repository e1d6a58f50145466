--------------------------- MODULE Interpreter_proof ---------------------------
(***************************************************************************)
(* What the outer interpreter puts back, for texts, nesting and return     *)
(* stacks of every size and whatever programs throw.                       *)
(***************************************************************************)
EXTENDS Interpreter, SequenceTheorems, TLAPS

(* The return stack that CATCH puts back is one the VM has had.            *)
SavedBounded == \A i \in 1..Top : Len(frames[i].rstack) <= MaxReturn

TypeInv == TypeOK /\ HandlerLive /\ SavedBounded

--------------------------------------------------------------------------------
(* Code positions.  A C function pushes what it finds in vm->ip, and sets  *)
(* vm->ip to its loop or to exit-inner; colon definitions that it executes *)
(* push on top of that.                                                    *)
Bottom(f) == IF f.fn \in Texts THEN "loop" ELSE "exit"

(* A line finds an empty stack, or what a waiting word goes on with.       *)
Base(f) == IF f.fn \in Lines THEN <<"null">> ELSE Append(f.rstack, f.ip)

InBody(base, bottom, p, rs) ==
  /\ p = "body" /\ Len(rs) > Len(base)
  /\ \A j \in 1..Len(base) : rs[j] = base[j]
  /\ rs[Len(base) + 1] = bottom
  /\ \A j \in Len(base) + 2..Len(rs) : rs[j] = "body"

AtBottom(f, p, rs) == p = Bottom(f) /\ rs = Base(f)
Executes(f, p, rs) == AtBottom(f, p, rs) \/ InBody(Base(f), Bottom(f), p, rs)

(* The host's functions are the outermost; the others are called by code.  *)
Nesting ==
  \A i \in 1..Top :
    /\ frames[i].fn \in Lines <=> i = 1
    /\ i > 1 => /\ ~frames[i].restart
                /\ Executes(frames[i - 1], frames[i].ip, frames[i].rstack)

(* Between lines only the code of a word that waits is left.               *)
Idle == IF restart THEN /\ running \in Again
                        /\ \/ ip = "loop" /\ rstack = <<"null">>
                           \/ InBody(<<"null">>, "loop", ip, rstack)
                   ELSE ip = "null" /\ rstack = <<>>

(* With except = None the innermost function executes, or it is one that a *)
(* positive exception has left with the return stack reset.                *)
Running ==
  /\ next = "rerun" => Top = 1 /\ restart /\ running \in Again
  /\ next = "word" => frames[Top].fn \notin Texts /\ AtBottom(frames[Top], ip, rstack)
  /\ \/ Executes(frames[Top], ip, rstack)
     \/ next = "fetch" /\ ip = "null"

(* An exception of the interpreter's own lands where it is thrown.         *)
Lands ==
  LET f == frames[Top] IN
  /\ except = InnerExit => f.fn \notin Texts /\ AtBottom(f, ip, rstack)
  /\ except = OutOfText => f.fn \in Texts /\ AtBottom(f, ip, rstack) /\ ~restart
  /\ except = Restart => \/ f.fn = "catch"
                         \/ Top = 1 /\ running \in Again /\ Executes(f, ip, rstack)

CodeInv ==
  /\ Nesting
  /\ done => Top = 0
  /\ except # None => Top > 0 /\ Lands
  /\ Top = 0 => next = "fetch" /\ (done \/ Idle)
  /\ Top > 0 /\ except = None => Running
  /\ restart /\ Top > 0 => Top = 1 /\ next = "rerun"

(* Every C function has saved the text and the SOURCE-ID of its caller.    *)
InputInv ==
  /\ \A i \in 1..Top : Input(i - 1, frames[i].tib.text, frames[i].source)
  /\ except \in {None, InnerExit, OutOfText, Restart} /\ ~done => Input(Top, tib.text, source)

(* CATCH is not executed while compiling, so none puts that state back.    *)
CompileInv ==
  /\ state = "compile" => def
  /\ \A i \in 1..Top : frames[i].fn = "catch" => frames[i].state = "interpret"

--------------------------------------------------------------------------------
(* The helpers of the actions.                                             *)
LEMMA Popped ==
  ASSUME TypeInv, PopIP
  PROVE  ip' \in IpSet /\ rstack' \in Seq(IpSet) /\ Len(rstack') <= MaxReturn
<1>1. rstack \in Seq(IpSet) /\ Len(rstack) <= MaxReturn /\ MaxReturn \in Nat
  BY InterpreterAssumption DEF TypeInv, TypeOK
<1>2. CASE rstack = <<>>
  BY <1>1, <1>2 DEF PopIP, IpSet
<1>3. CASE rstack # <<>>
  <2>1. Len(rstack) \in Nat /\ Len(rstack) >= 1
    BY <1>1, <1>3
  <2>2. rstack[Len(rstack)] \in IpSet
    BY <1>1, <2>1
  <2> DEFINE n == Len(rstack) - 1
  <2>0. n \in Nat /\ \A i \in 1..n : rstack[i] \in IpSet
    BY <1>1, <2>1
  <2>3. SubSeq(rstack, 1, n) \in Seq(IpSet) /\ Len(SubSeq(rstack, 1, n)) = n
    <3> HIDE DEF n
    <3> QED BY <2>0, SubSeqProperties
  <2> QED BY <1>1, <1>3, <2>1, <2>2, <2>3 DEF PopIP
<1> QED BY <1>2, <1>3

LEMMA Pushed ==
  ASSUME TypeInv, NEW to \in IpSet, PushIP(to)
  PROVE  ip' \in IpSet /\ rstack' \in Seq(IpSet) /\ Len(rstack') <= MaxReturn
<1>1. rstack \in Seq(IpSet) /\ Len(rstack) \in Nat /\ ip \in IpSet /\ MaxReturn \in Nat
  BY InterpreterAssumption DEF TypeInv, TypeOK
<1> QED BY <1>1 DEF PushIP

LEMMA TakenText ==
  ASSUME TypeInv, Word
  PROVE  Taken \in TibSet /\ Taken.text = tib.text
<1>1. tib \in TibSet /\ MaxText \in Nat
  BY InterpreterAssumption DEF TypeInv, TypeOK
<1>2. CASE next = "fetch" /\ ip = "loop"
  <2>1. tib.left > 0
    BY <1>2 DEF Word
  <2> QED BY <1>1, <1>2, <2>1 DEF Taken, TibSet
<1>3. CASE ~(next = "fetch" /\ ip = "loop")
  <2>1. Taken = tib
    BY <1>3 DEF Taken
  <2> QED BY <1>1, <2>1
<1> QED BY <1>2, <1>3

(* The frame of a C function that is called.                               *)
LEMMA Nested ==
  ASSUME TypeInv, NEW f \in Texts \cup Calls \cup {"catch"}, Nest(f)
  PROVE  /\ frames' \in Seq(FrameSet) /\ Top' = Top + 1 /\ Top' <= MaxFrames
         /\ handler' \in 0..MaxFrames
         /\ \A i \in 1..Top : frames'[i] = frames[i]
         /\ frames'[Top + 1] = [Frame(f) EXCEPT !.tib = Taken]
         /\ HandlerLive' /\ SavedBounded'
         /\ Top \in Nat
<1> DEFINE new == [Frame(f) EXCEPT !.tib = Taken]
<1>1. /\ Word /\ Top < MaxFrames /\ frames' = Append(frames, new) /\ handler' = Top + 1
      /\ frames \in Seq(FrameSet) /\ Top \in Nat /\ MaxFrames \in Nat
      /\ handler = Top
  BY InterpreterAssumption DEF Nest, TypeInv, TypeOK, Top, HandlerLive
<1>2. new \in FrameSet
  <2>1. Taken \in TibSet
    BY <1>1, TakenText
  <2>2. handler \in 0..MaxFrames
    BY DEF TypeInv, TypeOK
  <2> QED BY <2>1, <2>2 DEF FrameSet, Frame, TypeInv, TypeOK
<1>3. new.handler = Top /\ Len(new.rstack) <= MaxReturn
  BY <1>1 DEF Frame, TypeInv, TypeOK
<1> HIDE DEF new
<1>4. /\ frames' \in Seq(FrameSet) /\ Top' = Top + 1 /\ frames'[Top + 1] = new
      /\ \A i \in 1..Top : frames'[i] = frames[i]
  BY <1>1, <1>2 DEF Top
<1>5. HandlerLive'
  <2>1. \A i \in DOMAIN frames : frames[i].handler = i - 1
    BY DEF TypeInv, HandlerLive
  <2>2. DOMAIN frames = 1..Top /\ DOMAIN frames' = 1..Top + 1
    BY <1>1, <1>4 DEF Top
  <2> QED BY <1>1, <1>3, <1>4, <2>1, <2>2 DEF HandlerLive
<1>6. SavedBounded'
  <2>1. \A i \in 1..Top : Len(frames'[i].rstack) <= MaxReturn
    BY <1>4 DEF TypeInv, SavedBounded
  <2>2. \A i \in 1..Top' : i \in 1..Top \/ i = Top + 1
    BY <1>1, <1>4
  <2> QED BY <1>3, <1>4, <2>1, <2>2 DEF SavedBounded
<1>7. handler' \in 0..MaxFrames /\ Top' <= MaxFrames
  BY <1>1, <1>4
<1> QED BY <1>1, <1>4, <1>5, <1>6, <1>7 DEF new

(* The frames below the one where an exception lands.                      *)
LEMMA Landed ==
  ASSUME TypeInv, NEW f, Landing(f)
  PROVE  /\ Top \in Nat \ {0} /\ handler = Top /\ frames[Top].fn = f
         /\ frames[Top] \in FrameSet /\ Len(frames[Top].rstack) <= MaxReturn
         /\ frames' \in Seq(FrameSet) /\ Top' = Top - 1 /\ Top' <= MaxFrames
         /\ handler' \in 0..MaxFrames
         /\ \A i \in 1..Top - 1 : frames'[i] = frames[i]
         /\ HandlerLive' /\ SavedBounded'
         /\ next' = "fetch"
<1>1. /\ frames \in Seq(FrameSet) /\ Top \in Nat \ {0} /\ handler = Top /\ MaxFrames \in Nat
      /\ frames' = SubSeq(frames, 1, Top - 1) /\ handler' = frames[Top].handler
      /\ frames[Top].fn = f /\ next' = "fetch" /\ Top <= MaxFrames
  BY InterpreterAssumption DEF Landing, TypeInv, TypeOK, Top, HandlerLive
<1>2. DOMAIN frames = 1..Top
  BY <1>1 DEF Top
<1>3. frames[Top] \in FrameSet /\ frames[Top].handler = Top - 1
  BY <1>1, <1>2 DEF TypeInv, HandlerLive
<1>4. /\ frames' \in Seq(FrameSet) /\ Top' = Top - 1
      /\ \A i \in 1..Top - 1 : frames'[i] = frames[i]
  BY <1>1 DEF Top
<1>5. DOMAIN frames' = 1..Top - 1
  BY <1>1, <1>4 DEF Top
<1>6. HandlerLive'
  BY <1>1, <1>2, <1>3, <1>4, <1>5 DEF TypeInv, HandlerLive
<1>7. SavedBounded' /\ Len(frames[Top].rstack) <= MaxReturn
  BY <1>1, <1>4 DEF TypeInv, SavedBounded
<1> QED BY <1>1, <1>3, <1>4, <1>6, <1>7

--------------------------------------------------------------------------------
(* Types.                                                                  *)
FramesTyped == /\ frames \in Seq(FrameSet) /\ Top <= MaxFrames /\ handler \in 0..MaxFrames
               /\ HandlerLive /\ SavedBounded

CodeTyped == ip \in IpSet /\ rstack \in Seq(IpSet) /\ Len(rstack) <= MaxReturn

InputTyped == tib \in TibSet /\ source \in -1..MaxFrames

RestTyped == /\ restart \in BOOLEAN /\ running \in Again \cup {"other"}
             /\ state \in {"interpret", "compile"} /\ def \in BOOLEAN
             /\ next \in {"fetch", "word", "rerun"}
             /\ except \in Thrown \cup {None, InnerExit, OutOfText, Restart}
             /\ done \in BOOLEAN

LEMMA TypeParts ==
  /\ TypeInv <=> FramesTyped /\ CodeTyped /\ InputTyped /\ RestTyped
  /\ TypeInv' <=> FramesTyped' /\ CodeTyped' /\ InputTyped' /\ RestTyped'
BY DEF TypeInv, TypeOK, FramesTyped, CodeTyped, InputTyped, RestTyped

LEMMA FramesStay ==
  ASSUME FramesTyped, UNCHANGED <<frames, handler>>
  PROVE  FramesTyped'
BY DEF FramesTyped, HandlerLive, SavedBounded, Top

LEMMA CodeStays ==
  ASSUME CodeTyped, UNCHANGED codeVars
  PROVE  CodeTyped'
BY DEF CodeTyped, codeVars

LEMMA TypeInit == Init => TypeInv
<1> SUFFICES ASSUME Init PROVE TypeInv
  OBVIOUS
<1>1. frames = <<>> /\ Top = 0 /\ MaxFrames \in Nat /\ MaxText \in Nat /\ MaxReturn \in Nat
  BY InterpreterAssumption DEF Init, Top
<1>2. FramesTyped
  BY <1>1 DEF Init, FramesTyped, HandlerLive, SavedBounded
<1>3. CodeTyped
  BY <1>1 DEF Init, CodeTyped, IpSet
<1>4. InputTyped
  BY <1>1 DEF Init, InputTyped, TibSet, NoText
<1>5. RestTyped
  BY DEF Init, RestTyped
<1> QED BY <1>2, <1>3, <1>4, <1>5, TypeParts

LEMMA LineTypes ==
  ASSUME TypeInv, NEW f \in Lines, Line(f)
  PROVE  TypeInv'
<1>1. /\ frames \in Seq(FrameSet) /\ Top = 0 /\ frames' = <<Frame(f)>> /\ handler' = 1
      /\ MaxFrames \in Nat \ {0} /\ MaxText \in Nat /\ handler = 0
  BY InterpreterAssumption DEF Line, TypeInv, TypeOK, HandlerLive
<1>2. Frame(f) \in FrameSet /\ Frame(f).handler = 0 /\ Len(Frame(f).rstack) <= MaxReturn
  BY <1>1 DEF Frame, FrameSet, TypeInv, TypeOK, Texts
<1>3. FramesTyped'
  <2> DEFINE new == Frame(f)
  <2> HIDE DEF new
  <2>1. frames' = <<new>> /\ new \in FrameSet /\ new.handler = 0 /\ Len(new.rstack) <= MaxReturn
    BY <1>1, <1>2 DEF new
  <2>2. frames' \in Seq(FrameSet) /\ Top' = 1 /\ frames'[1] = new /\ DOMAIN frames' = 1..1
    BY <2>1 DEF Top
  <2> QED BY <1>1, <2>1, <2>2 DEF FramesTyped, HandlerLive, SavedBounded
<1>4. CodeTyped'
  <2>1. CASE restart
    BY <2>1, TypeParts, CodeStays DEF Line
  <2>2. CASE ~restart
    BY <2>2, Pushed DEF Line, CodeTyped, IpSet
  <2> QED BY <2>1, <2>2
<1>5. InputTyped'
  BY <1>1 DEF Line, InputTyped, TibSet, TypeInv, TypeOK
<1>6. RestTyped'
  BY TypeParts DEF Line, RestTyped, compVars
<1> QED BY <1>3, <1>4, <1>5, <1>6, TypeParts

(* Words that neither nest nor unwind.                                     *)
LEMMA ExecuteTypes ==
  ASSUME TypeInv, Execute
  PROVE  TypeInv'
<1> USE TypeParts
<1>1. CASE Plain
  <2>1. FramesTyped' /\ CodeTyped'
    BY <1>1, FramesStay, CodeStays DEF Plain, codeVars
  <2>2. InputTyped' /\ RestTyped'
    BY <1>1, TakenText DEF Plain, InputTyped, RestTyped, compVars
  <2> QED BY <2>1, <2>2
<1>2. CASE Call
  <2>1. FramesTyped'
    BY <1>2, FramesStay DEF Call
  <2>2. CodeTyped'
    BY <1>2, Pushed DEF Call, CodeTyped, IpSet
  <2>3. InputTyped' /\ RestTyped'
    BY <1>2, TakenText DEF Call, InputTyped, RestTyped, compVars
  <2> QED BY <2>1, <2>2, <2>3
<1>3. CASE Return
  <2>1. FramesTyped'
    BY <1>3, FramesStay DEF Return
  <2>2. CodeTyped'
    BY <1>3, Popped DEF Return, CodeTyped
  <2>3. InputTyped' /\ RestTyped'
    BY <1>3 DEF Return, InputTyped, RestTyped, compVars, inputVars
  <2> QED BY <2>1, <2>2, <2>3
<1>4. CASE Semicolon
  <2>1. FramesTyped' /\ CodeTyped'
    BY <1>4, FramesStay, CodeStays DEF Semicolon
  <2>2. InputTyped' /\ RestTyped'
    BY <1>4, TakenText DEF Semicolon, InputTyped, RestTyped
  <2> QED BY <2>1, <2>2
<1>5. ASSUME NEW w \in Again, Parse(w)
      PROVE  TypeInv'
  <2>1. FramesTyped' /\ CodeTyped'
    BY <1>5, FramesStay, CodeStays DEF Parse
  <2>2. Taken \in TibSet /\ Taken.left > 0
    BY <1>5, TakenText DEF Parse
  <2>3. InputTyped'
    BY <1>5, <2>2, InterpreterAssumption DEF Parse, InputTyped, TibSet
  <2>4. RestTyped'
    BY <1>5 DEF Parse, Named, RestTyped, compVars
  <2> QED BY <2>1, <2>3, <2>4
<1>6. ASSUME NEW w \in Again, RunDry(w)
      PROVE  TypeInv'
  <2>1. FramesTyped' /\ CodeTyped'
    BY <1>6, FramesStay, CodeStays DEF RunDry
  <2>2. InputTyped' /\ RestTyped'
    BY <1>6, TakenText DEF RunDry, InputTyped, RestTyped, compVars
  <2> QED BY <2>1, <2>2
<1>7. CASE Rerun
  <2>1. FramesTyped' /\ CodeTyped'
    BY <1>7, FramesStay, CodeStays DEF Rerun
  <2>2. InputTyped'
    BY <1>7, InterpreterAssumption DEF Rerun, InputTyped, TibSet
  <2>3. RestTyped'
    BY <1>7 DEF Rerun, Named, RestTyped, compVars, Thrown
  <2> QED BY <2>1, <2>2, <2>3
<1>8. CASE Throw
  <2>1. FramesTyped' /\ CodeTyped'
    BY <1>8, FramesStay, CodeStays DEF Throw, Raise
  <2>2. InputTyped' /\ RestTyped'
    BY <1>8, TakenText DEF Throw, Raise, InputTyped, RestTyped, compVars
  <2> QED BY <2>1, <2>2
<1>9. CASE TextEnds \/ XtEnds
  <2>1. FramesTyped' /\ CodeTyped'
    BY <1>9, FramesStay, CodeStays DEF TextEnds, XtEnds, Raise
  <2>2. InputTyped' /\ RestTyped'
    BY <1>9 DEF TextEnds, XtEnds, Raise, InputTyped, RestTyped, compVars
  <2> QED BY <2>1, <2>2
<1> QED BY <1>1, <1>2, <1>3, <1>4, <1>5, <1>6, <1>7, <1>8, <1>9 DEF Execute, Again

(* Words that nest.                                                        *)
LEMMA EnterTypes ==
  ASSUME TypeInv, Enter
  PROVE  TypeInv'
<1> USE TypeParts
<1>1. ASSUME NEW f \in Texts \cup Calls \cup {"catch"}, Nest(f)
      PROVE  /\ FramesTyped' /\ Taken \in TibSet /\ MaxText \in Nat
             /\ Top + 1 \in 1..MaxFrames /\ running' \in {"other"}
             /\ UNCHANGED <<restart, compVars, except, done>>
  <2>0. /\ frames' \in Seq(FrameSet) /\ Top' = Top + 1 /\ Top' <= MaxFrames
        /\ handler' \in 0..MaxFrames /\ HandlerLive' /\ SavedBounded' /\ Top \in Nat
    BY <1>1, Nested
  <2>1. FramesTyped' /\ Top + 1 \in 1..MaxFrames
    BY <2>0, InterpreterAssumption DEF FramesTyped
  <2> QED BY <1>1, <2>1, TakenText, InterpreterAssumption DEF Nest
<1>2. ASSUME NewText, Top + 1 \in 1..MaxFrames, MaxText \in Nat
      PROVE  tib' \in TibSet
  BY <1>2, InterpreterAssumption DEF NewText, TibSet
<1>3. ASSUME NEW to \in {"loop", "exit"}, PushIP(to)
      PROVE  CodeTyped'
  BY <1>3, Pushed DEF CodeTyped, IpSet
<1>4. ASSUME running' = "other", UNCHANGED <<restart, compVars, except, done>>,
             next' \in {"fetch", "word"}
      PROVE  RestTyped'
  BY <1>4 DEF RestTyped, compVars
<1>5. CASE Evaluate
  <2>1. Nest("evaluate") /\ NewText /\ source' = -1 /\ PushIP("loop") /\ next' = "fetch"
    BY <1>5 DEF Evaluate
  <2>2. InputTyped'
    BY <1>1, <1>2, <2>1, InterpreterAssumption DEF InputTyped, Texts
  <2> QED BY <1>1, <1>3, <1>4, <2>1, <2>2 DEF Texts
<1>6. CASE IncludeFile
  <2>1. /\ Nest("include") /\ NewText /\ source' = Top + 1 /\ PushIP("loop")
        /\ next' = "fetch"
    BY <1>6 DEF IncludeFile
  <2>2. InputTyped'
    BY <1>1, <1>2, <2>1, InterpreterAssumption DEF InputTyped, Texts
  <2> QED BY <1>1, <1>3, <1>4, <2>1, <2>2 DEF Texts
<1>7. CASE ExecuteParsing
  <2>1. /\ Nest("parsing") /\ NewText /\ UNCHANGED source /\ PushIP("exit")
        /\ next' = "word"
    BY <1>7 DEF ExecuteParsing
  <2>2. InputTyped'
    BY <1>1, <1>2, <2>1 DEF InputTyped, Calls
  <2> QED BY <1>1, <1>3, <1>4, <2>1, <2>2 DEF Calls
<1>8. CASE ExecuteXT
  <2>1. /\ Nest("xt") /\ tib' = Taken /\ UNCHANGED source /\ PushIP("exit")
        /\ next' = "word"
    BY <1>8 DEF ExecuteXT
  <2>2. InputTyped'
    BY <1>1, <2>1 DEF InputTyped, Calls
  <2> QED BY <1>1, <1>3, <1>4, <2>1, <2>2 DEF Calls
<1>9. CASE Catch
  <2>1. /\ Nest("catch") /\ tib' = Taken /\ UNCHANGED source /\ PushIP("exit")
        /\ next' = "word"
    BY <1>9 DEF Catch
  <2>2. InputTyped'
    BY <1>1, <2>1 DEF InputTyped
  <2> QED BY <1>1, <1>3, <1>4, <2>1, <2>2
<1> QED BY <1>5, <1>6, <1>7, <1>8, <1>9, LineTypes DEF Enter

(* What the C functions do on their way out.                               *)
LEMMA UnwindTypes ==
  ASSUME TypeInv, Unwind
  PROVE  TypeInv'
<1> USE TypeParts
<1>1. ASSUME NEW f, Landing(f)
      PROVE  /\ FramesTyped' /\ next' = "fetch" /\ handler = Top
             /\ frames[handler] \in FrameSet /\ Len(frames[handler].rstack) <= MaxReturn
  BY <1>1, Landed DEF FramesTyped
<1>2. ASSUME NEW f, TextLands(f)
      PROVE  /\ FramesTyped' /\ CodeTyped' /\ next' = "fetch" /\ tib' \in TibSet
             /\ frames[handler].source \in -1..MaxFrames
             /\ restart' \in BOOLEAN /\ running' \in Again \cup {"other"}
             /\ state' \in {"interpret", "compile"} /\ def' \in BOOLEAN
  <2>1. Landing(f) /\ ResetVm /\ tib' = frames[handler].tib
    BY <1>2 DEF TextLands
  <2>2. CodeTyped'
    <3>1. CASE Resets
      BY <2>1, <3>1, InterpreterAssumption DEF ResetVm, CodeTyped, IpSet
    <3>2. CASE ~Resets /\ except = OutOfText
      BY <2>1, <3>2, Popped DEF ResetVm, CodeTyped
    <3>3. CASE ~Resets /\ except # OutOfText
      BY <2>1, <3>3, CodeStays DEF ResetVm
    <3> QED BY <3>1, <3>2, <3>3
  <2>3. /\ restart' \in BOOLEAN /\ running' \in Again \cup {"other"}
        /\ state' \in {"interpret", "compile"} /\ def' \in BOOLEAN
    BY <1>2, <2>1 DEF TextLands, ResetVm, compVars, RestTyped
  <2> QED BY <1>1, <2>1, <2>2, <2>3 DEF FrameSet
<1>3. /\ None \in Int /\ SourceLeft \in -1..MaxFrames
      /\ Result \in Thrown \cup {None, InnerExit, OutOfText, Restart}
  BY InterpreterAssumption DEF SourceLeft, Result, InputTyped, RestTyped, None
<1>4. ASSUME NEW f \in Lines, LineReturns(f)
      PROVE  TypeInv'
  <2>1. TextLands(f)
    BY <1>4 DEF LineReturns
  <2>2. InputTyped'
    BY <1>2, <1>3, <1>4, <2>1 DEF LineReturns, InputTyped
  <2>3. RestTyped'
    BY <1>2, <1>4, <2>1 DEF LineReturns, RestTyped
  <2> QED BY <1>2, <2>1, <2>2, <2>3
<1>5. CASE EvaluateReturns
  <2>1. TextLands("evaluate")
    BY <1>5 DEF EvaluateReturns
  <2>2. InputTyped'
    BY <1>2, <1>5, <2>1 DEF EvaluateReturns, InputTyped
  <2>3. RestTyped'
    BY <1>2, <1>3, <1>5, <2>1 DEF EvaluateReturns, RestTyped
  <2> QED BY <1>2, <2>1, <2>2, <2>3
<1>6. CASE IncludeReturns
  <2>1. TextLands("include")
    BY <1>6 DEF IncludeReturns
  <2>2. InputTyped'
    BY <1>2, <1>3, <1>6, <2>1 DEF IncludeReturns, InputTyped
  <2>3. RestTyped'
    BY <1>2, <1>3, <1>6, <2>1 DEF IncludeReturns, RestTyped
  <2> QED BY <1>2, <2>1, <2>2, <2>3
<1>7. ASSUME NEW f \in Calls, XtReturns(f)
      PROVE  TypeInv'
  <2>1. Landing(f) /\ PopIP
    BY <1>7 DEF XtReturns
  <2>2. CodeTyped'
    BY <2>1, Popped DEF CodeTyped
  <2>3. InputTyped'
    BY <1>1, <1>7, <2>1 DEF XtReturns, InputTyped, FrameSet
  <2>4. RestTyped'
    BY <1>1, <1>7, <2>1 DEF XtReturns, RestTyped, compVars, FrameSet
  <2> QED BY <1>1, <2>1, <2>2, <2>3, <2>4
<1>8. CASE CatchReturns
  <2>1. Landing("catch") /\ except' = None /\ UNCHANGED <<def, done>>
    BY <1>8 DEF CatchReturns
  <2>2. CASE except = InnerExit
    <3>1. PopIP /\ UNCHANGED <<inputVars, restart, running, state>>
      BY <1>8, <2>2 DEF CatchReturns
    <3>2. CodeTyped'
      BY <3>1, Popped DEF CodeTyped
    <3>3. InputTyped' /\ RestTyped'
      BY <1>1, <2>1, <3>1 DEF InputTyped, RestTyped, inputVars
    <3> QED BY <1>1, <2>1, <3>2, <3>3
  <2>3. CASE except # InnerExit
    <3>1. LET f == frames[handler] IN
            /\ ip' = f.ip /\ rstack' = f.rstack /\ tib' = f.tib /\ source' = f.source
            /\ restart' = f.restart /\ running' = f.running /\ state' = f.state
      BY <1>8, <2>3 DEF CatchReturns
    <3>2. CodeTyped'
      BY <1>1, <2>1, <3>1 DEF CodeTyped, FrameSet
    <3>3. InputTyped' /\ RestTyped'
      BY <1>1, <2>1, <3>1 DEF InputTyped, RestTyped, FrameSet
    <3> QED BY <1>1, <2>1, <3>2, <3>3
  <2> QED BY <2>2, <2>3
<1> QED BY <1>4, <1>5, <1>6, <1>7, <1>8 DEF Unwind

LEMMA TypeStep == TypeInv /\ [Next]_vars => TypeInv'
<1> SUFFICES ASSUME TypeInv, [Next]_vars PROVE TypeInv'
  OBVIOUS
<1>1. CASE UNCHANGED vars
  <2>1. FramesTyped' /\ CodeTyped'
    BY <1>1, TypeParts, FramesStay, CodeStays DEF vars
  <2>2. InputTyped' /\ RestTyped'
    BY <1>1, TypeParts DEF vars, inputVars, compVars, InputTyped, RestTyped
  <2> QED BY <2>1, <2>2, TypeParts
<1> QED BY <1>1, EnterTypes, ExecuteTypes, UnwindTypes DEF Next

LEMMA TypeAlways == Spec => []TypeInv
BY TypeInit, TypeStep, PTL DEF Spec

(* Every variable of the interpreter, and all that C functions have saved, *)
(* keeps its type: no word takes more from a text than is left, and the    *)
(* return stack stays in its bound whatever CATCH puts back (vm.c,         *)
(* primitives.c).                                                          *)
THEOREM TypeCorrect == Spec => []TypeOK
<1>1. TypeInv => TypeOK
  BY DEF TypeInv
<1> QED BY <1>1, TypeAlways, PTL

--------------------------------------------------------------------------------
(* Code positions, and the return stack.                                   *)
LEMMA BaseTyped ==
  ASSUME NEW f \in FrameSet
  PROVE  Base(f) \in Seq(IpSet) /\ Len(Base(f)) \in Nat \ {0} /\ Bottom(f) \in {"loop", "exit"}
<1>1. f.rstack \in Seq(IpSet) /\ f.ip \in IpSet /\ "null" \in IpSet
  BY DEF FrameSet, IpSet
<1> QED BY <1>1 DEF Base, Bottom

LEMMA BodyPushed ==
  ASSUME NEW f \in FrameSet, NEW p \in IpSet, NEW rs \in Seq(IpSet), Executes(f, p, rs)
  PROVE  Executes(f, "body", Append(rs, p))
<1> DEFINE t == Append(rs, p)
           n == Len(Base(f))
<1>1. /\ Len(t) = Len(rs) + 1 /\ Len(rs) \in Nat /\ t[Len(rs) + 1] = p
      /\ \A j \in 1..Len(rs) : t[j] = rs[j]
  OBVIOUS
<1>2. n \in Nat \ {0}
  BY BaseTyped
<1>3. CASE AtBottom(f, p, rs)
  BY <1>1, <1>2, <1>3 DEF AtBottom, Executes, InBody
<1>4. CASE InBody(Base(f), Bottom(f), p, rs)
  <2>1. /\ p = "body" /\ Len(rs) > n /\ \A j \in 1..n : rs[j] = Base(f)[j]
        /\ rs[n + 1] = Bottom(f) /\ \A j \in n + 2..Len(rs) : rs[j] = "body"
    BY <1>4 DEF InBody
  <2> HIDE DEF t, n
  <2>2. \A j \in n + 2..Len(t) : t[j] = "body"
    BY <1>1, <1>2, <2>1
  <2>3. \A j \in 1..n : t[j] = Base(f)[j]
    BY <1>1, <1>2, <2>1
  <2>4. t[n + 1] = Bottom(f) /\ Len(t) > n
    BY <1>1, <1>2, <2>1
  <2> QED BY <2>2, <2>3, <2>4 DEF Executes, InBody, n, t
<1> QED BY <1>3, <1>4 DEF Executes

LEMMA Shortened ==
  ASSUME NEW rs \in Seq(IpSet), rs # <<>>
  PROVE  /\ Len(rs) \in Nat \ {0} /\ rs[Len(rs)] \in IpSet
         /\ SubSeq(rs, 1, Len(rs) - 1) \in Seq(IpSet)
         /\ Len(SubSeq(rs, 1, Len(rs) - 1)) = Len(rs) - 1
         /\ \A j \in 1..Len(rs) - 1 : SubSeq(rs, 1, Len(rs) - 1)[j] = rs[j]
<1> DEFINE n == Len(rs) - 1
<1>1. n \in Nat /\ Len(rs) = n + 1 /\ \A i \in 1..n : rs[i] \in IpSet
  OBVIOUS
<1>2. rs[Len(rs)] \in IpSet
  BY <1>1
<1> HIDE DEF n
<1>3. /\ SubSeq(rs, 1, n) \in Seq(IpSet) /\ Len(SubSeq(rs, 1, n)) = n
      /\ \A j \in 1..n : SubSeq(rs, 1, n)[j] = rs[j]
  BY <1>1, SubSeqProperties
<1> QED BY <1>1, <1>2, <1>3 DEF n

LEMMA SameStack ==
  ASSUME NEW s \in Seq(IpSet), NEW t \in Seq(IpSet), Len(s) = Len(t),
         \A j \in 1..Len(s) : s[j] = t[j]
  PROVE  s = t
OBVIOUS

LEMMA BodyPopped ==
  ASSUME NEW f \in FrameSet, NEW rs \in Seq(IpSet),
         InBody(Base(f), Bottom(f), "body", rs)
  PROVE  rs # <<>> /\ Executes(f, rs[Len(rs)], SubSeq(rs, 1, Len(rs) - 1))
<1> DEFINE n == Len(Base(f))
           t == SubSeq(rs, 1, Len(rs) - 1)
<1>1. n \in Nat \ {0} /\ Base(f) \in Seq(IpSet)
  BY BaseTyped
<1>2. /\ Len(rs) > n /\ \A j \in 1..n : rs[j] = Base(f)[j]
      /\ rs[n + 1] = Bottom(f) /\ \A j \in n + 2..Len(rs) : rs[j] = "body"
  BY DEF InBody
<1>3. rs # <<>> /\ Len(rs) \in Nat
  BY <1>1, <1>2
<1>4. t \in Seq(IpSet) /\ Len(t) = Len(rs) - 1 /\ \A j \in 1..Len(rs) - 1 : t[j] = rs[j]
  BY <1>3, Shortened
<1> HIDE DEF t
<1>5. CASE Len(rs) = n + 1
  <2>1. t = Base(f)
    <3> HIDE DEF n
    <3>1. Len(t) = Len(Base(f)) /\ \A j \in 1..Len(t) : t[j] = Base(f)[j]
      BY <1>1, <1>2, <1>3, <1>4, <1>5 DEF n
    <3> QED BY <1>1, <1>4, <3>1, SameStack
  <2> QED BY <1>2, <1>3, <1>5, <2>1 DEF Executes, AtBottom, t
<1>6. CASE Len(rs) # n + 1
  <2>1. Len(rs) > n + 1 /\ rs[Len(rs)] = "body"
    BY <1>1, <1>2, <1>3, <1>6
  <2>2. InBody(Base(f), Bottom(f), rs[Len(rs)], t)
    <3> HIDE DEF n
    <3>1. Len(t) > n /\ n + 1 \in 1..Len(rs) - 1 /\ t[n + 1] = Bottom(f)
      BY <1>1, <1>2, <1>3, <1>4, <2>1
    <3>2. \A j \in 1..n : t[j] = Base(f)[j]
      BY <1>1, <1>2, <1>3, <1>4, <2>1
    <3>3. \A j \in n + 2..Len(t) : t[j] = "body"
      <4> TAKE j \in n + 2..Len(t)
      <4>1. j \in 1..Len(rs) - 1 /\ j \in n + 2..Len(rs)
        BY <1>1, <1>3, <1>4
      <4> QED BY <1>2, <1>4, <4>1
    <3> QED BY <2>1, <3>1, <3>2, <3>3 DEF InBody, n
  <2> QED BY <1>3, <2>2 DEF Executes, t
<1> QED BY <1>5, <1>6

(* The C function that returns pops what it pushed.                        *)
LEMMA BasePopped ==
  ASSUME NEW f \in FrameSet, f.fn \notin Lines, rstack = Base(f), PopIP
  PROVE  ip' = f.ip /\ rstack' = f.rstack
<1>1. /\ f.rstack \in Seq(IpSet) /\ f.ip \in IpSet /\ rstack = Append(f.rstack, f.ip)
  BY DEF Base, FrameSet
<1>2. /\ rstack \in Seq(IpSet) /\ rstack # <<>> /\ Len(rstack) = Len(f.rstack) + 1
      /\ rstack[Len(rstack)] = f.ip
      /\ \A j \in 1..Len(f.rstack) : rstack[j] = f.rstack[j]
  BY <1>1
<1>3. ip' = f.ip /\ rstack' = SubSeq(rstack, 1, Len(rstack) - 1)
  BY <1>2 DEF PopIP
<1>4. /\ rstack' \in Seq(IpSet) /\ Len(rstack') = Len(rstack) - 1
      /\ \A j \in 1..Len(rstack) - 1 : rstack'[j] = rstack[j]
  BY <1>2, <1>3, Shortened
<1>5. Len(rstack') = Len(f.rstack) /\ \A j \in 1..Len(rstack') : rstack'[j] = f.rstack[j]
  BY <1>1, <1>2, <1>4
<1> QED BY <1>1, <1>3, <1>4, <1>5, SameStack

--------------------------------------------------------------------------------
(* Where code goes on.                                                     *)
LEMMA CodeInit == Init => CodeInv
<1> SUFFICES ASSUME Init PROVE CodeInv
  OBVIOUS
<1>1. Top = 0
  BY DEF Init, Top
<1> QED BY <1>1 DEF Init, CodeInv, Nesting, Idle, None

(* Code that is at a word is code of the innermost C function.             *)
LEMMA WordCode ==
  ASSUME TypeInv, CodeInv, Word
  PROVE  /\ Top \in Nat \ {0} /\ frames[Top] \in FrameSet
         /\ ip \in IpSet /\ rstack \in Seq(IpSet)
         /\ Executes(frames[Top], ip, rstack)
         /\ ~restart /\ ~done
<1>1. /\ Top \in Nat \ {0} /\ frames[Top] \in FrameSet
      /\ ip \in IpSet /\ rstack \in Seq(IpSet)
  BY DEF Word, TypeInv, TypeOK, Top
<1>2. Running /\ ~done /\ next # "rerun" /\ (ip # "null" \/ next = "word")
  BY <1>1 DEF Word, CodeInv
<1>3. Running /\ ~done /\ next # "rerun"
  BY <1>1, <1>2 DEF Word, CodeInv
<1> QED BY <1>1, <1>2, <1>3 DEF Running, CodeInv, Executes

(* A step within the innermost C function, which executes on, or throws.   *)
LEMMA CodeGoesOn ==
  ASSUME TypeInv, CodeInv, Top > 0, frames' = frames, done' = done,
         restart' => Top = 1 /\ next' = "rerun",
         except' = None => /\ next' = "fetch"
                           /\ Executes(frames[Top], ip', rstack'),
         except' # None => Lands'
  PROVE  CodeInv'
<1>1. Top' = Top /\ Top \in Nat
  BY DEF Top, TypeInv, TypeOK
<1>2. Nesting'
  BY <1>1 DEF CodeInv, Nesting
<1>3. except' = None => Running'
  BY <1>1 DEF Running
<1> QED BY <1>1, <1>2, <1>3 DEF CodeInv

LEMMA ExecuteCode ==
  ASSUME TypeInv, CodeInv, Execute
  PROVE  CodeInv'
<1>1. ASSUME Word, UNCHANGED <<frames, codeVars, restart, done>>,
             except' = None, next' = "fetch"
      PROVE  CodeInv'
  BY <1>1, WordCode, CodeGoesOn DEF codeVars
<1>2. CASE Plain
  BY <1>1, <1>2 DEF Plain, Word
<1>3. CASE Semicolon
  BY <1>1, <1>3 DEF Semicolon, Word
<1>4. ASSUME NEW w \in Again, Parse(w)
      PROVE  CodeInv'
  BY <1>1, <1>4 DEF Parse, Word
<1>5. CASE Call
  <2>1. Word /\ PushIP("body") /\ next' = "fetch" /\ UNCHANGED <<frames, restart, except, done>>
    BY <1>5 DEF Call
  <2>2. Executes(frames[Top], ip', rstack')
    BY <2>1, WordCode, BodyPushed DEF PushIP
  <2> QED BY <2>1, <2>2, WordCode, CodeGoesOn DEF Word
<1>6. ASSUME except = None, Top > 0, next = "fetch"
      PROVE  /\ Top \in Nat \ {0} /\ frames[Top] \in FrameSet /\ rstack \in Seq(IpSet)
             /\ ~restart
             /\ ip # "null" => Executes(frames[Top], ip, rstack)
  BY <1>6 DEF CodeInv, Running, TypeInv, TypeOK, Top
<1>7. CASE Return
  <2>1. /\ except = None /\ Top > 0 /\ next = "fetch" /\ ip = "body" /\ PopIP
        /\ UNCHANGED <<frames, restart, next, except, done>>
    BY <1>7 DEF Return
  <2>2. InBody(Base(frames[Top]), Bottom(frames[Top]), "body", rstack)
    BY <1>6, <2>1, BaseTyped DEF Executes, AtBottom
  <2>3. Executes(frames[Top], ip', rstack')
    BY <1>6, <2>1, <2>2, BodyPopped DEF PopIP
  <2> QED BY <1>6, <2>1, <2>3, CodeGoesOn
<1>8. ASSUME NEW w \in Again, RunDry(w)
      PROVE  CodeInv'
  <2>1. /\ Word /\ MayRunDry /\ running' = w /\ except' = Restart
        /\ UNCHANGED <<frames, codeVars, restart, done>>
    BY <1>8 DEF RunDry
  <2>2. Lands'
    BY <2>1, WordCode DEF Lands, MayRunDry, codeVars, Top, Restart, InnerExit, OutOfText
  <2> QED BY <2>1, <2>2, WordCode, CodeGoesOn DEF Restart, None
<1>9. CASE Rerun
  <2>1. /\ except = None /\ next = "rerun" /\ UNCHANGED <<frames, codeVars, running, done>>
    BY <1>9 DEF Rerun
  <2>2. Top = 1 /\ running \in Again /\ Executes(frames[1], ip, rstack)
    <3>1. Top \in Nat /\ Top # 0
      BY <2>1 DEF CodeInv, TypeInv, TypeOK, Top
    <3> QED BY <2>1, <3>1 DEF CodeInv, Running, None
  <2>3. CASE except' = None
    <3>1. next' = "fetch" /\ ~restart'
      BY <1>9, <2>1, <2>3 DEF Rerun, ErrorExit, Restart, None
    <3> QED BY <2>1, <2>2, <2>3, <3>1, CodeGoesOn DEF codeVars
  <2>4. CASE except' # None
    <3>1. except' \in {ErrorExit, Restart} /\ UNCHANGED next
      BY <1>9, <2>1, <2>4 DEF Rerun
    <3>2. Lands'
      BY <2>1, <2>2, <3>1 DEF Lands, codeVars, Top, ErrorExit, Restart, InnerExit, OutOfText
    <3> QED BY <2>1, <2>2, <2>4, <3>1, <3>2, CodeGoesOn
  <2> QED BY <2>3, <2>4
<1>10. CASE Throw
  <2>1. Word /\ except' \in Thrown /\ UNCHANGED <<frames, restart, done>>
    BY <1>10 DEF Throw, Raise
  <2>2. Lands' /\ except' # None
    BY <2>1, InterpreterAssumption
    DEF Lands, Thrown, ErrorExit, UserExit, Restart, InnerExit, OutOfText, None
  <2> QED BY <2>1, <2>2, WordCode, CodeGoesOn
<1>11. CASE TextEnds \/ XtEnds
  <2>1. /\ except = None /\ Top > 0 /\ next = "fetch" /\ ip \in {"loop", "exit"}
        /\ except' = IF ip = "loop" THEN OutOfText ELSE InnerExit
        /\ UNCHANGED <<frames, codeVars, restart, done>>
    BY <1>11 DEF TextEnds, XtEnds, Raise
  <2>2. AtBottom(frames[Top], ip, rstack)
    BY <1>6, <2>1 DEF Executes, InBody
  <2>3. Lands' /\ except' # None
    BY <1>6, <2>1, <2>2
    DEF Lands, AtBottom, Bottom, codeVars, Top, Restart, InnerExit, OutOfText, None
  <2> QED BY <1>6, <2>1, <2>3, CodeGoesOn
<1> QED
  BY <1>2, <1>3, <1>4, <1>5, <1>7, <1>8, <1>9, <1>10, <1>11 DEF Execute, Again

(* A C function that is called by code.                                    *)
LEMMA NestCode ==
  ASSUME TypeInv, CodeInv, NEW f \in {"evaluate", "include"} \cup Calls \cup {"catch"},
         Nest(f), PushIP(IF f \in Texts THEN "loop" ELSE "exit"),
         next' = IF f \in Texts THEN "fetch" ELSE "word"
  PROVE  CodeInv'
<1> DEFINE new == [Frame(f) EXCEPT !.tib = Taken]
<1>1. /\ Top \in Nat \ {0} /\ Executes(frames[Top], ip, rstack) /\ ~restart /\ ~done
      /\ except = None
  BY WordCode DEF Nest, Word
<1>2. /\ Top' = Top + 1 /\ \A i \in 1..Top : frames'[i] = frames[i]
      /\ frames'[Top + 1] = new
  BY Nested DEF Texts
<1>3. /\ new.fn = f /\ new.ip = ip /\ new.rstack = rstack /\ ~new.restart
      /\ f \notin Lines /\ f \in Texts \cup Calls \cup {"catch"}
  BY <1>1 DEF Frame, Lines, Calls, Texts
<1>4. UNCHANGED <<restart, except, done>>
  BY DEF Nest
<1> HIDE DEF new
<1>5. Nesting'
  <2> SUFFICES ASSUME NEW i \in 1..Top + 1
               PROVE  /\ frames'[i].fn \in Lines <=> i = 1
                      /\ i > 1 => /\ ~frames'[i].restart
                                  /\ Executes(frames'[i - 1], frames'[i].ip, frames'[i].rstack)
    BY <1>2 DEF Nesting
  <2>1. CASE i \in 1..Top
    <3>1. frames'[i] = frames[i] /\ (i > 1 => frames'[i - 1] = frames[i - 1])
      BY <1>1, <1>2, <2>1
    <3> QED BY <2>1, <3>1 DEF CodeInv, Nesting
  <2>2. CASE i = Top + 1
    <3>1. frames'[i] = new /\ frames'[i - 1] = frames[Top] /\ i > 1
      BY <1>1, <1>2, <2>2
    <3> QED BY <1>1, <1>3, <3>1
  <2> QED BY <1>1, <2>1, <2>2
<1>6. AtBottom(new, ip', rstack') /\ (f \in Texts <=> Bottom(new) = "loop")
  BY <1>3 DEF AtBottom, Bottom, Base, PushIP
<1>7. Running'
  BY <1>1, <1>2, <1>3, <1>6 DEF Running, Executes
<1> QED BY <1>1, <1>2, <1>4, <1>5, <1>7 DEF CodeInv

LEMMA LineCode ==
  ASSUME TypeInv, CodeInv, NEW f \in Lines, Line(f)
  PROVE  CodeInv'
<1> DEFINE new == Frame(f)
<1>1. /\ Top = 0 /\ frames' = <<new>> /\ except = None /\ ~done
      /\ UNCHANGED <<restart, running, except, done>> /\ Idle
  BY DEF Line, CodeInv
<1>2. new.fn = f /\ Base(new) = <<"null">> /\ Bottom(new) = "loop"
  BY DEF Frame, Base, Bottom, Texts
<1> HIDE DEF new
<1>3. Top' = 1 /\ frames'[1] = new
  BY <1>1 DEF Top
<1>4. CASE restart
  <2>1. next' = "rerun" /\ UNCHANGED codeVars
    BY <1>4 DEF Line
  <2>2. running \in Again /\ Executes(new, ip, rstack)
    BY <1>1, <1>2, <1>4 DEF Idle, Executes, AtBottom
  <2>3. Running'
    BY <1>1, <1>3, <1>4, <2>1, <2>2 DEF Running, codeVars
  <2> QED BY <1>1, <1>2, <1>3, <1>4, <2>1, <2>3 DEF CodeInv, Nesting
<1>5. CASE ~restart
  <2>1. next' = "fetch" /\ PushIP("loop") /\ ip = "null" /\ rstack = <<>>
    BY <1>1, <1>5 DEF Line, Idle
  <2>2. ip' = "loop" /\ rstack' = <<"null">>
    BY <2>1 DEF PushIP
  <2> QED BY <1>1, <1>2, <1>3, <1>5, <2>1, <2>2
          DEF CodeInv, Nesting, Running, Executes, AtBottom
<1> QED BY <1>4, <1>5

LEMMA EnterCode ==
  ASSUME TypeInv, CodeInv, Enter
  PROVE  CodeInv'
<1>1. CASE Evaluate
  BY <1>1, NestCode DEF Evaluate, Texts
<1>2. CASE IncludeFile
  BY <1>2, NestCode DEF IncludeFile, Texts
<1>3. CASE ExecuteParsing
  BY <1>3, NestCode DEF ExecuteParsing, Texts, Lines, Calls
<1>4. CASE ExecuteXT
  BY <1>4, NestCode DEF ExecuteXT, Texts, Lines, Calls
<1>5. CASE Catch
  BY <1>5, NestCode DEF Catch, Texts, Lines
<1> QED BY <1>1, <1>2, <1>3, <1>4, <1>5, LineCode DEF Enter

(* What an exception finds where it lands.                                 *)
LEMMA LandingCode ==
  ASSUME TypeInv, CodeInv, NEW f, Landing(f)
  PROVE  LET g == frames[Top] IN
         /\ Top \in Nat \ {0} /\ Top' = Top - 1 /\ handler = Top
         /\ g \in FrameSet /\ g.fn = f /\ (f \in Lines <=> Top = 1)
         /\ Nesting' /\ Lands /\ except # None /\ next' = "fetch" /\ ~done
         /\ Top > 1 => /\ ~restart /\ ~g.restart
                       /\ Executes(frames'[Top'], g.ip, g.rstack)
<1>1. /\ Top \in Nat \ {0} /\ handler = Top /\ frames[Top].fn = f /\ frames[Top] \in FrameSet
      /\ Top' = Top - 1 /\ \A i \in 1..Top - 1 : frames'[i] = frames[i]
      /\ next' = "fetch"
  BY Landed
<1>2. Nesting'
  <2> SUFFICES ASSUME NEW i \in 1..Top - 1
               PROVE  /\ frames'[i].fn \in Lines <=> i = 1
                      /\ i > 1 => /\ ~frames'[i].restart
                                  /\ Executes(frames'[i - 1], frames'[i].ip, frames'[i].rstack)
    BY <1>1 DEF Nesting
  <2>1. frames'[i] = frames[i] /\ (i > 1 => frames'[i - 1] = frames[i - 1]) /\ i \in 1..Top
    BY <1>1
  <2> QED BY <2>1 DEF CodeInv, Nesting
<1>3. except # None /\ Lands /\ ~done /\ (Top > 1 => ~restart)
  BY <1>1 DEF Landing, CodeInv
<1>4. /\ f \in Lines <=> Top = 1
      /\ Top > 1 => /\ ~frames[Top].restart
                    /\ Executes(frames[Top - 1], frames[Top].ip, frames[Top].rstack)
  BY <1>1 DEF CodeInv, Nesting
<1>5. Top > 1 => frames'[Top'] = frames[Top - 1]
  BY <1>1
<1> QED BY <1>1, <1>2, <1>3, <1>4, <1>5

(* The caller goes on where it was, or the exception goes on.              *)
LEMMA CallerGoesOn ==
  ASSUME TypeInv, CodeInv, NEW f, Landing(f), f \notin Lines, ~restart', UNCHANGED done,
         except' = None => \/ ip' = frames[Top].ip /\ rstack' = frames[Top].rstack
                           \/ ip' = "null",
         except' \notin {InnerExit, OutOfText, Restart}
  PROVE  CodeInv'
<1>1. /\ Top > 1 /\ Top' = Top - 1 /\ Top \in Nat /\ Nesting' /\ next' = "fetch" /\ ~done
      /\ Executes(frames'[Top'], frames[Top].ip, frames[Top].rstack)
  BY LandingCode
<1>2. Lands'
  BY DEF Lands
<1>3. except' = None => Running'
  BY <1>1 DEF Running
<1> QED BY <1>1, <1>2, <1>3 DEF CodeInv

(* What can land in a C function that reads a text,                        *)
LEMMA TextLanding ==
  ASSUME TypeInv, CodeInv, NEW f \in Texts, TextLands(f)
  PROVE  /\ except \notin {None, InnerExit}
         /\ f \notin Lines => ~restart' /\ except # Restart
         /\ Landing(f) /\ ResetVm /\ handler = Top
<1>1. Landing(f)
  BY DEF TextLands
<1>2. /\ except # None /\ Lands /\ frames[Top].fn = f /\ handler = Top
      /\ f \notin Lines => Top > 1 /\ ~restart
  BY <1>1, LandingCode
<1>3. except # InnerExit /\ (f \notin Lines => except # Restart)
  BY <1>2 DEF Lands, Texts
<1> QED BY <1>1, <1>2, <1>3 DEF TextLands

(* and in one that executes an xt.                                         *)
LEMMA CallLanding ==
  ASSUME TypeInv, CodeInv, NEW f \in Calls \cup {"catch"}, Landing(f)
  PROVE  LET g == frames[Top] IN
         /\ f \notin Lines /\ Top > 1 /\ ~restart /\ ~g.restart /\ handler = Top
         /\ except \notin {None, OutOfText} /\ (except = Restart => f = "catch")
         /\ except = InnerExit /\ PopIP => ip' = g.ip /\ rstack' = g.rstack
<1> DEFINE g == frames[Top]
<1>1. f \notin Lines /\ f \notin Texts
  BY DEF Calls, Lines, Texts
<1>2. /\ Top > 1 /\ ~restart /\ ~g.restart /\ handler = Top /\ g \in FrameSet
      /\ g.fn = f /\ Lands /\ except # None
  BY <1>1, LandingCode
<1>3. except # OutOfText /\ (except = Restart => f = "catch")
  BY <1>1, <1>2 DEF Lands
<1>4. except = InnerExit => rstack = Base(g)
  BY <1>2 DEF Lands, AtBottom
<1> QED BY <1>1, <1>2, <1>3, <1>4, BasePopped

(* The text of EVALUATE or of a file has been read.                        *)
LEMMA TextRead ==
  ASSUME TypeInv, CodeInv, NEW f \in Texts \ Lines, TextLands(f), except = OutOfText
  PROVE  ip' = frames[Top].ip /\ rstack' = frames[Top].rstack
<1>1. Landing(f) /\ PopIP
  BY TextLanding DEF ResetVm, Resets
<1>2. /\ frames[Top] \in FrameSet /\ frames[Top].fn = f
      /\ rstack = Base(frames[Top])
  BY <1>1, LandingCode DEF Lands, AtBottom
<1> QED BY <1>1, <1>2, BasePopped

LEMMA UnwindCode ==
  ASSUME TypeInv, CodeInv, Unwind
  PROVE  CodeInv'
<1> DEFINE g == frames[Top]
<1>1. ASSUME NEW f \in Lines, LineReturns(f)
      PROVE  CodeInv'
  <2>1. /\ TextLands(f) /\ except' = None /\ done' = (except = UserExit)
        /\ restart' = (except = Restart \/ (restart /\ ~Resets))
    BY <1>1 DEF LineReturns, TextLands
  <2>0. /\ done' <=> except = UserExit
        /\ restart' <=> except = Restart \/ (restart /\ ~Resets)
    BY <2>1, Zenon
  <2>2. /\ Landing(f) /\ ResetVm /\ except # InnerExit /\ Top' = 0 /\ Top = 1
        /\ Lands /\ g.fn = f /\ Nesting' /\ next' = "fetch"
    BY <1>1, <2>1, TextLanding, LandingCode DEF Texts
  <2>3. Bottom(g) = "loop" /\ Base(g) = <<"null">>
    BY <2>2 DEF Bottom, Base, Texts
  <2>4. CASE except = Restart
    <3>1. /\ running \in Again /\ Executes(g, ip, rstack)
          /\ UNCHANGED <<codeVars, running>>
      BY <1>1, <2>2, <2>4 DEF Lands, ResetVm, Resets, Lines, Restart, OutOfText
    <3>0. restart' /\ ~done'
      BY <2>0, <2>4 DEF Restart, UserExit
    <3>2. Idle'
      BY <2>3, <3>0, <3>1 DEF Idle, Executes, AtBottom, codeVars
    <3> QED BY <2>1, <2>2, <3>2 DEF CodeInv
  <2>5. CASE except = OutOfText
    <3>0. ~restart'
      BY <2>0, <2>2, <2>5 DEF Lands, OutOfText, Restart
    <3>1. rstack = <<"null">> /\ PopIP
      BY <2>2, <2>3, <2>5 DEF Lands, ResetVm, Resets, AtBottom
    <3>2. ip' = "null" /\ rstack' = <<>>
      BY <3>1 DEF PopIP
    <3> QED BY <2>1, <2>2, <3>0, <3>1, <3>2 DEF CodeInv, Idle
  <2>6. CASE except = UserExit
    <3>1. done' /\ ~(Top' > 0)
      BY <2>0, <2>2, <2>6
    <3> QED BY <2>1, <2>2, <3>1 DEF CodeInv
  <2>7. CASE except \notin {Restart, OutOfText, UserExit}
    <3>1. Resets
      BY <2>2, <2>7 DEF Resets
    <3> QED BY <2>1, <2>2, <2>7, <3>1 DEF CodeInv, Idle, ResetVm
  <2> QED BY <2>4, <2>5, <2>6, <2>7
<1>2. CASE EvaluateReturns
  <2>1. /\ TextLands("evaluate") /\ UNCHANGED done
        /\ except' = IF Result = OutOfText THEN None ELSE Result
    BY <1>2 DEF EvaluateReturns
  <2>2. /\ except \notin {None, InnerExit, Restart} /\ ~restart' /\ Landing("evaluate")
        /\ Result = except
    BY <2>1, TextLanding DEF Texts, Lines, Result
  <2>3. except' \notin {InnerExit, OutOfText, Restart}
    BY <2>1, <2>2 DEF None, InnerExit, OutOfText, Restart
  <2>4. except' = None => ip' = g.ip /\ rstack' = g.rstack
    BY <2>1, <2>2, TextRead DEF Texts, Lines
  <2> QED BY <2>1, <2>2, <2>3, <2>4, CallerGoesOn DEF Lines
<1>3. CASE IncludeReturns
  <2>1. /\ TextLands("include") /\ UNCHANGED done
        /\ except' = IF Result < 0 /\ Result # OutOfText THEN Result ELSE None
    BY <1>3 DEF IncludeReturns
  <2>2. /\ except \notin {None, InnerExit, Restart} /\ ~restart' /\ Landing("include")
        /\ Result = except /\ ResetVm
    BY <2>1, TextLanding DEF Texts, Lines, Result
  <2>3. except' \notin {InnerExit, OutOfText, Restart}
    BY <2>1, <2>2 DEF None, InnerExit, OutOfText, Restart
  <2>4. CASE except = OutOfText
    <3>1. ip' = g.ip /\ rstack' = g.rstack
      BY <2>1, <2>4, TextRead DEF Texts, Lines
    <3> QED BY <2>1, <2>2, <2>3, <3>1, CallerGoesOn DEF Lines
  <2>5. CASE except # OutOfText
    <3>1. except' = None => ip' = "null"
      BY <2>1, <2>2, <2>5 DEF ResetVm, Resets, UserExit, None
    <3> QED BY <2>1, <2>2, <2>3, <3>1, CallerGoesOn DEF Lines
  <2> QED BY <2>4, <2>5
<1>4. ASSUME NEW f \in Calls, XtReturns(f)
      PROVE  CodeInv'
  <2>1. /\ Landing(f) /\ PopIP /\ UNCHANGED <<restart, done>>
        /\ except' = IF except = InnerExit THEN None ELSE except
    BY <1>4 DEF XtReturns
  <2>2. except' \notin {InnerExit, OutOfText, Restart}
    BY <1>4, <2>1, CallLanding DEF Calls, None, InnerExit, OutOfText, Restart
  <2> QED BY <1>4, <2>1, <2>2, CallLanding, CallerGoesOn
<1>5. CASE CatchReturns
  <2>1. /\ Landing("catch") /\ except' = None /\ UNCHANGED done
        /\ IF except = InnerExit
           THEN PopIP /\ UNCHANGED restart
           ELSE ip' = frames[handler].ip /\ rstack' = frames[handler].rstack
                /\ restart' = frames[handler].restart
    BY <1>5 DEF CatchReturns
  <2>2. except' \notin {InnerExit, OutOfText, Restart}
    BY <2>1 DEF None, InnerExit, OutOfText, Restart
  <2>3. ip' = g.ip /\ rstack' = g.rstack /\ ~restart'
    BY <2>1, CallLanding
  <2> QED BY <2>1, <2>2, <2>3, CallLanding, CallerGoesOn
<1> QED BY <1>1, <1>2, <1>3, <1>4, <1>5 DEF Unwind

LEMMA CodeStep == TypeInv /\ CodeInv /\ [Next]_vars => CodeInv'
<1> SUFFICES ASSUME TypeInv, CodeInv, [Next]_vars PROVE CodeInv'
  OBVIOUS
<1>1. CASE UNCHANGED vars
  <2>1. UNCHANGED <<frames, ip, rstack, restart, running, next, except, done, Top>>
    BY <1>1 DEF vars, codeVars, Top
  <2>2. (Nesting <=> Nesting') /\ (Idle <=> Idle') /\ (Running <=> Running')
        /\ (Lands <=> Lands')
    BY <2>1 DEF Nesting, Idle, Running, Lands
  <2> QED BY <2>1, <2>2 DEF CodeInv
<1> QED BY <1>1, EnterCode, ExecuteCode, UnwindCode DEF Next

LEMMA CodeAlways == Spec => []CodeInv
BY TypeAlways, CodeInit, CodeStep, PTL DEF Spec

--------------------------------------------------------------------------------
(* The text and the SOURCE-ID.                                             *)

(* Innermost and Input of the C functions fr.                              *)
InnermostOf(fr, i, k, S) == fr[i].fn \in S /\ \A j \in i + 1..k : fr[j].fn \notin S

SourceOf(fr, i) == CASE fr[i].fn = "string"  -> 0
                     [] fr[i].fn = "include" -> i
                     [] OTHER -> -1

InputOf(fr, k, t, s) ==
  /\ k = 0 => t = 0 /\ s = 0
  /\ \A i \in 1..k :
       /\ InnermostOf(fr, i, k, Texts \cup {"parsing"}) => t = i
       /\ InnermostOf(fr, i, k, Texts) => s = SourceOf(fr, i)

LEMMA InputIs ==
  ASSUME NEW k, NEW t, NEW s
  PROVE  Input(k, t, s) <=> InputOf(frames, k, t, s)
BY DEF Input, InputOf, Innermost, InnermostOf, SourceOf

LEMMA SamePrefix ==
  ASSUME NEW fr, NEW gr, NEW k \in Nat, NEW t, NEW s,
         \A i \in 1..k : gr[i] = fr[i], InputOf(fr, k, t, s)
  PROVE  InputOf(gr, k, t, s)
<1>1. ASSUME NEW i \in 1..k, NEW S
      PROVE  InnermostOf(gr, i, k, S) <=> InnermostOf(fr, i, k, S)
  BY DEF InnermostOf
<1>2. ASSUME NEW i \in 1..k
      PROVE  SourceOf(gr, i) = SourceOf(fr, i)
  BY DEF SourceOf
<1> QED BY <1>1, <1>2 DEF InputOf

(* The innermost C function sets both, the text only, or neither.          *)
LEMMA TextSets ==
  ASSUME NEW fr, NEW k \in Nat, fr[k + 1].fn \in Texts
  PROVE  InputOf(fr, k + 1, k + 1, SourceOf(fr, k + 1))
<1>1. ASSUME NEW i \in 1..k + 1, NEW S, Texts \subseteq S, InnermostOf(fr, i, k + 1, S)
      PROVE  i = k + 1
  BY <1>1 DEF InnermostOf
<1> QED BY <1>1 DEF InputOf

LEMMA OthersInnermost ==
  ASSUME NEW fr, NEW k \in Nat, NEW S, fr[k + 1].fn \notin S, NEW i \in 1..k
  PROVE  InnermostOf(fr, i, k + 1, S) <=> InnermostOf(fr, i, k, S)
<1>1. \A j : j \in i + 1..k + 1 <=> j \in i + 1..k \/ j = k + 1
  OBVIOUS
<1> QED BY <1>1 DEF InnermostOf

LEMMA ParsingSets ==
  ASSUME NEW fr, NEW k \in Nat, NEW t, NEW s, fr[k + 1].fn = "parsing", InputOf(fr, k, t, s)
  PROVE  InputOf(fr, k + 1, k + 1, s)
<1>1. ASSUME NEW i \in 1..k + 1, InnermostOf(fr, i, k + 1, Texts \cup {"parsing"})
      PROVE  i = k + 1
  BY <1>1 DEF InnermostOf
<1>2. ASSUME NEW i \in 1..k + 1, InnermostOf(fr, i, k + 1, Texts)
      PROVE  s = SourceOf(fr, i)
  <2>1. fr[k + 1].fn \notin Texts
    BY DEF Texts, Lines
  <2>2. i \in 1..k
    BY <1>2, <2>1 DEF InnermostOf
  <2> QED BY <1>2, <2>1, <2>2, OthersInnermost DEF InputOf
<1> QED BY <1>1, <1>2 DEF InputOf

LEMMA OthersSet ==
  ASSUME NEW fr, NEW k \in Nat, NEW t, NEW s, fr[k + 1].fn \in {"xt", "catch"}
  PROVE  /\ InputOf(fr, k, t, s) => InputOf(fr, k + 1, t, s)
         /\ k > 0 /\ InputOf(fr, k + 1, t, s) => InputOf(fr, k, t, s)
<1>1. fr[k + 1].fn \notin Texts /\ fr[k + 1].fn \notin Texts \cup {"parsing"}
  BY DEF Texts, Lines
<1>2. ASSUME NEW S, fr[k + 1].fn \notin S, NEW i \in 1..k + 1
      PROVE  IF i \in 1..k THEN InnermostOf(fr, i, k + 1, S) <=> InnermostOf(fr, i, k, S)
                           ELSE ~InnermostOf(fr, i, k + 1, S)
  <2>1. i \in 1..k \/ i = k + 1
    OBVIOUS
  <2> QED BY <1>2, <2>1, OthersInnermost DEF InnermostOf
<1>3. \A i \in 1..k : i \in 1..k + 1
  OBVIOUS
<1> QED BY <1>1, <1>2, <1>3 DEF InputOf

(* The SOURCE-ID does not depend on EXECUTE-PARSING.                       *)
LEMMA ParsingLeaves ==
  ASSUME NEW fr, NEW k \in Nat \ {0}, NEW t, NEW u, NEW s, NEW r,
         fr[k + 1].fn = "parsing", InputOf(fr, k + 1, u, s), InputOf(fr, k, t, r)
  PROVE  InputOf(fr, k, t, s)
<1>1. fr[k + 1].fn \notin Texts
  BY DEF Texts, Lines
<1>2. ASSUME NEW i \in 1..k, InnermostOf(fr, i, k, Texts)
      PROVE  s = SourceOf(fr, i)
  <2>1. i \in 1..k + 1
    OBVIOUS
  <2> QED BY <1>1, <1>2, <2>1, OthersInnermost DEF InputOf
<1> QED BY <1>2 DEF InputOf

Saved  == \A i \in 1..Top : InputOf(frames, i - 1, frames[i].tib.text, frames[i].source)
Passed == except \in {None, InnerExit, OutOfText, Restart} /\ ~done
Reads  == Passed => InputOf(frames, Top, tib.text, source)

LEMMA InputParts ==
  /\ InputInv <=> Saved /\ Reads
  /\ InputInv' <=> Saved' /\ Reads'
BY DEF InputInv, Saved, Reads, Passed, Input, InputOf, Innermost, InnermostOf, SourceOf

LEMMA InputInit == Init => InputInv
<1> SUFFICES ASSUME Init PROVE InputInv
  OBVIOUS
<1>1. Top = 0 /\ tib.text = 0 /\ source = 0
  BY DEF Init, Top, NoText
<1> QED BY <1>1, InputParts DEF Saved, Reads, InputOf

(* Words leave the text they read, and its SOURCE-ID.                      *)
LEMMA ExecuteInput ==
  ASSUME TypeInv, InputInv, CodeInv, Execute
  PROVE  InputInv'
<1> USE InputParts
<1>1. ASSUME UNCHANGED <<frames, source>>, tib'.text = tib.text, except = None, ~done
      PROVE  InputInv'
  BY <1>1 DEF Saved, Reads, Passed, Top
<1>2. UNCHANGED <<frames, source>> /\ except = None
  BY DEF Execute, Plain, Call, Return, Semicolon, Rerun, Throw, TextEnds, XtEnds, Raise,
         Parse, RunDry, inputVars, Word
<1>3. tib \in [text : 0..MaxFrames, left : 0..MaxText]
  BY DEF TypeInv, TypeOK, TibSet
<1>4. Word => Taken.text = tib.text /\ Taken \in [text : 0..MaxFrames, left : 0..MaxText]
  BY TakenText DEF TibSet
<1>5. tib'.text = tib.text
  <2>1. CASE Plain \/ Call \/ Semicolon \/ Throw \/ \E w \in Again : RunDry(w)
    BY <1>4, <2>1 DEF Plain, Call, Semicolon, Throw, RunDry
  <2>2. CASE Return \/ TextEnds \/ XtEnds
    BY <2>2 DEF Return, TextEnds, XtEnds, inputVars
  <2>3. ASSUME NEW w \in Again, Parse(w)
        PROVE  tib'.text = tib.text
    BY <1>4, <2>3 DEF Parse
  <2>4. CASE Rerun
    BY <1>3, <2>4 DEF Rerun
  <2> QED BY <2>1, <2>2, <2>3, <2>4 DEF Execute, Again
<1>6. ~done
  <2>1. Top > 0 \/ next = "rerun"
    BY DEF Execute, Plain, Call, Return, Semicolon, Rerun, Throw, TextEnds, XtEnds,
           Parse, RunDry, Word
  <2>2. Top \in Nat
    BY DEF TypeInv, TypeOK, Top
  <2> QED BY <2>1, <2>2 DEF CodeInv
<1> QED BY <1>1, <1>2, <1>5, <1>6

LEMMA EnterInput ==
  ASSUME TypeInv, InputInv, CodeInv, Enter
  PROVE  InputInv'
<1> USE InputParts
<1>1. ASSUME NEW f \in Texts \cup Calls \cup {"catch"}, Nest(f)
      PROVE  /\ Top \in Nat \ {0} /\ Top' = Top + 1 /\ Saved' /\ ~done
             /\ InputOf(frames', Top, tib.text, source) /\ frames'[Top + 1].fn = f
  <2>1. /\ Top \in Nat /\ Top' = Top + 1 /\ \A i \in 1..Top : frames'[i] = frames[i]
        /\ frames'[Top + 1] = [Frame(f) EXCEPT !.tib = Taken]
    BY <1>1, Nested
  <2>2. /\ frames'[Top + 1].tib = Taken /\ frames'[Top + 1].source = source
        /\ frames'[Top + 1].fn = f
    BY <2>1 DEF Frame
  <2>3. Taken.text = tib.text /\ ~done /\ except = None /\ Top > 0
    BY <1>1, TakenText, WordCode DEF Nest, Word
  <2>4. InputOf(frames, Top, tib.text, source)
    BY <2>3 DEF Reads, Passed
  <2>5. InputOf(frames', Top, tib.text, source)
    BY <2>1, <2>4, SamePrefix
  <2>6. ASSUME NEW i \in 1..Top
        PROVE  InputOf(frames', i - 1, frames'[i].tib.text, frames'[i].source)
    <3>1. InputOf(frames, i - 1, frames[i].tib.text, frames[i].source)
      BY DEF Saved
    <3>2. i - 1 \in Nat /\ \A j \in 1..i - 1 : frames'[j] = frames[j]
      BY <2>1
    <3>3. InputOf(frames', i - 1, frames[i].tib.text, frames[i].source)
      BY <3>1, <3>2, SamePrefix
    <3> QED BY <2>1, <3>3
  <2>7. ASSUME NEW i \in 1..Top'
        PROVE  InputOf(frames', i - 1, frames'[i].tib.text, frames'[i].source)
    <3>1. i \in 1..Top \/ i = Top + 1
      BY <2>1
    <3>2. CASE i = Top + 1
      <4>1. i - 1 = Top
        BY <2>1, <3>2
      <4> QED BY <2>2, <2>3, <2>5, <3>2, <4>1
    <3> QED BY <2>6, <3>1, <3>2
  <2>8. Saved'
    BY <2>7 DEF Saved
  <2> QED BY <2>1, <2>2, <2>3, <2>5, <2>8
<1>2. CASE Evaluate
  <2>1. Nest("evaluate") /\ tib'.text = Top + 1 /\ source' = -1
    BY <1>2 DEF Evaluate, NewText
  <2>2. InputOf(frames', Top + 1, Top + 1, -1)
    BY <1>1, <2>1, TextSets DEF Texts, SourceOf
  <2> QED BY <1>1, <2>1, <2>2 DEF Texts, Reads
<1>3. CASE IncludeFile
  <2>1. Nest("include") /\ tib'.text = Top + 1 /\ source' = Top + 1
    BY <1>3 DEF IncludeFile, NewText
  <2>2. InputOf(frames', Top + 1, Top + 1, Top + 1)
    BY <1>1, <2>1, TextSets DEF Texts, SourceOf
  <2> QED BY <1>1, <2>1, <2>2 DEF Texts, Reads
<1>4. CASE ExecuteParsing
  <2>1. Nest("parsing") /\ tib'.text = Top + 1 /\ source' = source
    BY <1>4 DEF ExecuteParsing, NewText
  <2>2. InputOf(frames', Top + 1, Top + 1, source)
    BY <1>1, <2>1, ParsingSets DEF Calls
  <2> QED BY <1>1, <2>1, <2>2 DEF Calls, Reads
<1>5. CASE ExecuteXT \/ Catch
  <2>1. PICK f \in {"xt", "catch"} : Nest(f) /\ tib' = Taken /\ source' = source
    BY <1>5 DEF ExecuteXT, Catch
  <2>2. tib'.text = tib.text
    BY <2>1, TakenText DEF Nest
  <2>3. InputOf(frames', Top + 1, tib.text, source)
    BY <1>1, <2>1, OthersSet DEF Calls
  <2> QED BY <1>1, <2>1, <2>2, <2>3 DEF Calls, Reads
<1>6. ASSUME NEW f \in Lines, Line(f)
      PROVE  InputInv'
  <2> DEFINE new == Frame(f)
  <2>1. /\ Top = 0 /\ frames' = <<new>> /\ ~done /\ except = None /\ tib'.text = 1
        /\ source' = IF f = "line" THEN -1 ELSE source
        /\ new.fn = f /\ new.tib = tib /\ new.source = source
    BY <1>6 DEF Line, Frame
  <2>2. tib.text = 0 /\ source = 0
    BY <2>1 DEF Reads, Passed, InputOf
  <2> HIDE DEF new
  <2>3. Top' = 1 /\ frames'[1] = new
    BY <2>1 DEF Top
  <2>4. Saved'
    BY <2>1, <2>2, <2>3 DEF Saved, InputOf
  <2>5. InputOf(frames', 0 + 1, 0 + 1, SourceOf(frames', 0 + 1))
    <3>1. frames'[0 + 1].fn \in Texts
      BY <2>1, <2>3 DEF Texts
    <3> QED BY <3>1, TextSets
  <2>6. SourceOf(frames', 1) = source'
    BY <2>1, <2>2, <2>3 DEF SourceOf, Lines
  <2> QED BY <2>1, <2>3, <2>4, <2>5, <2>6 DEF Reads
<1> QED BY <1>2, <1>3, <1>4, <1>5, <1>6 DEF Enter

(* A C function puts back what it has saved; what it leaves alone is its   *)
(* caller's if it has set nothing.                                         *)
LEMMA UnwindInput ==
  ASSUME TypeInv, InputInv, CodeInv, Unwind
  PROVE  InputInv'
<1> USE InputParts
<1> DEFINE g == frames[Top]
<1>1. ASSUME NEW f, Landing(f)
      PROVE  /\ Top \in Nat \ {0} /\ Top' = Top - 1 /\ handler = Top /\ g.fn = f
             /\ Saved' /\ InputOf(frames', Top - 1, g.tib.text, g.source) /\ ~done
             /\ \A i \in 1..Top - 1 : frames'[i] = frames[i]
  <2>1. /\ Top \in Nat \ {0} /\ Top' = Top - 1 /\ handler = Top /\ g.fn = f /\ ~done
        /\ \A i \in 1..Top - 1 : frames'[i] = frames[i]
    BY <1>1, Landed, LandingCode
  <2>2. ASSUME NEW i \in 1..Top
        PROVE  InputOf(frames', i - 1, frames[i].tib.text, frames[i].source)
    <3>1. InputOf(frames, i - 1, frames[i].tib.text, frames[i].source)
      BY DEF Saved
    <3>2. i - 1 \in Nat /\ \A j \in 1..i - 1 : frames'[j] = frames[j]
      BY <2>1
    <3> QED BY <3>1, <3>2, SamePrefix
  <2>3. \A i \in 1..Top' : i \in 1..Top /\ frames'[i] = frames[i]
    BY <2>1
  <2> QED BY <2>1, <2>2, <2>3 DEF Saved
<1>2. ASSUME NEW f, Landing(f), tib'.text = g.tib.text, source' = g.source
      PROVE  InputInv'
  BY <1>1, <1>2 DEF Reads
<1>3. ASSUME NEW f, Landing(f), ~Passed'
      PROVE  InputInv'
  BY <1>1, <1>3 DEF Reads
<1>4. CASE EvaluateReturns
  <2>1. TextLands("evaluate") /\ source' = frames[handler].source
    BY <1>4 DEF EvaluateReturns
  <2>2. Landing("evaluate") /\ tib' = frames[handler].tib /\ handler = Top
    BY <2>1, TextLanding DEF TextLands, Texts
  <2> QED BY <1>2, <2>1, <2>2
<1>5. CASE IncludeReturns
  <2>1. TextLands("include")
    BY <1>5 DEF IncludeReturns
  <2>2. /\ Landing("include") /\ tib' = frames[handler].tib /\ handler = Top
        /\ except \notin {None, InnerExit, Restart}
    BY <2>1, TextLanding DEF TextLands, Texts, Lines
  <2>3. CASE Result < 0 /\ Result # OutOfText
    <3>1. except' = except /\ except \notin {None, InnerExit, OutOfText, Restart}
      BY <1>5, <2>2, <2>3 DEF IncludeReturns, Result
    <3> QED BY <1>3, <2>2, <3>1 DEF Passed
  <2>4. CASE ~(Result < 0 /\ Result # OutOfText)
    <3>1. source' = frames[handler].source
      BY <1>5, <2>4 DEF IncludeReturns
    <3> QED BY <1>2, <2>2, <3>1
  <2> QED BY <2>3, <2>4
<1>6. ASSUME NEW f \in Lines, LineReturns(f)
      PROVE  InputInv'
  <2>1. /\ TextLands(f) /\ tib' = frames[handler].tib
        /\ source' = IF f = "line" THEN frames[handler].source ELSE SourceLeft
    BY <1>6 DEF LineReturns, TextLands
  <2>2. /\ Landing(f) /\ handler = Top /\ except \notin {None, InnerExit}
        /\ Top = 1 /\ ~done /\ g.fn = f
    BY <1>6, <2>1, TextLanding, LandingCode DEF Texts
  <2>3. done' <=> except = UserExit
    <3>1. done' = (except = UserExit)
      BY <1>6 DEF LineReturns
    <3> QED BY <3>1, Zenon
  <2>4. g.source = 0
    BY <2>2 DEF Saved, InputOf
  <2>5. CASE f = "line"
    BY <1>2, <2>1, <2>2, <2>5
  <2>6. CASE f = "string" /\ Resets
    BY <1>2, <2>1, <2>2, <2>4, <2>6 DEF SourceLeft
  <2>7. CASE f = "string" /\ ~Resets /\ except # UserExit
    <3>1. except \in {Restart, OutOfText} /\ source' = source
      BY <2>1, <2>2, <2>7 DEF Resets, SourceLeft
    <3>2. InputOf(frames, 1, tib.text, source)
      BY <2>2, <3>1 DEF Reads, Passed
    <3>3. InnermostOf(frames, 1, 1, Texts) /\ SourceOf(frames, 1) = 0
      BY <2>2, <2>7 DEF InnermostOf, SourceOf, Texts, Lines
    <3>4. source' = 0
      BY <3>1, <3>2, <3>3 DEF InputOf
    <3> QED BY <1>2, <2>1, <2>2, <2>4, <3>4
  <2>8. CASE except = UserExit
    BY <1>3, <2>2, <2>3, <2>8 DEF Passed
  <2> QED BY <2>5, <2>6, <2>7, <2>8 DEF Lines
<1>7. ASSUME NEW f \in {"xt", "catch"}, Landing(f), except = InnerExit, UNCHANGED inputVars
      PROVE  InputInv'
  <2>1. Top \in Nat /\ Top - 1 \in Nat \ {0} /\ ~done /\ g.fn = f /\ Top' = Top - 1
    BY <1>1, <1>7, CallLanding DEF Calls
  <2>2. InputOf(frames, Top, tib.text, source)
    BY <1>7, <2>1 DEF Reads, Passed
  <2>3. InputOf(frames, Top - 1, tib.text, source)
    <3>1. (Top - 1) + 1 = Top
      BY <2>1
    <3> QED BY <1>7, <2>1, <2>2, <3>1, OthersSet
  <2>4. InputOf(frames', Top - 1, tib.text, source)
    BY <1>1, <1>7, <2>1, <2>3, SamePrefix
  <2> QED BY <1>1, <1>7, <2>1, <2>4 DEF Reads, inputVars
<1>8. ASSUME NEW f \in Calls, XtReturns(f)
      PROVE  InputInv'
  <2>1. /\ Landing(f) /\ UNCHANGED source
        /\ except = InnerExit => tib' = IF f = "parsing" THEN frames[handler].tib ELSE tib
        /\ except # InnerExit => except' = except
    BY <1>8 DEF XtReturns
  <2>2. except \notin {None, OutOfText, Restart} /\ Top > 1 /\ handler = Top
    BY <1>8, <2>1, CallLanding DEF Calls
  <2>3. CASE except # InnerExit
    BY <1>3, <2>1, <2>2, <2>3 DEF Passed
  <2>4. CASE except = InnerExit /\ f = "xt"
    BY <1>7, <2>1, <2>4 DEF inputVars
  <2>5. CASE except = InnerExit /\ f = "parsing"
    <3>1. /\ Top \in Nat /\ Top - 1 \in Nat \ {0} /\ g.fn = "parsing" /\ ~done /\ Top' = Top - 1
          /\ tib' = g.tib /\ source' = source /\ Saved'
      BY <1>1, <2>1, <2>2, <2>5
    <3>2. InputOf(frames, Top, tib.text, source) /\ InputOf(frames, Top - 1, g.tib.text, g.source)
      BY <2>5, <3>1 DEF Reads, Passed, Saved
    <3>3. InputOf(frames, Top - 1, g.tib.text, source)
      <4>1. (Top - 1) + 1 = Top
        BY <3>1
      <4> QED BY <3>1, <3>2, <4>1, ParsingLeaves
    <3>4. InputOf(frames', Top - 1, g.tib.text, source)
      BY <1>1, <2>1, <3>1, <3>3, SamePrefix
    <3> QED BY <3>1, <3>4 DEF Reads
  <2> QED BY <2>3, <2>4, <2>5 DEF Calls
<1>9. CASE CatchReturns
  <2>1. /\ Landing("catch")
        /\ IF except = InnerExit
           THEN UNCHANGED inputVars
           ELSE tib' = frames[handler].tib /\ source' = frames[handler].source
    BY <1>9 DEF CatchReturns
  <2> QED BY <1>1, <1>2, <1>7, <2>1
<1> QED BY <1>4, <1>5, <1>6, <1>8, <1>9 DEF Unwind

LEMMA InputStep == TypeInv /\ CodeInv /\ InputInv /\ [Next]_vars => InputInv'
<1> SUFFICES ASSUME TypeInv, CodeInv, InputInv, [Next]_vars PROVE InputInv'
  OBVIOUS
<1>1. CASE UNCHANGED vars
  BY <1>1, InputParts DEF vars, inputVars, Saved, Reads, Passed, Top
<1> QED BY <1>1, EnterInput, ExecuteInput, UnwindInput DEF Next

LEMMA InputAlways == Spec => []InputInv
BY TypeAlways, CodeAlways, InputInit, InputStep, PTL DEF Spec

(* Whatever C functions are nested and however they are left, the          *)
(* exception handler is the innermost one's, code that executes reads its  *)
(* own text and reports its own SOURCE-ID, and between two lines nothing   *)
(* is left on the return stack (vm.c, primitives.c, fileaccess.c).         *)
THEOREM HandlersPutBack == Spec => []PutBack
<1>1. TypeInv /\ CodeInv /\ InputInv => PutBack
  <2> SUFFICES ASSUME TypeInv, CodeInv, InputInv PROVE PutBack
    OBVIOUS
  <2>1. HandlerLive
    BY DEF TypeInv
  <2>2. SourceIsCallers
    BY DEF InputInv, SourceIsCallers
  <2>3. Settled
    BY DEF CodeInv, Settled, Idle, InBody
  <2> QED BY <2>1, <2>2, <2>3 DEF PutBack
<1> QED BY <1>1, TypeAlways, CodeAlways, InputAlways, PTL

--------------------------------------------------------------------------------
(* The compiler.                                                           *)
LEMMA CompileStep ==
  ASSUME TypeInv, CompileInv, Liberties = {}, [Next]_vars
  PROVE  CompileInv'
<1>1. ASSUME UNCHANGED frames, state' = "compile" => def' \/ (state = "compile" /\ def' = def)
      PROVE  CompileInv'
  BY <1>1 DEF CompileInv, Top
<1>2. CASE UNCHANGED vars
  BY <1>1, <1>2 DEF vars, compVars
<1>3. CASE Execute
  <2>1. UNCHANGED frames
    BY <1>3 DEF Execute, Plain, Call, Return, Semicolon, Rerun, Throw, TextEnds, XtEnds,
                Raise, Parse, RunDry
  <2>2. /\ state' = "interpret" \/ (state' = "compile" /\ def')
        \/ UNCHANGED compVars
    <3>1. CASE Plain \/ Call \/ Return \/ Throw \/ TextEnds \/ XtEnds
               \/ \E w \in Again : RunDry(w)
      BY <3>1 DEF Plain, Call, Return, Throw, TextEnds, XtEnds, RunDry, Raise
    <3>2. CASE Semicolon
      BY <3>2 DEF Semicolon
    <3>3. ASSUME NEW w \in Again, Parse(w)
          PROVE  (state' = "compile" /\ def') \/ UNCHANGED compVars
      BY <3>3 DEF Parse, Named
    <3>4. CASE Rerun
      BY <3>4 DEF Rerun, Named
    <3> QED BY <1>3, <3>1, <3>2, <3>3, <3>4 DEF Execute, Again
  <2> QED BY <1>1, <2>1, <2>2 DEF compVars
<1>4. ASSUME NEW f \in Texts \cup Calls \cup {"catch"}, Nest(f),
             f = "catch" => state # "compile"
      PROVE  CompileInv'
  <2>1. /\ Top \in Nat /\ Top' = Top + 1 /\ \A i \in 1..Top : frames'[i] = frames[i]
        /\ frames'[Top + 1] = [Frame(f) EXCEPT !.tib = Taken]
    BY <1>4, Nested
  <2>2. frames'[Top + 1].fn = f /\ frames'[Top + 1].state = state
    BY <2>1 DEF Frame
  <2>3. UNCHANGED compVars /\ state \in {"interpret", "compile"}
    BY <1>4 DEF Nest, TypeInv, TypeOK
  <2>4. \A i \in 1..Top' : i \in 1..Top \/ i = Top + 1
    BY <2>1
  <2> QED BY <1>4, <2>1, <2>2, <2>3, <2>4 DEF CompileInv, compVars
<1>5. CASE Enter
  <2>1. CASE Evaluate \/ IncludeFile \/ ExecuteParsing \/ ExecuteXT
    BY <1>4, <2>1 DEF Evaluate, IncludeFile, ExecuteParsing, ExecuteXT, Texts, Lines, Calls
  <2>2. CASE Catch
    BY <1>4, <2>2 DEF Catch
  <2>3. ASSUME NEW f \in Lines, Line(f)
        PROVE  CompileInv'
    <3> DEFINE new == Frame(f)
    <3>1. frames' = <<new>> /\ new.fn = f /\ UNCHANGED compVars
      BY <2>3 DEF Line, Frame
    <3> HIDE DEF new
    <3>2. Top' = 1 /\ frames'[1].fn = f /\ f # "catch"
      BY <3>1 DEF Top, Lines
    <3> QED BY <3>1, <3>2 DEF CompileInv, compVars
  <2> QED BY <1>5, <2>1, <2>2, <2>3 DEF Enter
<1>6. ASSUME NEW f, Landing(f),
             state' = "compile" => state = "compile" /\ def' = def
      PROVE  CompileInv'
  <2>1. /\ Top \in Nat \ {0} /\ Top' = Top - 1
        /\ \A i \in 1..Top - 1 : frames'[i] = frames[i]
    BY <1>6, Landed
  <2>2. \A i \in 1..Top' : i \in 1..Top /\ frames'[i] = frames[i]
    BY <2>1
  <2> QED BY <1>6, <2>2 DEF CompileInv
<1>7. CASE Unwind
  <2>1. ASSUME NEW f, TextLands(f)
        PROVE  CompileInv'
    <3>1. Landing(f) /\ ResetVm
      BY <2>1 DEF TextLands
    <3>2. state' = "compile" => state = "compile" /\ def' = def
      BY <3>1 DEF ResetVm, compVars
    <3> QED BY <1>6, <3>1, <3>2
  <2>2. CASE EvaluateReturns \/ IncludeReturns \/ \E f \in Lines : LineReturns(f)
    BY <2>1, <2>2 DEF EvaluateReturns, IncludeReturns, LineReturns
  <2>3. CASE \E f \in Calls : XtReturns(f)
    BY <1>6, <2>3 DEF XtReturns, compVars
  <2>4. CASE CatchReturns
    <3>1. Landing("catch") /\ UNCHANGED def /\ (state' = state \/ state' = frames[handler].state)
      BY <2>4 DEF CatchReturns
    <3>2. frames[handler].state = "interpret"
      BY <3>1, Landed DEF CompileInv
    <3> QED BY <1>6, <3>1, <3>2
  <2> QED BY <1>7, <2>2, <2>3, <2>4 DEF Unwind
<1> QED BY <1>2, <1>3, <1>5, <1>7 DEF Next

(* While the VM compiles there is a definition in progress, whatever is    *)
(* thrown meanwhile, in programs that do not execute CATCH while they      *)
(* compile (ficlVmExecuteString of vm.c, colon of primitives.c).           *)
THEOREM CompilesADefinition ==
  ASSUME Liberties = {}
  PROVE  Spec => []DefinitionWhileCompiling
<1>1. Init => CompileInv
  BY DEF Init, CompileInv, Top
<1>2. TypeInv /\ CompileInv /\ [Next]_vars => CompileInv'
  BY CompileStep
<1>3. CompileInv => DefinitionWhileCompiling
  BY DEF CompileInv, DefinitionWhileCompiling
<1> QED BY <1>1, <1>2, <1>3, TypeAlways, PTL DEF Spec

--------------------------------------------------------------------------------
(* What exceptions that programs throw do, if their codes are negative as  *)
(* the standard asks.                                                      *)
NegativeCodes == \A e \in Codes : e < 0

LEMMA TextPasses ==
  ASSUME TypeInv, CodeInv, NegativeCodes, EvaluateReturns \/ IncludeReturns, except' = None
  PROVE  \E f \in Texts \ Lines : TextLands(f) /\ except = OutOfText
<1>1. PICK f \in Texts \ Lines :
        /\ TextLands(f)
        /\ \/ except' = IF Result = OutOfText THEN None ELSE Result
           \/ except' = IF Result < 0 /\ Result # OutOfText THEN Result ELSE None
  BY DEF EvaluateReturns, IncludeReturns, Texts, Lines
<1>2. except \notin {None, InnerExit, Restart} /\ Result = except
  BY <1>1, TextLanding DEF Result
<1>3. except # OutOfText => except < 0
  BY <1>2 DEF TypeInv, TypeOK, Thrown, NegativeCodes, ErrorExit, UserExit
<1> QED BY <1>1, <1>2, <1>3 DEF None

(* When EVALUATE, INCLUDE-FILE, EXECUTE-PARSING, CATCH or an xt is over,   *)
(* the code that called it goes on where it was, with the return stack it  *)
(* had, as deep as they nest (vm.c, primitives.c, fileaccess.c).           *)
THEOREM CallersResume ==
  ASSUME NegativeCodes
  PROVE  Spec => Resumes
<1> DEFINE Goes == LET f == frames[handler] IN ip' = f.ip /\ rstack' = f.rstack
<1>1. ASSUME TypeInv, CodeInv, Unwind, Top > 1, except' = None
      PROVE  Goes
  <2>1. CASE EvaluateReturns \/ IncludeReturns
    <3>1. PICK f \in Texts \ Lines : TextLands(f) /\ except = OutOfText
      BY <1>1, <2>1, TextPasses
    <3> QED BY <1>1, <3>1, TextRead, TextLanding
  <2>2. ASSUME NEW f \in Lines, LineReturns(f)
        PROVE  FALSE
    <3>1. Landing(f)
      BY <2>2 DEF LineReturns, TextLands
    <3> QED BY <1>1, <3>1, LandingCode
  <2>3. ASSUME NEW f \in Calls, XtReturns(f)
        PROVE  Goes
    <3>1. Landing(f) /\ PopIP /\ (except # InnerExit => except' = except)
      BY <2>3 DEF XtReturns
    <3>2. except = InnerExit
      BY <1>1, <3>1, CallLanding DEF Calls
    <3> QED BY <1>1, <3>1, <3>2, CallLanding
  <2>4. CASE CatchReturns
    <3>1. /\ Landing("catch")
          /\ IF except = InnerExit THEN PopIP ELSE Goes
      BY <2>4 DEF CatchReturns
    <3> QED BY <1>1, <3>1, CallLanding
  <2> QED BY <1>1, <2>1, <2>2, <2>3, <2>4 DEF Unwind
<1>2. TypeInv /\ CodeInv /\ [Next]_vars =>
        [Unwind /\ Top > 1 /\ except' = None =>
           LET f == frames[handler] IN ip' = f.ip /\ rstack' = f.rstack]_vars
  BY <1>1
<1> QED BY <1>2, TypeAlways, CodeAlways, PTL DEF Spec, Resumes

(* A program's THROW reaches the innermost CATCH, past every text and xt   *)
(* in between ("returns to the last executed catch context",               *)
(* primitives.c).                                                          *)
THEOREM CatchReached ==
  ASSUME NegativeCodes
  PROVE  Spec => ThrowReachesCatch
<1>1. ASSUME TypeInv, CodeInv, [Next]_vars, except' = None, except \in Codes,
             NEW i \in DOMAIN frames, Innermost(i, Top, {"catch"})
      PROVE  i = handler
  <2>1. /\ except \notin {None, InnerExit, OutOfText, Restart} /\ except < 0
        /\ frames \in Seq(FrameSet) /\ Top \in Nat /\ i \in 1..Top
    BY <1>1, InterpreterAssumption
    DEF None, InnerExit, OutOfText, Restart, NegativeCodes, TypeInv, TypeOK, Top
  <2>2. Unwind
    BY <1>1, <2>1 DEF Next, Enter, Execute, Line, Evaluate, IncludeFile, ExecuteParsing,
       ExecuteXT, Catch, Nest, Plain, Call, Return, Semicolon, Rerun, Throw, TextEnds,
       XtEnds, Parse, RunDry, Word, vars
  <2>3. ~EvaluateReturns /\ ~IncludeReturns
    BY <1>1, <2>1, TextPasses
  <2>4. ASSUME NEW f \in Calls, XtReturns(f)
        PROVE  FALSE
    BY <1>1, <2>1, <2>4 DEF XtReturns
  <2>5. ASSUME NEW f, Landing(f), f \in Lines \cup {"catch"}
        PROVE  f = "catch" /\ handler = Top /\ frames[Top].fn = "catch"
    <3>1. Top \in Nat \ {0} /\ handler = Top /\ frames[Top].fn = f /\ (f \in Lines <=> Top = 1)
      BY <1>1, <2>5, LandingCode
    <3>2. CASE f \in Lines
      BY <1>1, <2>1, <3>1, <3>2 DEF Innermost, Lines
    <3> QED BY <2>5, <3>1, <3>2
  <2>6. handler = Top /\ frames[Top].fn = "catch"
    BY <2>2, <2>3, <2>4, <2>5 DEF Unwind, LineReturns, TextLands, CatchReturns
  <2> QED BY <1>1, <2>1, <2>6 DEF Innermost
<1>2. TypeInv /\ CodeInv /\ [Next]_vars =>
        [except' = None /\ except \in Codes =>
           \A i \in DOMAIN frames : Innermost(i, Top, {"catch"}) => i = handler]_vars
  BY <1>1
<1> QED BY <1>2, TypeAlways, CodeAlways, PTL DEF Spec, ThrowReachesCatch

================================================================================
