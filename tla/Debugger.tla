------------------------------- MODULE Debugger --------------------------------
(***************************************************************************)
(* The debugger puts step-break in the place of an instruction of the      *)
(* shared code and keeps what was there in system->breakpoint; SEE goes    *)
(* over the same code by its own table of what has arguments.              *)
(* Source: tools.c, SEE of dictionary.c, word.c, the jumps of vm.c.        *)
(*                                                                         *)
(* Code is in cells.  What is on the data stack is left out, and so is     *)
(* what the return stack has besides addresses of code: a branch that      *)
(* tests goes either way.                                                  *)
(***************************************************************************)
EXTENDS Integers, Sequences

CONSTANTS
  Code,       \* the cells as compiled, the interpreter loop the first three
  Words,      \* where the colon definitions begin
  CharsOf,    \* characters to a cell
  MaxReturns  \* bound: nested calls

Cells == DOMAIN Code

(* Instructions by their numbers; 1 and 2 are the constants.  What is no   *)
(* instruction is the address of a word, those of primitives negative.     *)
ExitParen    == 3
SemiParen    == 4
Branch       == 5
Branch0      == 6   \* and (of)
Literal      == 7
TwoLiteral   == 8
DoParen      == 9   \* and (?do)
Loop         == 10  \* and (+loop)
StringLit    == 11
CStringLit   == 12
Link         == 13
GetLocal     == 14
ToLocal      == 15
Unlink       == 16
Last         == 17  \* ficlInstructionLast

Interpret == -1000
StepBreak == -1001

(* A colon definition that begins at cell w is called by Last + w.         *)
Call(w) == Last + w
Called  == {Call(w) : w \in Words}

DebuggerAssumption ==
  /\ Code \in Seq(Int)
  /\ \A a \in Cells : Code[a] # StepBreak

VARIABLES
  code,    \* the cells
  ip,      \* vm->ip
  returns, \* return addresses
  bp,      \* system->breakpoint
  at       \* "run", or "prompt" of the debugger

vars == <<code, ip, returns, bp, at>>

Init ==
  /\ code = Code /\ ip = 1 /\ returns = <<>> /\ at = "run"
  /\ bp = [address |-> 0, oldXT |-> 0]

--------------------------------------------------------------------------------
Text(n)    == (n + CharsOf) \div CharsOf
Counted(n) == (n + 1 + CharsOf) \div CharsOf

Simple == {1, 2, Unlink}

Argument == {Literal, DoParen, Link, GetLocal, ToLocal}

(* Where an instruction leaves ip, which is at the cell a behind it; n is  *)
(* what is in that cell.                                                   *)
Jumps(op, a, n) ==
  CASE op \in Simple -> {a}
    [] op \in Argument -> {a + 1}
    [] op = TwoLiteral -> {a + 2}
    [] op = StringLit -> {a + 1 + Text(n)}
    [] op = CStringLit -> {a + Counted(n)}
    [] op = Branch -> {a + n}
    [] op \in {Branch0, Loop} -> {a + 1, a + n}
    [] OTHER -> {}

(* One pass of the inner loop; the primitive that interprets runs a word   *)
(* of the text.                                                            *)
Execute(op, a) ==
  \/ ip' \in Jumps(op, a, code[a]) /\ UNCHANGED returns
  \/ /\ op \in {ExitParen, SemiParen} /\ returns # <<>>
     /\ ip' = returns[Len(returns)] /\ returns' = SubSeq(returns, 1, Len(returns) - 1)
  \/ /\ op \in Called \/ op = Interpret
     /\ Len(returns) < MaxReturns
     /\ \E w \in Words : op \in {Call(w), Interpret} /\ ip' = w
     /\ returns' = Append(returns, a)

Run ==
  /\ at = "run" /\ ip \in Cells /\ code[ip] # StepBreak
  /\ Execute(code[ip], ip + 1)
  /\ UNCHANGED <<code, bp, at>>

(* An error or the end of the text, anywhere. *)
Abort ==
  /\ ip' = 1 /\ returns' = <<>> /\ at' = "run"
  /\ UNCHANGED <<code, bp>>

--------------------------------------------------------------------------------
SetBreakLate(a) ==
  /\ code' = [code EXCEPT ![a] = StepBreak]
  /\ bp' = [address |-> a, oldXT |-> code'[a]]

SetBreak(a) ==
  /\ bp' = [address |-> a, oldXT |-> code[a]]
  /\ code' = [code EXCEPT ![a] = StepBreak]

(* DEBUG of a colon definition, where no breakpoint was left in the code.  *)
DebugXT(w) ==
  /\ at = "run" /\ ip \in Cells /\ code[ip] = Interpret /\ code = Code
  /\ Len(returns) < MaxReturns
  /\ ip' = w /\ returns' = Append(returns, ip + 1)
  /\ SetBreak(ip')
  /\ UNCHANGED at

BreakKept == UNCHANGED code

(* step-break; its commands l, x and ? leave everything as it is.          *)
Restore == code' = [code EXCEPT ![bp.address] = bp.oldXT]

Break ==
  /\ at = "run" /\ ip \in Cells /\ code[ip] = StepBreak
  /\ ip' = bp.address /\ Restore
  /\ at' = "prompt"
  /\ UNCHANGED <<returns, bp>>

StepIn ==
  /\ at = "prompt"
  /\ Execute(code[ip], ip + 1)
  /\ SetBreak(ip')
  /\ at' = "run"

OverLiterally(op) == TRUE

(* Only a call is run to its end. *)
Over(op) == op \in Called

StepOver ==
  /\ at = "prompt" /\ Over(code[ip])
  /\ SetBreak(ip + 1)
  /\ at' = "run"
  /\ UNCHANGED <<ip, returns>>

Go == at = "prompt" /\ at' = "run" /\ UNCHANGED <<code, ip, returns, bp>>

Quit == at = "prompt" /\ Abort

Next ==
  \/ Run \/ (at = "run" /\ Abort)
  \/ \E w \in Words : DebugXT(w)
  \/ Break \/ StepIn \/ StepOver \/ Go \/ Quit

Spec == Init /\ [][Next]_vars

--------------------------------------------------------------------------------
(* SEE.                                                                    *)
SeeAllAlike(op) == 1

(* What SEE passes over, by the kind ficlWordClassify finds; that LINK and *)
(* the fetches of locals have an argument it does not know.                *)
Classified(op) ==
  CASE op \in {Literal, Branch, Branch0, DoParen, Loop, ToLocal} -> 2
    [] op = TwoLiteral -> 3
    [] OTHER -> 1

SeeSkip(a) ==
  CASE Code[a] = StringLit -> 2 + Text(Code[a + 1])
    [] Code[a] = CStringLit -> 1 + Counted(Code[a + 1])
    [] OTHER -> Classified(Code[a])

(* The cells SEE takes for instructions, from the word at a on.            *)
Seen(w) ==
  LET S[a \in Cells] ==
        IF Code[a] = SemiParen \/ a + SeeSkip(a) \notin Cells THEN {a}
        ELSE {a} \cup S[a + SeeSkip(a)] IN
  S[w]

Instructions == {1, 2} \cup UNION {Seen(w) : w \in Words}

(* Code as the compiler lays it out: instructions and their arguments, as  *)
(* the inner loop takes them, one behind the other up to the semicolon.    *)
Taken(a) ==
  CASE Code[a] \in Argument \cup {Branch, Branch0, Loop} -> 2
    [] Code[a] = TwoLiteral -> 3
    [] Code[a] = StringLit -> 2 + Text(Code[a + 1])
    [] Code[a] = CStringLit -> 1 + Counted(Code[a + 1])
    [] OTHER -> 1

Laid(w) ==
  LET L[a \in Cells] ==
        IF Code[a] = SemiParen \/ a + Taken(a) \notin Cells THEN {a}
        ELSE {a} \cup L[a + Taken(a)] IN
  L[w]

Starts == {1, 2} \cup UNION {Laid(w) : w \in Words}

(* Where the inner loop comes to, and what a call comes back to.           *)
Leads(a) ==
  Jumps(Code[a], a + 1, Code[a + 1])
    \cup IF Code[a] \in Called \cup {Interpret} THEN {a + 1} ELSE {}

(* An instruction leads to another one and its argument is none, and the   *)
(* numbers of locals, which SEE takes for instructions, are those of       *)
(* instructions without an argument: (;) is the 42nd.                      *)
CodeAssumption ==
  /\ CharsOf \in Nat \ {0} /\ Words \subseteq Cells /\ Starts \subseteq Cells
  /\ \A a \in Starts :
       /\ Leads(a) \subseteq Starts
       /\ Code[a] \in {StringLit, CStringLit, Branch, Branch0, Loop, Link, GetLocal} =>
            a + 1 \in Cells \ Starts
       /\ Code[a] \in {StringLit, CStringLit} => Code[a + 1] \in Nat
       /\ Code[a] \in {Link, GetLocal} => Code[a + 1] \in Simple \cup {ExitParen}

(* A cell of the code is what was compiled or the one breakpoint, whose    *)
(* instruction is kept (SetBreak, StepBreak of tools.c).                   *)
CodeKept ==
  \A a \in Cells :
    \/ code[a] = Code[a]
    \/ code[a] = StepBreak /\ bp = [address |-> a, oldXT |-> Code[a]]

(* The prompt shows the program as it was compiled.                        *)
PromptClean == at = "prompt" => code = Code

(* What the inner loop executes, and where a breakpoint may be, SEE shows  *)
(* as instructions (SEE of dictionary.c against vm.c, tools.c).            *)
SeeInStep ==
  /\ ip \in Instructions
  /\ \A a \in Cells : code[a] = StepBreak => a \in Instructions
================================================================================
