------------------------------ MODULE ControlFlow ------------------------------
(***************************************************************************)
(* The control structures of a colon definition: the words that compile    *)
(* branches and resolve them through the data stack (primitives.c), and    *)
(* the tasks that run the definition and redirect a branch to a branch in  *)
(* the shared code the first time they meet it (vm.c).                     *)
(***************************************************************************)
EXTENDS Integers, Sequences, FiniteSets

CONSTANTS
  Threads,     \* the tasks that run the definition
  MaxWords,    \* bound: control words in a definition
  MaxRun       \* bound: control words in a definition that is run

ASSUME ControlFlowAssumption ==
  /\ MaxWords \in Nat /\ MaxRun \in Nat

VARIABLES
  prog,    \* the control words compiled so far
  addr,    \* history: HERE when each of them was met
  code,    \* the cells of the definition
  cs,      \* what the control words have pushed onto the data stack
  phase,   \* is the definition open, refused, or finished?
  first,   \* history: the code as the semicolon left it
  work     \* what each task has open in ficlVmOptimizeJumpToJump

vars == <<prog, addr, code, cs, phase, first, work>>

Init ==
  /\ prog = <<>> /\ addr = <<>> /\ code = <<>>
  /\ cs = <<[tag |-> "colon", at |-> 0]>>
  /\ phase = "open" /\ first = <<>>
  /\ work = [t \in Threads |-> <<>>]

--------------------------------------------------------------------------------
(* Cells: instructions and their operands.                                 *)

I(o)   == [op |-> o, arg |-> 0]
Arg(n) == [op |-> "arg", arg |-> n]

Here(c) == Len(c) + 1

(* markBranch and markControlTag: tagged items on the data stack.          *)
Mark(tag, at) == [tag |-> tag, at |-> at]

Top(s)    == s[Len(s)]
Pop(s, n) == SubSeq(s, 1, Len(s) - n)

(* Mutant of Patch: the offset counts from the branch, not from its cell.  *)
PatchShort(c, a) == [c EXCEPT ![a] = Arg(Here(c) - a + 1)]

(* The operand at a is made to lead to HERE.                               *)
Patch(c, a) == [c EXCEPT ![a] = Arg(Here(c) - a)]

(* An offset from HERE back to a.                                          *)
Back(c, a) == Arg(a - Here(c))

(* matchControlTag, once for every tag of a word.                          *)
Wants(w) ==
  CASE w \in {"else", "then"}          -> <<"orig">>
    [] w \in {"until", "again"}        -> <<"dest">>
    [] w = "repeat"                    -> <<"dest", "orig">>
    [] w = "loop"                      -> <<"do">>
    [] w \in {"endof", "fallthrough"}  -> <<"of", "case">>
    [] w \in {"of", "endcase"}         -> IF Top(cs).tag = "fallthrough"
                                          THEN <<"fallthrough", "case">> ELSE <<"case">>
    [] w = ";"                         -> <<"colon">>
    [] OTHER                           -> <<>>

Matches(w) == LET tags == Wants(w) IN
  /\ Len(tags) <= Len(cs)
  /\ \A i \in DOMAIN tags : cs[Len(cs) + 1 - i].tag = tags[i]

(* A control word compiles cells c and leaves s on the data stack.         *)
Compile(w, c, s) ==
  /\ Len(prog) < MaxWords /\ Matches(w)
  /\ prog' = Append(prog, w) /\ addr' = Append(addr, Here(code))
  /\ code' = c /\ cs' = s
  /\ UNCHANGED <<phase, first, work>>

--------------------------------------------------------------------------------
(* The control words.                                                      *)

(* Any other word takes a cell of the definition.                          *)
Other == Compile("word", Append(code, I("word")), cs)

Origin(w, op) == Compile(w, code \o <<I(op), Arg(1)>>,
                         Append(cs, Mark("orig", Here(code) + 1)))

If    == Origin("if", "branch0?")
Ahead == Origin("ahead", "branch?")

Else == LET c == code \o <<I("branch?"), Arg(1)>> IN
        Compile("else", Patch(c, Top(cs).at), Append(Pop(cs, 1), Mark("orig", Here(code) + 1)))

Then == Compile("then", Patch(code, Top(cs).at), Pop(cs, 1))

Begin == Compile("begin", code, Append(cs, Mark("dest", Here(code))))

Backward(w, op) == LET c == Append(code, I(op)) IN
                   Compile(w, Append(c, Back(c, Top(cs).at)), Pop(cs, 1))

Until == Backward("until", "branch0?")
Again == Backward("again", "branch?")

(* The origin goes below the pair of cells on top, meant to be a           *)
(* destination: a WHILE outside a BEGIN swaps whatever is there. Below a   *)
(* colon lie the caller's cells, below a case single ones: not modelled.   *)
While == /\ cs # <<>> /\ Top(cs).tag \notin {"colon", "case"}
         /\ Compile(IF Top(cs).tag = "dest" THEN "while" ELSE "misplaced",
                    code \o <<I("branch0?"), Arg(1)>>,
                    Pop(cs, 1) \o <<Mark("orig", Here(code) + 1), Top(cs)>>)

(* Mutant of Repeat: WHILE is resolved before the branch back is compiled. *)
RepeatEarly == LET c == IF Matches("repeat") THEN Patch(code, cs[Len(cs) - 1].at) ELSE code
                   d == Append(c, I("branch?")) IN
               Compile("repeat", Append(d, Back(d, Top(cs).at)), Pop(cs, 2))

Repeat == LET c == Append(code, I("branch?"))
              d == Append(c, Back(c, Top(cs).at)) IN
          Compile("repeat", Patch(d, cs[Len(cs) - 1].at), Pop(cs, 2))

(* LEAVE will find the end of the loop in the first operand.               *)
Do == LET c == code \o <<I("do"), Arg(0)>> IN
      Compile("do", c, cs \o <<Mark("leave", Here(code) + 1), Mark("do", Here(c))>>)

(* The address for LEAVE is absolute; its tag is not insisted on.          *)
Loop == LET c == Append(code, I("loop"))
            d == Append(c, Back(c, Top(cs).at)) IN
        Compile("loop", [d EXCEPT ![cs[Len(cs) - 1].at] = Arg(Here(d))], Pop(cs, 2))

(* CASE counts the ENDOFs whose branches are pending below its tag.        *)
Case == Compile("case", code, Append(cs, Mark("case", 0)))

(* A pending FALLTHROUGH leads behind the test.                            *)
Of == LET c == code \o <<I("of"), Arg(2)>>
          m == Mark("of", Here(code) + 1) IN
      IF Top(cs).tag = "fallthrough"
      THEN Compile("of", Patch(c, Top(cs).at), Append(Pop(cs, 1), m))
      ELSE Compile("of", c, Append(cs, m))

EndOf == LET c == code \o <<I("branch?"), Arg(2)>>
             n == cs[Len(cs) - 1].at IN
         Compile("endof", Patch(c, Top(cs).at),
                 Pop(cs, 2) \o <<Mark("fix", Here(code) + 1), Mark("case", n + 1)>>)

Fallthrough == LET c == code \o <<I("branch?"), Arg(2)>> IN
               Compile("fallthrough", Patch(c, Top(cs).at),
                       Append(Pop(cs, 1), Mark("fallthrough", Here(code) + 1)))

(* The pending FALLTHROUGH and ENDOFs lead behind the DROP.                *)
EndCase ==
  LET more == IF Top(cs).tag = "fallthrough" THEN 1 ELSE 0
      n    == cs[Len(cs) - more].at
      c    == Append(code, I("drop"))
      s    == Pop(cs, 1 + more)
      fix  == {s[i].at : i \in Len(s) - n + 1..Len(s)}
                \cup (IF more = 1 THEN {Top(cs).at} ELSE {}) IN
  Compile("endcase", [a \in DOMAIN c |-> IF a \in fix THEN Arg(Here(c) - a) ELSE c[a]],
          Pop(s, n))

Closers == {"else", "then", "until", "again", "repeat", "loop", "of", "endof",
            "fallthrough", "endcase", ";"}

(* An unmatched control structure: the definition is given back.           *)
Unmatched == /\ phase = "open" /\ \E w \in Closers : ~Matches(w)
             /\ phase' = "refused"
             /\ prog' = <<>> /\ addr' = <<>> /\ code' = <<>> /\ cs' = <<>>
             /\ UNCHANGED <<first, work>>

Semicolon == /\ phase = "open" /\ Matches(";")
             /\ code' = Append(code, I("exit")) /\ first' = code'
             /\ phase' = "done" /\ cs' = Pop(cs, 1)
             /\ UNCHANGED <<prog, addr, work>>

--------------------------------------------------------------------------------
(* ficlVmOptimizeJumpToJump, one access to the shared code at a time.      *)

Unchecked == [x \in {"branch?", "branch0?"} |-> IF x = "branch?" THEN "branch" ELSE "branch0"]
Target(c, a) == a + 1 + c[a + 1].arg

Frame(a) == [ip |-> a, at |-> "read", dest |-> 0]
Goto(t, l, d) == [work EXCEPT ![t][Len(work[t])] =
                    [ip |-> work[t][Len(work[t])].ip, at |-> l, dest |-> d]]
Return(t) == [work EXCEPT ![t] = Pop(work[t], 1)]

Structured == \A i \in DOMAIN prog : prog[i] # "misplaced"

(* A task meets a branch that nobody has met before it.                    *)
Meet(t) == /\ phase = "done" /\ Structured /\ Len(prog) <= MaxRun /\ work[t] = <<>>
           /\ \E a \in DOMAIN code : /\ code[a].op \in DOMAIN Unchecked
                                    /\ work' = [work EXCEPT ![t] = <<Frame(a)>>]
           /\ UNCHANGED <<prog, addr, code, cs, phase, first>>

(* Mutant of AfterRead: the branch is not marked.                          *)
MarkNever == "offset"

(* The branch is marked before the code looks where it leads.              *)
AfterRead == "mark"

(* Mutant of LeadsOn: a conditional branch is followed too.                  *)
LeadsOnIf(a) == a \in DOMAIN code /\ code[a].op \in {"branch", "branch?", "branch0"}

(* Does the branch lead to a branch that always jumps?                     *)
LeadsOn(a) == a \in DOMAIN code /\ code[a].op \in {"branch", "branch?"}

Optimize(t) ==
  /\ work[t] # <<>>
  /\ LET f == Top(work[t]) IN
     \/ /\ f.at = "read"
        /\ work' = IF code[f.ip].op \in DOMAIN Unchecked THEN Goto(t, AfterRead, 0)
                                                         ELSE Return(t)
        /\ UNCHANGED code
     \/ /\ f.at = "mark"
        /\ code' = [code EXCEPT ![f.ip] = I(IF first[f.ip].op = "branch?" THEN "branch"
                                                                         ELSE "branch0")]
        /\ work' = Goto(t, "offset", 0)
     \/ /\ f.at = "offset"
        /\ work' = Goto(t, "look", Target(code, f.ip))
        /\ UNCHANGED code
     \/ /\ f.at = "look"
        /\ work' = IF ~LeadsOn(f.dest) THEN Return(t)
                   ELSE LET w == Goto(t, "follow", f.dest) IN
                        IF code[f.dest].op = "branch?"
                        THEN [w EXCEPT ![t] = Append(w[t], Frame(f.dest))] ELSE w
        /\ UNCHANGED code
     \/ /\ f.at = "follow"
        /\ work' = Goto(t, "patch", Target(code, f.dest))
        /\ UNCHANGED code
     \/ /\ f.at = "patch"
        /\ code' = [code EXCEPT ![f.ip + 1] = Arg(f.dest - (f.ip + 1))]
        /\ work' = Return(t)
  /\ UNCHANGED <<prog, addr, cs, phase, first>>

Word == /\ phase = "open"
        /\ \/ Other \/ If \/ Ahead \/ Else \/ Then \/ Begin \/ Until \/ Again \/ While
           \/ Repeat \/ Do \/ Loop \/ Case \/ Of \/ EndOf \/ Fallthrough \/ EndCase

Next == \/ Word \/ Unmatched \/ Semicolon
        \/ \E t \in Threads : Meet(t) \/ Optimize(t)

Spec == Init /\ [][Next]_vars

--------------------------------------------------------------------------------
(* Properties.                                                             *)

Words == {"word", "if", "ahead", "else", "then", "begin", "until", "again", "while",
          "misplaced", "repeat", "do", "loop", "case", "of", "endof", "fallthrough",
          "endcase"}
Tags == {"colon", "orig", "dest", "leave", "do", "case", "of", "fix", "fallthrough"}
Ops == {"word", "branch", "branch0", "branch?", "branch0?", "do", "loop", "of", "drop", "exit"}
Cells == [op : Ops, arg : {0}] \cup [op : {"arg"}, arg : Int]

(* The type of the state of a definition (primitives.c) and of the calls   *)
(* of ficlVmOptimizeJumpToJump (vm.c).                                     *)
TypeOK ==
  /\ prog \in Seq(Words) /\ addr \in Seq(Nat)
  /\ code \in Seq(Cells) /\ first \in Seq(Cells)
  /\ cs \in Seq([tag : Tags, at : Nat])
  /\ phase \in {"open", "refused", "done"}
  /\ work \in [Threads -> Seq([ip : Nat, dest : Int,
                  at : {"read", "mark", "offset", "look", "follow", "patch"}])]

Openers == [orig |-> {"if", "ahead", "else", "while"}, dest |-> {"begin"},
            do |-> {"do"}, of |-> {"of"}, case |-> {"case"}]
Enders == [orig |-> {"then", "else", "repeat"}, dest |-> {"until", "again", "repeat"},
           do |-> {"loop"}, of |-> {"endof", "fallthrough"}, case |-> {"endcase"}]

(* The word at j ends what the word at i opened: parentheses of one kind.  *)
Ends(k, i, j) ==
  LET Level(l) == Cardinality({n \in i..l - 1 : prog[n] \in Openers[k]})
                    - Cardinality({n \in i + 1..l : prog[n] \in Enders[k]}) IN
  /\ i < j /\ prog[i] \in Openers[k] /\ prog[j] \in Enders[k]
  /\ Level(j) = 0 /\ \A l \in i + 1..j - 1 : Level(l) > 0

(* Where the code of the word behind i begins.                             *)
Behind(i) == IF i < Len(prog) THEN addr[i + 1] ELSE Len(first)

Inside(i, c) == /\ c < i /\ \E e \in i + 1..Len(prog) : Ends("case", c, e)
                /\ \A d \in c + 1..i : ~\E e \in i + 1..Len(prog) : Ends("case", d, e)

Leads(i, j) == Target(first, addr[i]) = Behind(j)

(* Every branch of a definition that the semicolon accepts leads where the *)
(* structure says, at any nesting: forward behind the word that ends it,   *)
(* back behind BEGIN or DO, LEAVE behind LOOP, ENDOF behind ENDCASE, and   *)
(* FALLTHROUGH behind the test of the next OF of its CASE or, without one, *)
(* behind ENDCASE (primitives.c, resolveBackBranch to ENDCASE).            *)
TargetsExact ==
  phase = "done" /\ Structured =>
    \A i \in DOMAIN prog :
      LET w == prog[i]
          EndCases == {e \in DOMAIN prog : \E c \in DOMAIN prog :
                         Inside(i, c) /\ Ends("case", c, e)}
          NextOfs == {j \in i + 1..Len(prog) : prog[j] = "of" /\
                        \E c \in DOMAIN prog : Inside(i, c) /\ Inside(j, c)} IN
      /\ \A k \in {"orig", "of"} : w \in Openers[k] =>
           \E j \in DOMAIN prog : Ends(k, i, j) /\ Leads(i, j)
      /\ \A k \in {"dest", "do"} : w \in Enders[k] =>
           \E j \in DOMAIN prog : Ends(k, j, i) /\ Leads(i, j)
      /\ w = "do" => \E j \in DOMAIN prog : Ends("do", i, j)
                                          /\ first[addr[i] + 1].arg = Behind(j)
      /\ w = "endof" => \E j \in EndCases : Leads(i, j)
      /\ w = "fallthrough" =>
           IF NextOfs = {} THEN \E j \in EndCases : Leads(i, j)
           ELSE \E j \in NextOfs : Leads(i, j) /\ \A l \in NextOfs : j <= l

Branches(c) == {a \in DOMAIN c : c[a].op \in DOMAIN Unchecked}

(* Where a task that takes the branch at a of code c may come by on its    *)
(* way through branches that always jump: the least set with the target of *)
(* the branch and the target of every such branch that it comes by.        *)
Places(c) == {Target(c, b) : b \in Branches(c)}
Closed(c, a, S) ==
  Target(c, a) \in S /\ \A b \in Branches(c) : b \in S /\ c[b].op = "branch?"
                                                 => Target(c, b) \in S
Way(c, a) == {p \in Places(c) : \A S \in SUBSET Places(c) : Closed(c, a, S) => p \in S}

(* However the tasks' rewrites of shared branches interleave, a branch     *)
(* keeps its kind, and leads to a place the original jump would have come  *)
(* to with no other word executed in between (ficlVmOptimizeJumpToJump).   *)
JumpsKept ==
  \A a \in Branches(first) :
    /\ code[a].op \in {first[a].op, Unchecked[first[a].op]}
    /\ Target(code, a) \in Way(first, a)

(* The recursion of ficlVmOptimizeJumpToJump never comes back to a branch  *)
(* it is in the middle of, though branches may lead in circles and other   *)
(* tasks rewrite them meanwhile: it ends, at a depth of at most their      *)
(* number.                                                                 *)
NoReentry ==
  \A t \in Threads : \A i, j \in DOMAIN work[t] :
    work[t][i].ip = work[t][j].ip => i = j

================================================================================
