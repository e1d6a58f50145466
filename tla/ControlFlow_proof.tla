--------------------------- MODULE ControlFlow_proof ---------------------------
(***************************************************************************)
(* Theorems about ControlFlow, for definitions of every length and every   *)
(* number of tasks that run them: first about the optimizer, then about    *)
(* where the branches of a definition lead.                                *)
(***************************************************************************)
EXTENDS ControlFlow, FiniteSetTheorems, SequenceTheorems, TLAPS

Items == [tag : Tags, at : Nat]
Frames == [ip : Nat, dest : Int, at : {"read", "mark", "offset", "look", "follow", "patch"}]

(* A cell with an operand is an operand cell, whatever the operand.        *)
LEMMA CellTypes ==
  /\ \A o \in Ops : I(o) \in Cells
  /\ \A n \in Int : Arg(n) \in Cells
BY DEF I, Arg, Cells

(* Patching a cell, wherever it is, leaves a code of the same length.      *)
LEMMA PatchCell ==
  ASSUME NEW c \in Seq(Cells), NEW a, NEW n \in Int
  PROVE  /\ [c EXCEPT ![a] = Arg(n)] \in Seq(Cells)
         /\ Len([c EXCEPT ![a] = Arg(n)]) = Len(c)
         /\ \A i \in DOMAIN c : [c EXCEPT ![a] = Arg(n)][i] = IF i = a THEN Arg(n) ELSE c[i]
<1>1. CASE a \in 1..Len(c)
  BY <1>1, ExceptSeq, CellTypes
<1>2. CASE a \notin 1..Len(c)
  <2>1. [c EXCEPT ![a] = Arg(n)] = c
    BY <1>2
  <2> QED
    BY <2>1, <1>2
<1> QED
  BY <1>1, <1>2

(* Taking items off the data stack leaves items.                           *)
LEMMA PopType ==
  ASSUME NEW S, NEW s \in Seq(S), NEW n \in Nat
  PROVE  /\ Pop(s, n) \in Seq(S)
         /\ n <= Len(s) => Len(Pop(s, n)) = Len(s) - n
         /\ \A i \in 1..Len(s) - n : Pop(s, n)[i] = s[i]
<1>1. \A i \in 1..Len(s) - n : s[i] \in S
  OBVIOUS
<1> QED
  BY <1>1, SubSeqProperties DEF Pop

--------------------------------------------------------------------------------
(* The inductive invariant.                                                *)

Jumps == {"branch?", "branch0?"}

(* While a definition is compiled, a branch has its operand cell behind it *)
(* and no branch has been executed yet.                                    *)
Fresh(c) == \A a \in 1..Len(c) :
              /\ c[a].op \notin {"branch", "branch0"}
              /\ c[a].op \in Jumps => a < Len(c) /\ c[a + 1].op = "arg"

(* The code before the semicolon, and as the semicolon left it.            *)
FreshInv == /\ phase = "open" => Fresh(code)
            /\ phase # "done" => first = <<>>
            /\ Fresh(first)

(* Nothing but branches and their operands ever changes.                   *)
SameInv == phase = "done" => /\ Len(code) = Len(first)
                             /\ \A a \in 1..Len(first) : a \notin Branches(first)
                                                       => code[a].op = first[a].op

(* A call of ficlVmOptimizeJumpToJump is about a branch; it has marked it  *)
(* before it looks further, and what it looks at is on the branch's way    *)
(* (c is the code now, o as the semicolon left it).                        *)
FrameOK(f, c, o) ==
  /\ f.ip \in Branches(o)
  /\ f.at \notin {"read", "mark"} => c[f.ip].op \notin Jumps
  /\ f.at \in {"look", "follow", "patch"} => f.dest \in Way(o, f.ip)
  /\ f.at = "follow" => f.dest \in Branches(o) /\ o[f.dest].op = "branch?"

(* The callers on a task's stack of calls are waiting for the innermost.   *)
FramesInv == \A t \in Threads : \A i \in 1..Len(work[t]) :
               /\ FrameOK(work[t][i], code, first)
               /\ i < Len(work[t]) => work[t][i].at = "follow"

IInv == TypeOK /\ FreshInv /\ SameInv /\ FramesInv /\ JumpsKept /\ NoReentry

--------------------------------------------------------------------------------
(* Compiling.                                                              *)

(* An instruction without an operand.                                      *)
LEMMA FreshCell ==
  ASSUME NEW c \in Seq(Cells), Fresh(c), NEW o \in Ops, o \notin Jumps \cup {"branch", "branch0"}
  PROVE  /\ Append(c, I(o)) \in Seq(Cells)
         /\ Len(Append(c, I(o))) = Len(c) + 1
         /\ Fresh(Append(c, I(o)))
<1>1. I(o) \in Cells /\ I(o).op = o
  BY CellTypes DEF I
<1> DEFINE d == Append(c, I(o))
<1>2. /\ d \in Seq(Cells) /\ Len(d) = Len(c) + 1 /\ d[Len(c) + 1] = I(o)
      /\ \A i \in 1..Len(c) : d[i] = c[i]
  BY <1>1, AppendProperties
<1> HIDE DEF d
<1>3. Fresh(d)
  BY <1>1, <1>2 DEF Fresh
<1> QED
  BY <1>2, <1>3 DEF d

(* An instruction with its operand, which may be a branch.                 *)
LEMMA FreshPair ==
  ASSUME NEW c \in Seq(Cells), Fresh(c), NEW o \in Ops, o \notin {"branch", "branch0"},
         NEW n \in Int
  PROVE  /\ c \o <<I(o), Arg(n)>> \in Seq(Cells)
         /\ Append(Append(c, I(o)), Arg(n)) = c \o <<I(o), Arg(n)>>
         /\ Len(c \o <<I(o), Arg(n)>>) = Len(c) + 2
         /\ Fresh(c \o <<I(o), Arg(n)>>)
<1>1. I(o) \in Cells /\ I(o).op = o /\ Arg(n) \in Cells /\ Arg(n).op = "arg"
  BY CellTypes DEF I, Arg
<1> DEFINE d == c \o <<I(o), Arg(n)>>
           e == Append(c, I(o))
<1>2. <<I(o), Arg(n)>> \in Seq(Cells) /\ Len(<<I(o), Arg(n)>>) = 2
  BY <1>1
<1>3. /\ d \in Seq(Cells) /\ Len(d) = Len(c) + 2
      /\ d[Len(c) + 1] = I(o) /\ d[Len(c) + 2] = Arg(n)
      /\ \A i \in 1..Len(c) : d[i] = c[i]
  BY <1>2, ConcatProperties
<1>4. /\ e \in Seq(Cells) /\ Len(e) = Len(c) + 1 /\ e[Len(c) + 1] = I(o)
      /\ \A i \in 1..Len(c) : e[i] = c[i]
  BY <1>1, AppendProperties
<1>5. /\ Append(e, Arg(n)) \in Seq(Cells) /\ Len(Append(e, Arg(n))) = Len(c) + 2
      /\ Append(e, Arg(n))[Len(c) + 2] = Arg(n)
      /\ \A i \in 1..Len(c) + 1 : Append(e, Arg(n))[i] = e[i]
  <2> HIDE DEF e
  <2> QED
    BY <1>1, <1>4, AppendProperties
<1>6. Append(e, Arg(n)) = d
  <2>1. \A i \in 1..Len(c) + 2 : Append(e, Arg(n))[i] = d[i]
    <3> HIDE DEF d, e
    <3> QED
      BY <1>3, <1>4, <1>5
  <2> HIDE DEF d, e
  <2> QED
    BY <2>1, <1>3, <1>5, SeqEqual
<1>7. Fresh(d)
  <2> HIDE DEF d
  <2> QED
    BY <1>1, <1>3 DEF Fresh, Jumps
<1> QED
  BY <1>3, <1>6, <1>7

(* Patching keeps operands behind branches.                                *)
LEMMA FreshPatch ==
  ASSUME NEW c \in Seq(Cells), Fresh(c), NEW a, NEW n \in Int
  PROVE  /\ [c EXCEPT ![a] = Arg(n)] \in Seq(Cells)
         /\ Len([c EXCEPT ![a] = Arg(n)]) = Len(c)
         /\ Fresh([c EXCEPT ![a] = Arg(n)])
<1> DEFINE d == [c EXCEPT ![a] = Arg(n)]
<1>1. /\ d \in Seq(Cells) /\ Len(d) = Len(c)
      /\ \A i \in 1..Len(c) : d[i] = IF i = a THEN Arg(n) ELSE c[i]
  BY PatchCell
<1>2. Arg(n).op = "arg"
  BY DEF Arg
<1> HIDE DEF d
<1>3. Fresh(d)
  BY <1>1, <1>2 DEF Fresh, Jumps
<1> QED
  BY <1>1, <1>3 DEF d

(* Resolving a branch to HERE.                                             *)
LEMMA PatchHere ==
  ASSUME NEW c \in Seq(Cells), Fresh(c), NEW a \in Nat
  PROVE  /\ Patch(c, a) \in Seq(Cells)
         /\ Len(Patch(c, a)) = Len(c)
         /\ Fresh(Patch(c, a))
<1>1. Here(c) - a \in Int
  BY DEF Here
<1> QED
  BY <1>1, FreshPatch DEF Patch

(* Resolving any set of branches at once.                                  *)
LEMMA FreshPatches ==
  ASSUME NEW c \in Seq(Cells), Fresh(c), NEW S
  PROVE  LET d == [a \in DOMAIN c |-> IF a \in S THEN Arg(Here(c) - a) ELSE c[a]] IN
         d \in Seq(Cells) /\ Fresh(d)
<1> DEFINE d == [a \in DOMAIN c |-> IF a \in S THEN Arg(Here(c) - a) ELSE c[a]]
<1>1. \A a \in 1..Len(c) : /\ Arg(Here(c) - a) \in Cells /\ Arg(Here(c) - a).op = "arg"
                           /\ c[a] \in Cells
  <2>1. \A a \in 1..Len(c) : Here(c) - a \in Int
    BY DEF Here
  <2> QED
    BY <2>1, CellTypes DEF Arg
<1>2. d \in Seq(Cells) /\ Len(d) = Len(c)
  <2>1. DOMAIN c = 1..Len(c) /\ Len(c) \in Nat
    OBVIOUS
  <2>2. d \in [1..Len(c) -> Cells]
    BY <1>1, <2>1
  <2> QED
    BY <2>1, <2>2
<1>3. \A a \in 1..Len(c) : d[a] = IF a \in S THEN Arg(Here(c) - a) ELSE c[a]
  OBVIOUS
<1> HIDE DEF d
<1>4. Fresh(d)
  BY <1>1, <1>2, <1>3 DEF Fresh, Jumps
<1> QED
  BY <1>2, <1>4 DEF d

(* A branch back.                                                          *)
LEMMA BackPair ==
  ASSUME NEW c \in Seq(Cells), Fresh(c), NEW o \in Ops, o \notin {"branch", "branch0"},
         NEW a \in Nat
  PROVE  /\ Append(Append(c, I(o)), Back(Append(c, I(o)), a)) \in Seq(Cells)
         /\ Len(Append(Append(c, I(o)), Back(Append(c, I(o)), a))) = Len(c) + 2
         /\ Fresh(Append(Append(c, I(o)), Back(Append(c, I(o)), a)))
<1>1. PICK n \in Int : Back(Append(c, I(o)), a) = Arg(n)
  <2>1. Append(c, I(o)) \in Seq(Cells)
    BY CellTypes
  <2>2. a - Here(Append(c, I(o))) \in Int
    BY <2>1 DEF Here
  <2> QED
    BY <2>2 DEF Back
<1>2. /\ Append(Append(c, I(o)), Arg(n)) \in Seq(Cells)
      /\ Len(Append(Append(c, I(o)), Arg(n))) = Len(c) + 2
      /\ Fresh(Append(Append(c, I(o)), Arg(n)))
  BY FreshPair
<1> QED
  BY <1>1, <1>2

(* Until the semicolon there is nothing to jump to, and nobody jumps.      *)
LEMMA NoneRun ==
  ASSUME FreshInv, phase # "done"
  PROVE  Branches(first) = {}
BY DEF FreshInv, Branches

(* A control word that leaves well-formed code keeps the invariant.        *)
LEMMA WordStep ==
  ASSUME IInv, phase = "open", NEW w \in Words, NEW c, NEW s, Compile(w, c, s),
         c \in Seq(Cells), Fresh(c), s \in Seq(Items)
  PROVE  IInv'
<1>1. /\ prog' = Append(prog, w) /\ addr' = Append(addr, Here(code))
      /\ code' = c /\ cs' = s /\ phase' = phase /\ first' = first /\ work' = work
  BY DEF Compile
<1>2. Branches(first) = {} /\ Branches(first)' = {}
  BY <1>1, NoneRun DEF IInv, Branches
<1>3. TypeOK'
  <2>1. Here(code) \in Nat
    BY DEF IInv, TypeOK, Here
  <2>2. prog' \in Seq(Words)
    BY <1>1 DEF IInv, TypeOK
  <2>3. addr' \in Seq(Nat)
    BY <1>1, <2>1 DEF IInv, TypeOK
  <2> QED
    BY <1>1, <2>2, <2>3 DEF IInv, TypeOK, Items
<1>4. FreshInv'
  BY <1>1 DEF IInv, FreshInv, Fresh
<1>5. SameInv' /\ JumpsKept'
  BY <1>1, <1>2 DEF SameInv, JumpsKept
<1>6. FramesInv'
  BY <1>1, <1>2 DEF IInv, FramesInv, FrameOK
<1>7. NoReentry'
  BY <1>1 DEF IInv, NoReentry
<1> QED
  BY <1>3, <1>4, <1>5, <1>6, <1>7 DEF IInv

(* The top of the data stack under a word that matches tags.               *)
LEMMA Tagged ==
  ASSUME cs \in Seq(Items), NEW w, NEW x, Matches(w), Wants(w) = <<x>>
  PROVE  Len(cs) >= 1 /\ Top(cs).at \in Nat
<1>1. Len(<<x>>) = 1
  OBVIOUS
<1>2. Len(cs) >= 1
  BY <1>1 DEF Matches
<1>3. Top(cs) \in Items
  BY <1>2 DEF Top
<1> QED
  BY <1>2, <1>3 DEF Items

LEMMA TaggedTwice ==
  ASSUME cs \in Seq(Items), NEW w, NEW x, NEW y, Matches(w), Wants(w) = <<x, y>>
  PROVE  Len(cs) >= 2 /\ Top(cs).at \in Nat /\ cs[Len(cs) - 1].at \in Nat
<1>1. Len(<<x, y>>) = 2
  OBVIOUS
<1>2. Len(cs) >= 2
  BY <1>1 DEF Matches
<1>3. Top(cs) \in Items /\ cs[Len(cs) - 1] \in Items
  BY <1>2 DEF Top
<1> QED
  BY <1>2, <1>3 DEF Items

(* Every control word keeps the invariant.                                 *)
LEMMA WordInv == IInv /\ Word => IInv'
<1> SUFFICES ASSUME IInv, Word
             PROVE  IInv'
  OBVIOUS
<1>0. /\ phase = "open" /\ code \in Seq(Cells) /\ Fresh(code) /\ cs \in Seq(Items)
      /\ Here(code) \in Nat /\ Here(code) + 1 \in Nat /\ Len(code) \in Nat
  BY DEF IInv, TypeOK, FreshInv, Word, Items, Here
<1>p. \A k \in Nat : Pop(cs, k) \in Seq(Items)
  BY <1>0, PopType
<1>m. \A g \in Tags : \A a \in Nat : Mark(g, a) \in Items
  BY DEF Mark, Items
<1>1. CASE Other
  <2>1. Append(code, I("word")) \in Seq(Cells) /\ Fresh(Append(code, I("word")))
    BY <1>0, FreshCell DEF Ops, Jumps
  <2>2. Compile("word", Append(code, I("word")), cs) /\ "word" \in Words
    BY <1>1 DEF Other, Words
  <2> QED
    BY <1>0, <2>1, <2>2, WordStep
<1>2. CASE If \/ Ahead
  <2>1. ASSUME NEW o \in {"branch?", "branch0?"}
        PROVE  /\ code \o <<I(o), Arg(1)>> \in Seq(Cells)
               /\ Fresh(code \o <<I(o), Arg(1)>>)
    BY <1>0, FreshPair DEF Ops
  <2>2. Append(cs, Mark("orig", Here(code) + 1)) \in Seq(Items)
    BY <1>0, <1>m DEF Tags
  <2>3. PICK w \in {"if", "ahead"}, o \in {"branch?", "branch0?"} :
          Compile(w, code \o <<I(o), Arg(1)>>, Append(cs, Mark("orig", Here(code) + 1)))
    BY <1>2 DEF If, Ahead, Origin
  <2>4. w \in Words
    BY DEF Words
  <2> QED
    BY <1>0, <2>1, <2>2, <2>3, <2>4, WordStep
<1>3. CASE Else
  <2> DEFINE c == code \o <<I("branch?"), Arg(1)>>
             s == Append(Pop(cs, 1), Mark("orig", Here(code) + 1))
  <2>1. Compile("else", Patch(c, Top(cs).at), s) /\ "else" \in Words
    BY <1>3 DEF Else, Words
  <2>2. Top(cs).at \in Nat
    <3>1. Matches("else") /\ Wants("else") = <<"orig">>
      BY <2>1 DEF Compile, Wants
    <3> QED
      BY <1>0, <3>1, Tagged
  <2>3. Patch(c, Top(cs).at) \in Seq(Cells) /\ Fresh(Patch(c, Top(cs).at))
    <3>1. c \in Seq(Cells) /\ Fresh(c)
      BY <1>0, FreshPair DEF Ops
    <3> HIDE DEF c
    <3> QED
      BY <3>1, <2>2, PatchHere
  <2>4. s \in Seq(Items)
    BY <1>0, <1>p, <1>m DEF Tags
  <2> HIDE DEF c, s
  <2> QED
    BY <1>0, <2>1, <2>3, <2>4, WordStep
<1>4. CASE Then
  <2>1. Compile("then", Patch(code, Top(cs).at), Pop(cs, 1)) /\ "then" \in Words
    BY <1>4 DEF Then, Words
  <2>2. Matches("then") /\ Wants("then") = <<"orig">>
    BY <2>1 DEF Compile, Wants
  <2>3. Top(cs).at \in Nat
    BY <1>0, <2>2, Tagged
  <2>4. Patch(code, Top(cs).at) \in Seq(Cells) /\ Fresh(Patch(code, Top(cs).at))
    BY <1>0, <2>3, PatchHere
  <2> QED
    BY <1>0, <1>p, <2>1, <2>4, WordStep
<1>5. CASE Begin
  <2>1. Append(cs, Mark("dest", Here(code))) \in Seq(Items)
    BY <1>0, <1>m DEF Tags
  <2>2. Compile("begin", code, Append(cs, Mark("dest", Here(code)))) /\ "begin" \in Words
    BY <1>5 DEF Begin, Words
  <2> QED
    BY <1>0, <2>1, <2>2, WordStep
<1>6. CASE Until \/ Again
  <2>1. PICK w \in {"until", "again"}, o \in {"branch?", "branch0?"} : Backward(w, o)
    BY <1>6 DEF Until, Again
  <2> DEFINE c == Append(Append(code, I(o)), Back(Append(code, I(o)), Top(cs).at))
  <2>2. Compile(w, c, Pop(cs, 1)) /\ w \in Words
    BY <2>1 DEF Backward, Words
  <2>3. Matches(w) /\ Wants(w) = <<"dest">>
    BY <2>2 DEF Compile, Wants
  <2>4. Top(cs).at \in Nat
    BY <1>0, <2>3, Tagged
  <2>5. c \in Seq(Cells) /\ Fresh(c)
    BY <1>0, <2>4, BackPair DEF Ops
  <2> HIDE DEF c
  <2> QED
    BY <1>0, <1>p, <2>2, <2>5, WordStep
<1>7. CASE While
  <2> DEFINE c == code \o <<I("branch0?"), Arg(1)>>
             m == Mark("orig", Here(code) + 1)
             s == Pop(cs, 1) \o <<m, Top(cs)>>
  <2>1. PICK w \in {"while", "misplaced"} : Compile(w, c, s)
    BY <1>7 DEF While
  <2>2. w \in Words
    BY DEF Words
  <2>3. c \in Seq(Cells) /\ Fresh(c)
    BY <1>0, FreshPair DEF Ops
  <2>4. Top(cs) \in Items
    <3>1. cs # <<>> /\ Len(cs) \in 1..Len(cs)
      BY <1>0, <1>7 DEF While
    <3> QED
      BY <1>0, <3>1 DEF Top
  <2>5. m \in Items
    BY <1>0, <1>m DEF Tags
  <2> HIDE DEF c, m
  <2>6. s \in Seq(Items)
    <3> DEFINE top == Top(cs)
    <3> HIDE DEF top
    <3>1. <<m, top>> \in Seq(Items)
      BY <2>4, <2>5 DEF top
    <3>2. Pop(cs, 1) \in Seq(Items)
      BY <1>p
    <3>3. Pop(cs, 1) \o <<m, top>> \in Seq(Items)
      BY <3>1, <3>2, ConcatProperties
    <3> QED
      BY <3>3 DEF top
  <2> HIDE DEF s
  <2> QED
    BY <1>0, <2>1, <2>2, <2>3, <2>6, WordStep
<1>8. CASE Repeat
  <2> DEFINE b == Append(Append(code, I("branch?")), Back(Append(code, I("branch?")), Top(cs).at))
             a == cs[Len(cs) - 1].at
  <2>1. Compile("repeat", Patch(b, a), Pop(cs, 2)) /\ "repeat" \in Words
    BY <1>8 DEF Repeat, Words
  <2>2. Matches("repeat") /\ Wants("repeat") = <<"dest", "orig">>
    BY <2>1 DEF Compile, Wants
  <2>3. Top(cs).at \in Nat /\ a \in Nat
    BY <1>0, <2>2, TaggedTwice
  <2>4. b \in Seq(Cells) /\ Fresh(b)
    BY <1>0, <2>3, BackPair DEF Ops
  <2> HIDE DEF a, b
  <2>5. Patch(b, a) \in Seq(Cells) /\ Fresh(Patch(b, a))
    BY <2>3, <2>4, PatchHere
  <2> QED
    BY <1>0, <1>p, <2>1, <2>5, WordStep
<1>9. CASE Do
  <2> DEFINE c == code \o <<I("do"), Arg(0)>>
             s == cs \o <<Mark("leave", Here(code) + 1), Mark("do", Here(c))>>
  <2>1. Compile("do", c, s) /\ "do" \in Words
    BY <1>9 DEF Do, Words
  <2>2. c \in Seq(Cells) /\ Fresh(c)
    BY <1>0, FreshPair DEF Ops
  <2>3. Here(c) \in Nat
    <3> HIDE DEF c
    <3> QED
      BY <2>2 DEF Here
  <2> HIDE DEF c
  <2>4. <<Mark("leave", Here(code) + 1), Mark("do", Here(c))>> \in Seq(Items)
    <3>1. Mark("leave", Here(code) + 1) \in Items /\ Mark("do", Here(c)) \in Items
      BY <1>0, <1>m, <2>3 DEF Tags
    <3> QED
      BY <3>1
  <2>5. s \in Seq(Items)
    BY <1>0, <2>4, ConcatProperties
  <2> HIDE DEF s
  <2> QED
    BY <1>0, <2>1, <2>2, <2>5, WordStep
<1>10. CASE Loop
  <2> DEFINE d == Append(Append(code, I("loop")), Back(Append(code, I("loop")), Top(cs).at))
             c == [d EXCEPT ![cs[Len(cs) - 1].at] = Arg(Here(d))]
  <2>1. Compile("loop", c, Pop(cs, 2)) /\ "loop" \in Words
    BY <1>10 DEF Loop, Words
  <2>2. Matches("loop") /\ Wants("loop") = <<"do">>
    BY <2>1 DEF Compile, Wants
  <2>3. Top(cs).at \in Nat
    BY <1>0, <2>2, Tagged
  <2>4. d \in Seq(Cells) /\ Fresh(d)
    BY <1>0, <2>3, BackPair DEF Ops
  <2>5. c \in Seq(Cells) /\ Fresh(c)
    <3> HIDE DEF d
    <3>1. Here(d) \in Int
      BY <2>4 DEF Here
    <3> QED
      BY <2>4, <3>1, FreshPatch
  <2> HIDE DEF c
  <2> QED
    BY <1>0, <1>p, <2>1, <2>5, WordStep
<1>11. CASE Case
  <2>1. Compile("case", code, Append(cs, Mark("case", 0))) /\ "case" \in Words
    BY <1>11 DEF Case, Words
  <2>2. Append(cs, Mark("case", 0)) \in Seq(Items)
    BY <1>0, <1>m DEF Tags
  <2> QED
    BY <1>0, <2>1, <2>2, WordStep
<1>12. CASE Of
  <2> DEFINE c == code \o <<I("of"), Arg(2)>>
             m == Mark("of", Here(code) + 1)
  <2>1. c \in Seq(Cells) /\ Fresh(c) /\ m \in Items
    BY <1>0, <1>m, FreshPair DEF Ops, Tags
  <2>2. "of" \in Words
    BY DEF Words
  <2>3. CASE Top(cs).tag = "fallthrough"
    <3>1. Compile("of", Patch(c, Top(cs).at), Append(Pop(cs, 1), m))
      BY <1>12, <2>3 DEF Of
    <3>2. Matches("of") /\ Wants("of") = <<"fallthrough", "case">>
      BY <3>1, <2>3 DEF Compile, Wants
    <3>3. Top(cs).at \in Nat
      BY <1>0, <3>2, TaggedTwice
    <3> HIDE DEF c, m
    <3>4. Patch(c, Top(cs).at) \in Seq(Cells) /\ Fresh(Patch(c, Top(cs).at))
      BY <2>1, <3>3, PatchHere
    <3>5. Append(Pop(cs, 1), m) \in Seq(Items)
      BY <1>p, <2>1
    <3> QED
      BY <1>0, <2>2, <3>1, <3>4, <3>5, WordStep
  <2>4. CASE Top(cs).tag # "fallthrough"
    <3>1. Compile("of", c, Append(cs, m))
      BY <1>12, <2>4 DEF Of
    <3> HIDE DEF c, m
    <3>2. Append(cs, m) \in Seq(Items)
      BY <1>0, <2>1
    <3> QED
      BY <1>0, <2>1, <2>2, <3>1, <3>2, WordStep
  <2> QED
    BY <2>3, <2>4
<1>13. CASE EndOf \/ Fallthrough
  <2> DEFINE c == code \o <<I("branch?"), Arg(2)>>
             n == cs[Len(cs) - 1].at
             s == Pop(cs, 2) \o <<Mark("fix", Here(code) + 1), Mark("case", n + 1)>>
             r == Append(Pop(cs, 1), Mark("fallthrough", Here(code) + 1))
  <2>1. PICK w \in {"endof", "fallthrough"} :
          Compile(w, Patch(c, Top(cs).at), IF w = "endof" THEN s ELSE r)
    BY <1>13 DEF EndOf, Fallthrough
  <2>2. Matches(w) /\ Wants(w) = <<"of", "case">> /\ w \in Words
    BY <2>1 DEF Compile, Wants, Words
  <2>3. Top(cs).at \in Nat /\ n \in Nat
    BY <1>0, <2>2, TaggedTwice
  <2>4. c \in Seq(Cells) /\ Fresh(c)
    BY <1>0, FreshPair DEF Ops
  <2> HIDE DEF c, n
  <2>5. Patch(c, Top(cs).at) \in Seq(Cells) /\ Fresh(Patch(c, Top(cs).at))
    BY <2>3, <2>4, PatchHere
  <2>6. s \in Seq(Items)
    <3>1. Mark("fix", Here(code) + 1) \in Items /\ Mark("case", n + 1) \in Items
      BY <1>0, <1>m, <2>3 DEF Tags
    <3>2. <<Mark("fix", Here(code) + 1), Mark("case", n + 1)>> \in Seq(Items)
      BY <3>1
    <3>3. Pop(cs, 2) \in Seq(Items)
      BY <1>p
    <3> QED
      BY <3>2, <3>3, ConcatProperties
  <2>7. r \in Seq(Items)
    <3>1. Mark("fallthrough", Here(code) + 1) \in Items
      BY <1>0, <1>m DEF Tags
    <3>2. Pop(cs, 1) \in Seq(Items)
      BY <1>p
    <3> QED
      BY <3>1, <3>2
  <2> HIDE DEF s, r
  <2> QED
    BY <1>0, <2>1, <2>2, <2>5, <2>6, <2>7, WordStep
<1>14. CASE EndCase
  <2> DEFINE more == IF Top(cs).tag = "fallthrough" THEN 1 ELSE 0
             n    == cs[Len(cs) - more].at
             c    == Append(code, I("drop"))
             s    == Pop(cs, 1 + more)
             fix  == {s[i].at : i \in Len(s) - n + 1..Len(s)}
                       \cup (IF more = 1 THEN {Top(cs).at} ELSE {})
             d    == [a \in DOMAIN c |-> IF a \in fix THEN Arg(Here(c) - a) ELSE c[a]]
  <2>1. Compile("endcase", d, Pop(s, n)) /\ "endcase" \in Words
    BY <1>14 DEF EndCase, Words
  <2>2. Matches("endcase")
    BY <2>1 DEF Compile
  <2>3. more \in Nat /\ n \in Nat
    <3>1. CASE Top(cs).tag = "fallthrough"
      <4>1. Wants("endcase") = <<"fallthrough", "case">>
        BY <3>1 DEF Wants
      <4> QED
        BY <1>0, <2>2, <3>1, <4>1, TaggedTwice
    <3>2. CASE Top(cs).tag # "fallthrough"
      <4>1. Wants("endcase") = <<"case">>
        BY <3>2 DEF Wants
      <4>2. Len(cs) >= 1 /\ Top(cs).at \in Nat
        BY <1>0, <2>2, <4>1, Tagged
      <4>3. more = 0 /\ cs[Len(cs) - 0] = Top(cs)
        BY <1>0, <3>2 DEF Top
      <4> QED
        BY <4>2, <4>3
    <3> QED
      BY <3>1, <3>2
  <2>4. c \in Seq(Cells) /\ Fresh(c)
    BY <1>0, FreshCell DEF Ops, Jumps
  <2> HIDE DEF more, n, c, s, fix
  <2>5. s \in Seq(Items) /\ Pop(s, n) \in Seq(Items)
    <3>1. s \in Seq(Items)
      BY <1>p, <2>3 DEF s
    <3> QED
      BY <2>3, <3>1, PopType
  <2>6. d \in Seq(Cells) /\ Fresh(d)
    BY <2>4, FreshPatches
  <2> HIDE DEF d
  <2> QED
    BY <1>0, <2>1, <2>5, <2>6, WordStep
<1> QED
  BY <1>1, <1>2, <1>3, <1>4, <1>5, <1>6, <1>7, <1>8, <1>9, <1>10, <1>11, <1>12, <1>13, <1>14
     DEF Word

(* A definition that is given back, and one that is finished.              *)
LEMMA UnmatchedInv == IInv /\ Unmatched => IInv'
<1> SUFFICES ASSUME IInv, Unmatched
             PROVE  IInv'
  OBVIOUS
<1>1. /\ phase = "open" /\ phase' = "refused" /\ prog' = <<>> /\ addr' = <<>>
      /\ code' = <<>> /\ cs' = <<>> /\ first' = first /\ work' = work
  BY DEF Unmatched
<1>2. Branches(first) = {} /\ Branches(first)' = {}
  BY <1>1, NoneRun DEF IInv, Branches
<1>3. TypeOK'
  BY <1>1 DEF IInv, TypeOK
<1>4. FreshInv'
  BY <1>1 DEF IInv, FreshInv, Fresh
<1>5. SameInv' /\ JumpsKept'
  BY <1>1, <1>2 DEF SameInv, JumpsKept
<1>6. FramesInv' /\ NoReentry'
  BY <1>1, <1>2 DEF IInv, FramesInv, FrameOK, NoReentry
<1> QED
  BY <1>3, <1>4, <1>5, <1>6 DEF IInv

(* A branch of the finished definition is on its own way.                  *)
LEMMA WayTarget ==
  ASSUME NEW c, NEW a \in Branches(c)
  PROVE  Target(c, a) \in Way(c, a)
BY DEF Way, Places, Closed

(* What comes after a branch on the way is on the way.                     *)
LEMMA WayOn ==
  ASSUME NEW c, NEW a \in Branches(c), NEW b \in Branches(c), b \in Way(c, a),
         c[b].op = "branch?"
  PROVE  Way(c, b) \subseteq Way(c, a)
<1> SUFFICES ASSUME NEW p \in Way(c, b), NEW S \in SUBSET Places(c), Closed(c, a, S)
             PROVE  p \in Places(c) /\ p \in S
  BY DEF Way
<1>1. b \in S
  BY DEF Way
<1>2. Closed(c, b, S)
  BY <1>1 DEF Closed
<1> QED
  BY <1>2 DEF Way

LEMMA SemicolonInv == IInv /\ Semicolon => IInv'
<1> SUFFICES ASSUME IInv, Semicolon
             PROVE  IInv'
  OBVIOUS
<1>1. /\ phase = "open" /\ phase' = "done" /\ prog' = prog /\ addr' = addr
      /\ cs' = Pop(cs, 1) /\ work' = work
      /\ code' = Append(code, I("exit")) /\ first' = code'
  BY DEF Semicolon
<1>2. ASSUME NEW t \in Threads
      PROVE  work[t] \in Seq(Frames) /\ Len(work[t]) = 0
  <2>1. work[t] \in Seq(Frames)
    BY DEF IInv, TypeOK, Frames
  <2>2. ~(1 \in 1..Len(work[t]))
    BY <1>1, NoneRun DEF IInv, FramesInv, FrameOK
  <2> QED
    BY <2>1, <2>2
<1>3. code' \in Seq(Cells) /\ Fresh(code)' /\ Fresh(first)'
  <2>1. code \in Seq(Cells) /\ Fresh(code)
    BY <1>1 DEF IInv, TypeOK, FreshInv
  <2>2. Append(code, I("exit")) \in Seq(Cells) /\ Fresh(Append(code, I("exit")))
    BY <2>1, FreshCell DEF Ops, Jumps
  <2> QED
    BY <1>1, <2>2 DEF Fresh
<1>4. TypeOK'
  <2>1. Pop(cs, 1) \in Seq(Items)
    BY PopType DEF IInv, TypeOK, Items
  <2> QED
    BY <1>1, <1>3, <2>1 DEF IInv, TypeOK, Items
<1>5. FreshInv'
  BY <1>1, <1>3 DEF FreshInv
<1>6. SameInv'
  BY <1>1 DEF SameInv
<1>7. JumpsKept'
  BY <1>1, WayTarget DEF JumpsKept
<1>8. FramesInv' /\ NoReentry'
  BY <1>1, <1>2 DEF FramesInv, NoReentry
<1> QED
  BY <1>4, <1>5, <1>6, <1>7, <1>8 DEF IInv

LEMMA MeetInv == IInv /\ (\E t \in Threads : Meet(t)) => IInv'
<1> SUFFICES ASSUME IInv, NEW t \in Threads, Meet(t)
             PROVE  IInv'
  OBVIOUS
<1>1. PICK a \in DOMAIN code : /\ code[a].op \in DOMAIN Unchecked
                              /\ work' = [work EXCEPT ![t] = <<Frame(a)>>]
  BY DEF Meet
<1>2. UNCHANGED <<prog, addr, code, cs, phase, first>> /\ phase = "done"
  BY DEF Meet
<1>3. /\ code \in Seq(Cells) /\ first \in Seq(Cells) /\ Len(code) = Len(first)
      /\ \A b \in 1..Len(first) : b \notin Branches(first) => code[b].op = first[b].op
  BY <1>2 DEF IInv, TypeOK, SameInv
<1>4. a \in 1..Len(first) /\ a \in Branches(first) /\ a \in Nat
  BY <1>1, <1>3 DEF Branches
<1>5. Branches(first)' = Branches(first)
  BY <1>2 DEF Branches
<1>6. /\ work' \in [Threads -> Seq(Frames)] /\ work'[t] = <<Frame(a)>>
      /\ \A u \in Threads : u # t => work'[u] = work[u]
  <2>1. Frame(a) \in Frames
    BY <1>4 DEF Frame, Frames
  <2> QED
    BY <1>1, <2>1 DEF IInv, TypeOK, Frames
<1>7. TypeOK'
  BY <1>2, <1>6 DEF IInv, TypeOK, Frames
<1>8. FreshInv' /\ SameInv' /\ JumpsKept'
  BY <1>2 DEF IInv, FreshInv, SameInv, JumpsKept
<1>9. FramesInv'
  <2>1. FrameOK(Frame(a), code, first)
    BY <1>4 DEF FrameOK, Frame
  <2>2. \A i \in 1..Len(<<Frame(a)>>) : <<Frame(a)>>[i] = Frame(a) /\ ~(i < Len(<<Frame(a)>>))
    OBVIOUS
  <2> QED
    BY <1>2, <1>6, <2>1, <2>2 DEF IInv, FramesInv
<1>10. NoReentry'
  BY <1>6 DEF IInv, NoReentry
<1> QED
  BY <1>7, <1>8, <1>9, <1>10 DEF IInv

--------------------------------------------------------------------------------
(* ficlVmOptimizeJumpToJump.                                               *)

Stages == {"read", "mark", "offset", "look", "follow", "patch"}

(* A code that the optimizer may make of code c, with o the code as the    *)
(* semicolon left it.                                                      *)
Good(d, c, o) ==
  /\ d \in Seq(Cells) /\ Len(d) = Len(o)
  /\ \A a \in 1..Len(o) : a \notin Branches(o) => d[a].op = o[a].op
  /\ \A a \in Branches(o) : d[a].op \in {o[a].op, Unchecked[o[a].op]}
  /\ \A a \in Branches(o) : Target(d, a) \in Way(o, a)
  /\ \A a \in Branches(o) : c[a].op \notin Jumps => d[a].op \notin Jumps

(* Calls that were in order stay in order.                                 *)
LEMMA CodeStep ==
  ASSUME IInv, phase = "done", UNCHANGED <<prog, addr, cs, phase, first>>, Good(code', code, first),
         work' \in [Threads -> Seq(Frames)]
  PROVE  /\ TypeOK' /\ FreshInv' /\ SameInv' /\ JumpsKept'
         /\ \A g : FrameOK(g, code, first) => FrameOK(g, code', first')
<1>1. TypeOK'
  BY DEF IInv, TypeOK, Good, Frames
<1>2. FreshInv' /\ SameInv' /\ JumpsKept'
  <2>1. FreshInv'
    BY DEF IInv, FreshInv, Fresh
  <2>2. SameInv'
    BY DEF SameInv, Good
  <2>3. JumpsKept'
    BY DEF JumpsKept, Good
  <2> QED
    BY <2>1, <2>2, <2>3
<1>3. ASSUME NEW g, FrameOK(g, code, first)
      PROVE  FrameOK(g, code', first')
  <2>1. g.ip \in Branches(first) /\ first' = first
    BY <1>3 DEF FrameOK
  <2>2. code[g.ip].op \notin Jumps => code'[g.ip].op \notin Jumps
    BY <2>1 DEF Good
  <2> QED
    BY <1>3, <2>1, <2>2 DEF FrameOK
<1> QED
  BY <1>1, <1>2, <1>3

(* The innermost call goes on.                                             *)
LEMMA GotoStep ==
  ASSUME IInv, NEW t \in Threads, work[t] # <<>>, NEW l \in Stages, NEW d \in Int,
         phase = "done", UNCHANGED <<prog, addr, cs, phase, first>>, Good(code', code, first),
         work' = Goto(t, l, d),
         FrameOK([ip |-> Top(work[t]).ip, at |-> l, dest |-> d], code', first)
  PROVE  IInv'
<1> DEFINE n == Len(work[t])
           g == [ip |-> Top(work[t]).ip, at |-> l, dest |-> d]
<1>1. /\ work \in [Threads -> Seq(Frames)] /\ work[t] \in Seq(Frames)
      /\ n \in Nat /\ n >= 1 /\ n \in 1..n /\ work[t][n] \in Frames
  <2>1. work \in [Threads -> Seq(Frames)]
    BY DEF IInv, TypeOK, Frames
  <2>2. work[t] \in Seq(Frames) /\ n \in Nat /\ n >= 1
    BY <2>1
  <2> QED
    BY <2>1, <2>2
<1>2. g \in Frames /\ g.ip = work[t][n].ip /\ g.at = l
  BY <1>1 DEF Frames, Top, Stages
<1> HIDE DEF g
<1>3. work' = [work EXCEPT ![t] = [work[t] EXCEPT ![n] = g]]
  BY <1>1 DEF Goto, g, Top
<1> DEFINE s == [work[t] EXCEPT ![n] = g]
<1>4. /\ s \in Seq(Frames) /\ Len(s) = n
      /\ \A i \in 1..n : s[i] = IF i = n THEN g ELSE work[t][i]
  BY <1>1, <1>2, ExceptSeq
<1>5. /\ work' \in [Threads -> Seq(Frames)] /\ work'[t] = s
      /\ \A u \in Threads : u # t => work'[u] = work[u]
  BY <1>1, <1>3, <1>4
<1> HIDE DEF s, n
<1>6. /\ TypeOK' /\ FreshInv' /\ SameInv' /\ JumpsKept'
      /\ \A h : FrameOK(h, code, first) => FrameOK(h, code', first')
  BY <1>5, CodeStep
<1>7. FramesInv'
  <2>1. ASSUME NEW i \in 1..n
        PROVE  FrameOK(s[i], code', first') /\ (i < n => s[i].at = "follow")
    BY <1>1, <1>4, <1>6 DEF IInv, FramesInv, g, n
  <2>2. ASSUME NEW u \in Threads, NEW i \in 1..Len(work'[u])
        PROVE  FrameOK(work'[u][i], code', first')
               /\ (i < Len(work'[u]) => work'[u][i].at = "follow")
    BY <1>4, <1>5, <1>6, <2>1 DEF IInv, FramesInv
  <2> QED
    BY <2>2 DEF FramesInv
<1>8. NoReentry'
  <2>1. \A i, j \in 1..n : s[i].ip = s[j].ip => i = j
    <3>1. \A i \in 1..n : s[i].ip = work[t][i].ip
      BY <1>2, <1>4
    <3> QED
      BY <1>1, <3>1 DEF IInv, NoReentry, n
  <2> QED
    BY <1>4, <1>5, <2>1 DEF IInv, NoReentry
<1> QED
  BY <1>6, <1>7, <1>8 DEF IInv

(* The innermost call returns.                                             *)
LEMMA ReturnStep ==
  ASSUME IInv, NEW t \in Threads, work[t] # <<>>,
         phase = "done", UNCHANGED <<prog, addr, cs, phase, first>>, Good(code', code, first),
         work' = Return(t)
  PROVE  IInv'
<1> DEFINE n == Len(work[t])
           s == Pop(work[t], 1)
<1>1. /\ work \in [Threads -> Seq(Frames)] /\ work[t] \in Seq(Frames)
      /\ n \in Nat /\ n >= 1
  BY DEF IInv, TypeOK, Frames
<1>2. /\ s \in Seq(Frames) /\ Len(s) = n - 1
      /\ \A i \in 1..n - 1 : s[i] = work[t][i]
  BY <1>1, PopType
<1>3. /\ work' \in [Threads -> Seq(Frames)] /\ work'[t] = s
      /\ \A u \in Threads : u # t => work'[u] = work[u]
  BY <1>1, <1>2 DEF Return
<1> HIDE DEF s
<1>4. /\ TypeOK' /\ FreshInv' /\ SameInv' /\ JumpsKept'
      /\ \A h : FrameOK(h, code, first) => FrameOK(h, code', first')
  BY <1>3, CodeStep
<1>5. FramesInv'
  <2>1. ASSUME NEW i \in 1..n - 1
        PROVE  FrameOK(s[i], code', first') /\ (i < n - 1 => s[i].at = "follow")
    <3>1. i \in 1..Len(work[t]) /\ s[i] = work[t][i]
      BY <1>1, <1>2
    <3>2. FrameOK(s[i], code, first) /\ (i < Len(work[t]) => s[i].at = "follow")
      BY <3>1 DEF IInv, FramesInv
    <3> QED
      BY <1>1, <1>4, <3>2
  <2>2. ASSUME NEW u \in Threads, NEW i \in 1..Len(work'[u])
        PROVE  FrameOK(work'[u][i], code', first')
               /\ (i < Len(work'[u]) => work'[u][i].at = "follow")
    BY <1>2, <1>3, <1>4, <2>1 DEF IInv, FramesInv
  <2> QED
    BY <2>2 DEF FramesInv
<1>6. NoReentry'
  <2>1. \A i, j \in 1..n - 1 : s[i].ip = s[j].ip => i = j
    <3>1. \A i \in 1..n - 1 : i \in 1..Len(work[t]) /\ s[i] = work[t][i]
      BY <1>1, <1>2
    <3> QED
      BY <1>1, <3>1 DEF IInv, NoReentry
  <2> QED
    BY <1>2, <1>3, <2>1 DEF IInv, NoReentry
<1> QED
  BY <1>4, <1>5, <1>6 DEF IInv

(* The innermost call calls itself for the branch it leads to.             *)
LEMMA CallStep ==
  ASSUME IInv, NEW t \in Threads, work[t] # <<>>, NEW d \in Branches(first), d \in Nat,
         phase = "done", UNCHANGED <<prog, addr, code, cs, phase, first>>,
         code[d].op \in Jumps, Good(code', code, first),
         work' = [Goto(t, "follow", d) EXCEPT ![t] = Append(Goto(t, "follow", d)[t], Frame(d))],
         FrameOK([ip |-> Top(work[t]).ip, at |-> "follow", dest |-> d], code, first),
         Top(work[t]).at = "look"
  PROVE  IInv'
<1> DEFINE n == Len(work[t])
           g == [ip |-> Top(work[t]).ip, at |-> "follow", dest |-> d]
           s == [work[t] EXCEPT ![n] = g]
           r == Append(s, Frame(d))
<1>1. /\ work \in [Threads -> Seq(Frames)] /\ work[t] \in Seq(Frames)
      /\ n \in Nat /\ n >= 1 /\ n \in 1..n /\ work[t][n] \in Frames
  <2>1. work \in [Threads -> Seq(Frames)]
    BY DEF IInv, TypeOK, Frames
  <2>2. work[t] \in Seq(Frames) /\ n \in Nat /\ n >= 1
    BY <2>1
  <2> QED
    BY <2>1, <2>2
<1>2. g \in Frames /\ g.ip = work[t][n].ip /\ g.at = "follow"
  BY <1>1 DEF Frames, Top
<1>3. Frame(d) \in Frames /\ Frame(d).ip = d /\ Frame(d).at = "read"
  BY DEF Frame, Frames
<1> HIDE DEF g
<1>4. Goto(t, "follow", d) = [work EXCEPT ![t] = s]
  BY <1>1 DEF Goto, g, Top
<1>5. /\ s \in Seq(Frames) /\ Len(s) = n
      /\ \A i \in 1..n : s[i] = IF i = n THEN g ELSE work[t][i]
  BY <1>1, <1>2, ExceptSeq
<1> HIDE DEF s, n
<1>6. /\ r \in Seq(Frames) /\ Len(r) = n + 1 /\ r[n + 1] = Frame(d)
      /\ \A i \in 1..n : r[i] = s[i]
  BY <1>3, <1>5, AppendProperties
<1> HIDE DEF r
<1>7. /\ work' \in [Threads -> Seq(Frames)] /\ work'[t] = r
      /\ \A u \in Threads : u # t => work'[u] = work[u]
  BY <1>1, <1>4, <1>6 DEF r
<1>8. /\ TypeOK' /\ FreshInv' /\ SameInv' /\ JumpsKept'
      /\ \A h : FrameOK(h, code, first) => FrameOK(h, code', first')
  BY <1>7, CodeStep
<1>9. \A i \in 1..n : s[i].ip = work[t][i].ip /\ s[i].at = "follow"
                     /\ FrameOK(s[i], code, first)
  BY <1>1, <1>2, <1>5 DEF IInv, FramesInv, g, n
<1>10. FramesInv'
  <2>1. FrameOK(Frame(d), code, first)
    BY <1>3 DEF FrameOK
  <2>2. ASSUME NEW i \in 1..n + 1
        PROVE  FrameOK(r[i], code', first') /\ (i < n + 1 => r[i].at = "follow")
    <3>1. CASE i = n + 1
      BY <1>1, <1>6, <1>8, <2>1, <3>1
    <3>2. CASE i # n + 1
      <4>1. i \in 1..n
        BY <1>1, <3>2 DEF n
      <4> QED
        BY <1>6, <1>8, <1>9, <4>1
    <3> QED
      BY <3>1, <3>2
  <2>3. ASSUME NEW u \in Threads, NEW i \in 1..Len(work'[u])
        PROVE  FrameOK(work'[u][i], code', first')
               /\ (i < Len(work'[u]) => work'[u][i].at = "follow")
    <3>1. CASE u = t
      BY <1>6, <1>7, <2>2, <3>1
    <3>2. CASE u # t
      BY <1>7, <1>8, <3>2 DEF IInv, FramesInv
    <3> QED
      BY <3>1, <3>2
  <2> QED
    BY <2>3 DEF FramesInv
<1>11. NoReentry'
  <2>1. \A i \in 1..n : s[i].ip # d
    <3>1. \A i \in 1..n : code[s[i].ip].op \notin Jumps
      BY <1>9 DEF FrameOK
    <3> QED
      BY <3>1
  <2>2. \A i, j \in 1..n : s[i].ip = s[j].ip => i = j
    BY <1>1, <1>9 DEF IInv, NoReentry, n
  <2>3. \A i, j \in 1..n + 1 : r[i].ip = r[j].ip => i = j
    <3>1. \A i \in 1..n + 1 : i \in 1..n \/ i = n + 1
      BY <1>1 DEF n
    <3> QED
      BY <1>3, <1>6, <2>1, <2>2, <3>1
  <2> QED
    BY <1>6, <1>7, <2>3 DEF IInv, NoReentry
<1> QED
  BY <1>8, <1>10, <1>11 DEF IInv

(* Every step of ficlVmOptimizeJumpToJump keeps the invariant.             *)
LEMMA OptimizeInv == IInv /\ (\E t \in Threads : Optimize(t)) => IInv'
<1> SUFFICES ASSUME IInv, NEW t \in Threads, Optimize(t)
             PROVE  IInv'
  OBVIOUS
<1> DEFINE f == Top(work[t])
<1>1. /\ work[t] # <<>> /\ work[t] \in Seq(Frames) /\ Len(work[t]) \in 1..Len(work[t])
      /\ UNCHANGED <<prog, addr, cs, phase, first>>
  <2>1. work[t] \in Seq(Frames) /\ work[t] # <<>>
    BY DEF IInv, TypeOK, Frames, Optimize
  <2> QED
    BY <2>1 DEF Optimize
<1>2. f \in Frames /\ f.dest \in Int /\ f.ip \in Nat /\ FrameOK(f, code, first)
  <2>1. f \in Frames
    BY <1>1 DEF Top
  <2> QED
    BY <1>1, <2>1 DEF IInv, FramesInv, Top, Frames
<1>3. phase = "done"
  BY <1>2, NoneRun DEF IInv, FrameOK
<1>4. /\ code \in Seq(Cells) /\ first \in Seq(Cells) /\ Len(code) = Len(first)
      /\ Fresh(first) /\ Good(code, code, first)
  <2>1. code \in Seq(Cells) /\ first \in Seq(Cells) /\ Len(code) = Len(first) /\ Fresh(first)
    BY <1>3 DEF IInv, TypeOK, FreshInv, SameInv
  <2> QED
    BY <1>3, <2>1 DEF IInv, SameInv, JumpsKept, Good
<1>5. \A a \in Branches(first) :
        /\ a \in 1..Len(first) /\ a + 1 \in 1..Len(first) /\ first[a].op \in Jumps
        /\ first[a + 1].op = "arg" /\ a + 1 \notin Branches(first)
  BY <1>4 DEF Fresh, Branches, Unchecked, Jumps
<1>6. \A a \in Branches(first) : a \in Nat /\ Target(code, a) \in Int
  <2>1. ASSUME NEW a \in Branches(first)
        PROVE  a \in Nat /\ code[a + 1].op = "arg" /\ code[a + 1] \in Cells
    BY <1>3, <1>4, <1>5 DEF IInv, SameInv
  <2>2. \A x \in Cells : x.arg \in Int
    BY DEF Cells
  <2> QED
    BY <2>1, <2>2 DEF Target
<1> HIDE DEF f
<1>7. CASE /\ f.at = "read" /\ UNCHANGED code
           /\ work' = IF code[f.ip].op \in DOMAIN Unchecked THEN Goto(t, AfterRead, 0)
                                                            ELSE Return(t)
  <2>1. FrameOK([ip |-> f.ip, at |-> AfterRead, dest |-> 0], code', first)
    BY <1>2, <1>7 DEF FrameOK, AfterRead
  <2>2. AfterRead \in Stages
    BY DEF AfterRead, Stages
  <2> QED
    BY <1>1, <1>3, <1>4, <1>7, <2>1, <2>2, GotoStep, ReturnStep DEF f
<1>8. CASE /\ f.at = "mark" /\ work' = Goto(t, "offset", 0)
           /\ code' = [code EXCEPT ![f.ip] = I(IF first[f.ip].op = "branch?" THEN "branch"
                                                                            ELSE "branch0")]
  <2> DEFINE x == I(IF first[f.ip].op = "branch?" THEN "branch" ELSE "branch0")
  <2>1. f.ip \in Branches(first) /\ f.ip \in 1..Len(code)
    BY <1>2, <1>4, <1>5 DEF FrameOK
  <2>2. /\ x \in Cells /\ x.op = Unchecked[first[f.ip].op] /\ x.op \notin Jumps
    <3>1. x \in Cells
      BY CellTypes DEF Ops
    <3>2. x.op = Unchecked[first[f.ip].op] /\ x.op \notin Jumps
      BY <1>5, <2>1 DEF I, Unchecked, Jumps
    <3> QED
      BY <3>1, <3>2
  <2> HIDE DEF x
  <2>3. /\ code' \in Seq(Cells) /\ Len(code') = Len(code)
        /\ \A a \in 1..Len(code) : code'[a] = IF a = f.ip THEN x ELSE code[a]
    BY <1>4, <1>8, <2>1, <2>2, ExceptSeq DEF x
  <2>4. Good(code', code, first)
    <3>1. \A a \in 1..Len(first) : a \notin Branches(first) => code'[a].op = first[a].op
      BY <1>4, <2>1, <2>3 DEF Good
    <3>2. \A a \in Branches(first) : code'[a].op \in {first[a].op, Unchecked[first[a].op]}
      BY <1>4, <1>5, <2>2, <2>3 DEF Good
    <3>3. \A a \in Branches(first) : code[a].op \notin Jumps => code'[a].op \notin Jumps
      BY <1>4, <1>5, <2>2, <2>3 DEF Good
    <3>4. ASSUME NEW a \in Branches(first)
          PROVE  Target(code', a) \in Way(first, a)
      <4>1. code'[a + 1] = code[a + 1]
        BY <1>4, <1>5, <2>1, <2>3
      <4> QED
        BY <1>4, <4>1 DEF Good, Target
    <3> QED
      BY <1>4, <2>3, <3>1, <3>2, <3>3, <3>4 DEF Good
  <2>5. FrameOK([ip |-> f.ip, at |-> "offset", dest |-> 0], code', first)
    BY <1>4, <2>1, <2>2, <2>3 DEF FrameOK
  <2> QED
    <3>1. work' = Goto(t, "offset", 0) /\ "offset" \in Stages /\ 0 \in Int
      BY <1>8 DEF Stages
    <3> QED
      BY <1>1, <1>3, <2>4, <2>5, <3>1, GotoStep DEF f
<1>9. CASE f.at = "offset" /\ work' = Goto(t, "look", Target(code, f.ip)) /\ UNCHANGED code
  <2>1. f.ip \in Branches(first) /\ Target(code, f.ip) \in Int
    BY <1>2, <1>6 DEF FrameOK
  <2>2. FrameOK([ip |-> f.ip, at |-> "look", dest |-> Target(code, f.ip)], code', first)
    BY <1>2, <1>4, <1>9, <2>1 DEF FrameOK, Good
  <2> QED
    BY <1>1, <1>3, <1>4, <1>9, <2>1, <2>2, GotoStep DEF f, Stages
<1>10. CASE /\ f.at = "look" /\ UNCHANGED code
            /\ work' = IF ~LeadsOn(f.dest) THEN Return(t)
                       ELSE LET w == Goto(t, "follow", f.dest) IN
                            IF code[f.dest].op = "branch?"
                            THEN [w EXCEPT ![t] = Append(w[t], Frame(f.dest))] ELSE w
  <2>1. CASE ~LeadsOn(f.dest)
    BY <1>1, <1>3, <1>4, <1>10, <2>1, ReturnStep
  <2>2. CASE LeadsOn(f.dest)
    <3>1. /\ f.dest \in 1..Len(first) /\ code[f.dest].op \in {"branch", "branch?"}
      BY <1>4, <2>2 DEF LeadsOn
    <3>2. f.dest \in Branches(first) /\ first[f.dest].op = "branch?"
      <4>1. first[f.dest].op \notin {"branch", "branch0"}
        BY <1>4, <3>1 DEF Fresh
      <4>2. f.dest \in Branches(first)
        <5>1. CASE f.dest \notin Branches(first)
          <6>1. first[f.dest].op = "branch?"
            BY <1>4, <3>1, <4>1, <5>1 DEF Good
          <6> QED
            BY <1>4, <3>1, <6>1 DEF Branches, Unchecked
        <5> QED
          BY <5>1
      <4>3. code[f.dest].op \in {first[f.dest].op, Unchecked[first[f.dest].op]}
        BY <1>4, <4>2 DEF Good
      <4>4. first[f.dest].op # "branch0?"
        BY <3>1, <4>3 DEF Unchecked
      <4> QED
        BY <1>5, <4>2, <4>4 DEF Jumps
    <3>3. FrameOK([ip |-> f.ip, at |-> "follow", dest |-> f.dest], code, first)
      BY <1>2, <1>10, <3>2 DEF FrameOK
    <3>4. CASE code[f.dest].op = "branch?"
      <4>1. work' = [Goto(t, "follow", f.dest) EXCEPT
                       ![t] = Append(Goto(t, "follow", f.dest)[t], Frame(f.dest))]
        BY <1>10, <2>2, <3>4
      <4>2. f.dest \in Nat /\ code[f.dest].op \in Jumps
        BY <3>1, <3>4 DEF Jumps
      <4> QED
        BY <1>1, <1>3, <1>4, <1>10, <3>2, <3>3, <4>1, <4>2, CallStep DEF f
    <3>5. CASE code[f.dest].op # "branch?"
      BY <1>1, <1>2, <1>3, <1>4, <1>10, <2>2, <3>3, <3>5, GotoStep DEF f, Stages
    <3> QED
      BY <3>4, <3>5
  <2> QED
    BY <2>1, <2>2
<1>11. CASE f.at = "follow" /\ work' = Goto(t, "patch", Target(code, f.dest)) /\ UNCHANGED code
  <2>1. /\ f.ip \in Branches(first) /\ f.dest \in Branches(first)
        /\ f.dest \in Way(first, f.ip) /\ first[f.dest].op = "branch?"
    BY <1>2, <1>11 DEF FrameOK
  <2>2. Target(code, f.dest) \in Way(first, f.ip) /\ Target(code, f.dest) \in Int
    BY <1>4, <1>6, <2>1, WayOn DEF Good
  <2>3. FrameOK([ip |-> f.ip, at |-> "patch", dest |-> Target(code, f.dest)], code', first)
    BY <1>2, <1>11, <2>1, <2>2 DEF FrameOK
  <2> QED
    BY <1>1, <1>3, <1>4, <1>11, <2>2, <2>3, GotoStep DEF f, Stages
<1>12. CASE /\ f.at = "patch" /\ work' = Return(t)
            /\ code' = [code EXCEPT ![f.ip + 1] = Arg(f.dest - (f.ip + 1))]
  <2>1. f.ip \in Branches(first) /\ f.dest \in Way(first, f.ip)
    BY <1>2, <1>12 DEF FrameOK
  <2>2. f.dest - (f.ip + 1) \in Int
    BY <1>2
  <2>3. /\ code' \in Seq(Cells) /\ Len(code') = Len(code)
        /\ \A a \in 1..Len(code) : code'[a] = IF a = f.ip + 1 THEN Arg(f.dest - (f.ip + 1))
                                                          ELSE code[a]
    BY <1>4, <1>12, <2>2, PatchCell
  <2>4. Good(code', code, first)
    <3>1. \A a \in 1..Len(first) : a \notin Branches(first) => code'[a].op = first[a].op
      BY <1>4, <1>5, <2>1, <2>3 DEF Good, Arg
    <3>2. \A a \in Branches(first) : code'[a] = code[a]
      BY <1>4, <1>5, <2>1, <2>3
    <3>3. ASSUME NEW a \in Branches(first)
          PROVE  Target(code', a) \in Way(first, a)
      <4>1. CASE a = f.ip
        <5>1. code'[f.ip + 1].arg = f.dest - (f.ip + 1)
          BY <1>4, <1>5, <2>1, <2>3 DEF Arg
        <5>2. Target(code', f.ip) = f.dest
          BY <1>2, <5>1 DEF Target
        <5> QED
          BY <2>1, <4>1, <5>2
      <4>2. CASE a # f.ip
        <5>1. code'[a + 1] = code[a + 1]
          BY <1>2, <1>4, <1>5, <1>6, <2>3, <4>2
        <5> QED
          BY <1>4, <5>1 DEF Good, Target
      <4> QED
        BY <4>1, <4>2
    <3> QED
      BY <1>4, <2>3, <3>1, <3>2, <3>3 DEF Good
  <2> QED
    BY <1>1, <1>3, <1>12, <2>4, ReturnStep
<1> QED
  BY <1>7, <1>8, <1>9, <1>10, <1>11, <1>12 DEF Optimize, f

--------------------------------------------------------------------------------
(* The theorems.                                                           *)

LEMMA Initially == Init => IInv
<1> SUFFICES ASSUME Init
             PROVE  IInv
  OBVIOUS
<1>1. TypeOK
  BY DEF Init, TypeOK, Tags
<1>2. Branches(first) = {} /\ Len(code) = 0 /\ Len(first) = 0
  BY DEF Init, Branches
<1>3. FreshInv /\ SameInv /\ JumpsKept /\ FramesInv /\ NoReentry
  BY <1>2 DEF Init, FreshInv, Fresh, SameInv, JumpsKept, FramesInv, NoReentry
<1> QED
  BY <1>1, <1>3 DEF IInv

LEMMA Stutter == IInv /\ UNCHANGED vars => IInv'
BY DEF IInv, TypeOK, FreshInv, Fresh, SameInv, JumpsKept, FramesInv, NoReentry, vars

LEMMA Invariance == Spec => []IInv
<1>1. IInv /\ [Next]_vars => IInv'
  BY WordInv, UnmatchedInv, SemicolonInv, MeetInv, OptimizeInv, Stutter DEF Next
<1> QED
  BY Initially, <1>1, PTL DEF Spec

(* The state of a definition and of its optimizer keeps its type.          *)
THEOREM TypeCorrect == Spec => []TypeOK
BY Invariance, PTL DEF IInv

(* Whatever the definition and however many tasks rewrite its branches,    *)
(* every branch leads where its original jumps would have led.             *)
THEOREM OptimizerKeepsJumps == Spec => []JumpsKept
BY Invariance, PTL DEF IInv

(* The optimizer never comes back to a branch it is in the middle of.      *)
THEOREM OptimizerEnds == Spec => []NoReentry
BY Invariance, PTL DEF IInv

--------------------------------------------------------------------------------
(* The targets of branches: p is the definition so far, ad the addresses   *)
(* of its words, c its code, s the data stack, and f gives for every item  *)
(* of the stack the word that has pushed it.                               *)

Kinds == {"orig", "dest", "do", "of", "case"}

(* How many structures of a kind are open at a word, before it opens any,  *)
(* and at the end of the definition so far.                                *)
Tally(p, S, i, j) == Cardinality({m \in i..j : p[m] \in S})
Opened(p, k, l)   == Tally(p, Openers[k], 1, l)
Ended(p, k, l)    == Tally(p, Enders[k], 1, l)
Depth(p, k, l)    == Opened(p, k, l - 1) - Ended(p, k, l)
Height(p, k)      == Opened(p, k, Len(p)) - Ended(p, k, Len(p))

(* What the word at i opens is still open at l.                            *)
OpenAt(p, k, i, l) == \A m \in i + 1..l : Depth(p, k, m) > Depth(p, k, i)

Matched(p, k, i, j) ==
  /\ i \in 1..Len(p) /\ j \in i + 1..Len(p)
  /\ p[i] \in Openers[k] /\ p[j] \in Enders[k]
  /\ Depth(p, k, j) = Depth(p, k, i) /\ OpenAt(p, k, i, j - 1)

Pending(p, k) == {i \in 1..Len(p) : p[i] \in Openers[k] /\ OpenAt(p, k, i, Len(p))}

(* The open structures of a kind are one deeper each, and a structure that *)
(* is not open has been ended.                                             *)
Nested(p, k) ==
  /\ \A i \in Pending(p, k) :
       /\ Depth(p, k, i) < Height(p, k)
       /\ Depth(p, k, i) + 1 < Height(p, k) =>
            \E j \in Pending(p, k) : Depth(p, k, j) = Depth(p, k, i) + 1
  /\ \A i \in 1..Len(p) : p[i] \in Openers[k] =>
       i \in Pending(p, k) \/ \E j \in 1..Len(p) : Matched(p, k, i, j)

(* The word at i is directly within the CASE at d.                         *)
Within(p, i, d) ==
  /\ d \in 1..i - 1 /\ p[d] = "case" /\ OpenAt(p, "case", d, i)
  /\ \A e \in d + 1..i : p[e] = "case" => ~OpenAt(p, "case", e, i)

NoOf(p, d, i, j) == \A l \in i..j : p[l] = "of" => ~Within(p, l, d)

(* Where the code of the word behind i begins.                             *)
After(p, ad, c, i) == IF i < Len(p) THEN ad[i + 1] ELSE Here(c)

Lands(p, ad, c, i, j) == Target(c, ad[i]) = After(p, ad, c, j)

(* The branch of the word at i leads where it should.                      *)
Solved(p, ad, c, i) ==
  /\ \A k \in {"orig", "of"} : p[i] \in Openers[k] =>
       \E j \in 1..Len(p) : Matched(p, k, i, j) /\ Lands(p, ad, c, i, j)
  /\ \A k \in {"dest", "do"} : p[i] \in Enders[k] =>
       \E j \in 1..Len(p) : Matched(p, k, j, i) /\ Lands(p, ad, c, i, j)
  /\ p[i] = "do" =>
       \E j \in 1..Len(p) : Matched(p, "do", i, j) /\ c[ad[i] + 1].arg = After(p, ad, c, j)
  /\ p[i] = "endof" =>
       \E d, e \in 1..Len(p) : Within(p, i, d) /\ Matched(p, "case", d, e) /\ Lands(p, ad, c, i, e)
  /\ p[i] = "fallthrough" =>
       \E d, e \in 1..Len(p) :
         /\ Within(p, i, d) /\ Lands(p, ad, c, i, e)
         /\ \/ e > i /\ p[e] = "of" /\ Within(p, e, d) /\ NoOf(p, d, i + 1, e - 1)
            \/ Matched(p, "case", d, e) /\ NoOf(p, d, i + 1, Len(p))

(* Words with an operand cell behind their instruction.                    *)
Wide == {"if", "ahead", "else", "until", "again", "while", "repeat", "do", "loop",
         "of", "endof", "fallthrough"}

Spaced(p, ad, c) ==
  \A i \in 1..Len(p) : p[i] \in Wide =>
    ad[i] + 2 <= Here(c) /\ \A j \in i + 1..Len(p) : ad[i] + 2 <= ad[j]

(* The items of a kind on the stack are those of the open structures.      *)
Listed(p, s, f, k) ==
  /\ \A a, b \in 1..Len(s) : s[a].tag = k /\ s[b].tag = k /\ a < b => f[a] < f[b]
  /\ Pending(p, k) = {f[a] : a \in {b \in 1..Len(s) : s[b].tag = k}}

Branching == {"orig", "do", "of", "fix", "fallthrough"}

(* An item of the stack says where the branch of its word is, or where to  *)
(* branch back to.                                                         *)
ItemOK(p, ad, c, s, f, a) ==
  /\ s[a].tag \in Branching => f[a] \in 1..Len(p) /\ p[f[a]] \in Wide
  /\ s[a].tag \in Branching \ {"do"} => s[a].at = ad[f[a]] + 1
  /\ s[a].tag \in {"dest", "do"} => s[a].at = After(p, ad, c, f[a])
  /\ s[a].tag = "do" => a > 1 /\ s[a - 1] = Mark("leave", ad[f[a]] + 1)
  /\ s[a].tag = "fix" => p[f[a]] = "endof"
  /\ s[a].tag = "case" =>
       /\ s[a].at < a
       /\ \A b \in a - s[a].at..a - 1 : s[b].tag = "fix" /\ Within(p, f[b], f[a])
  /\ s[a].tag = "fallthrough" =>
       /\ p[f[a]] = "fallthrough" /\ a > 1 /\ s[a - 1].tag = "case"
       /\ Within(p, f[a], f[a - 1]) /\ NoOf(p, f[a - 1], f[a] + 1, Len(p))

Waits(s, f, i) == \E a \in 1..Len(s) : s[a].tag \in Branching /\ f[a] = i

Built(p, ad, c, s, f) ==
  /\ Len(ad) = Len(p) /\ f \in [1..Len(s) -> Nat]
  /\ Len(s) > 0 /\ \A a \in 1..Len(s) : s[a].tag = "colon" <=> a = 1
  /\ Spaced(p, ad, c)
  /\ \A k \in Kinds : Nested(p, k) /\ Listed(p, s, f, k)
  /\ \A a \in 1..Len(s) : ItemOK(p, ad, c, s, f, a)
  /\ \A i \in 1..Len(p) : Waits(s, f, i) \/ Solved(p, ad, c, i)

(* While a definition is open, its branches lead where they should or wait *)
(* on the stack; when it is closed, they all lead where they should.       *)
TargetsInv ==
  /\ phase = "open" /\ Structured => \E f : Built(prog, addr, code, cs, f)
  /\ TargetsExact

(* Counting words.                                                         *)
LEMMA FewWords ==
  ASSUME NEW p, NEW S, NEW l \in Nat
  PROVE  /\ IsFiniteSet({m \in 1..l : p[m] \in S})
         /\ Cardinality({m \in 1..l : p[m] \in S}) \in Nat
<1> DEFINE A == {m \in 1..l : p[m] \in S}
<1>1. IsFiniteSet(1..l) /\ A \in SUBSET (1..l)
  BY FS_Interval
<1> HIDE DEF A
<1>2. IsFiniteSet(A) /\ Cardinality(A) \in Nat
  BY <1>1, FS_Subset, FS_CardinalityType
<1> QED BY <1>2 DEF A

(* One word more is counted when it is of the set.                         *)
LEMMA Counted ==
  ASSUME NEW p, NEW S, NEW l \in Nat
  PROVE  /\ Tally(p, S, 1, l) \in Nat
         /\ Tally(p, S, 1, l + 1) = Tally(p, S, 1, l) + (IF p[l + 1] \in S THEN 1 ELSE 0)
<1> DEFINE A == {m \in 1..l : p[m] \in S}
           B == {m \in 1..l + 1 : p[m] \in S}
<1>1. IsFiniteSet(A) /\ Cardinality(A) \in Nat
  BY FewWords
<1>2. CASE p[l + 1] \in S
  <2>1. B = A \cup {l + 1} /\ l + 1 \notin A
    BY <1>2
  <2> HIDE DEF A, B
  <2>2. Cardinality(B) = Cardinality(A) + 1
    BY <1>1, <2>1, FS_AddElement
  <2> QED BY <1>1, <1>2, <2>2 DEF A, B, Tally
<1>3. CASE p[l + 1] \notin S
  <2>1. B = A
    BY <1>3
  <2> QED BY <1>1, <1>3, <2>1 DEF Tally
<1> QED BY <1>2, <1>3

(* The words of a range are those up to its end without those before it.   *)
LEMMA Between ==
  ASSUME NEW p, NEW S, NEW i \in Nat, NEW j \in Nat, i <= j
  PROVE  Tally(p, S, i + 1, j) = Tally(p, S, 1, j) - Tally(p, S, 1, i)
<1> DEFINE A == {m \in 1..i : p[m] \in S}
           B == {m \in i + 1..j : p[m] \in S}
           C == {m \in 1..j : p[m] \in S}
<1>1. C = A \cup B /\ A \cap B = {}
  OBVIOUS
<1>2. IsFiniteSet(A) /\ IsFiniteSet(C)
  BY FewWords
<1>3. IsFiniteSet(B)
  <2>1. B \in SUBSET C
    BY <1>1
  <2> HIDE DEF B, C
  <2> QED BY <1>2, <2>1, FS_Subset
<1> HIDE DEF A, B, C
<1>4. Cardinality(C) = Cardinality(A) + Cardinality(B) - Cardinality({})
  BY <1>1, <1>2, <1>3, FS_Union
<1>5. Cardinality(A) \in Nat /\ Cardinality(B) \in Nat /\ Cardinality({}) = 0
  BY <1>2, <1>3, FS_CardinalityType, FS_EmptySet
<1>6. Cardinality(B) = Cardinality(C) - Cardinality(A)
  BY <1>4, <1>5
<1> QED BY <1>6 DEF A, B, C, Tally

(* Depths are integers.                                                    *)
LEMMA DepthType ==
  ASSUME NEW p, NEW k
  PROVE  /\ \A l \in Nat : Opened(p, k, l) \in Nat /\ Ended(p, k, l) \in Nat
         /\ \A l \in Nat \ {0} : Depth(p, k, l) \in Int
<1>1. \A l \in Nat : Opened(p, k, l) \in Nat /\ Ended(p, k, l) \in Nat
  BY Counted DEF Opened, Ended
<1>2. \A l \in Nat \ {0} : l - 1 \in Nat
  OBVIOUS
<1> QED BY <1>1, <1>2 DEF Depth

(* The parentheses of a kind, counted from the beginning.                  *)
LEMMA EndsMatched ==
  ASSUME NEW k, NEW i \in 1..Len(prog), NEW j \in 1..Len(prog), prog \in Seq(Words)
  PROVE  Ends(k, i, j) <=> Matched(prog, k, i, j)
<1> DEFINE Level(l) == Cardinality({n \in i..l - 1 : prog[n] \in Openers[k]})
                         - Cardinality({n \in i + 1..l : prog[n] \in Enders[k]})
<1>1. ASSUME NEW l \in i + 1..j
      PROVE  Level(l) = Depth(prog, k, l) - Depth(prog, k, i)
  <2>1. /\ l \in Nat /\ l - 1 \in Nat /\ i - 1 \in Nat /\ i \in Nat
        /\ i - 1 <= l - 1 /\ i <= l /\ (i - 1) + 1 = i
    OBVIOUS
  <2>2. Tally(prog, Openers[k], i, l - 1) = Opened(prog, k, l - 1) - Opened(prog, k, i - 1)
    <3>1. Tally(prog, Openers[k], (i - 1) + 1, l - 1)
            = Opened(prog, k, l - 1) - Opened(prog, k, i - 1)
      BY <2>1, Between DEF Opened
    <3> QED BY <2>1, <3>1
  <2>3. Tally(prog, Enders[k], i + 1, l) = Ended(prog, k, l) - Ended(prog, k, i)
    BY <2>1, Between DEF Ended
  <2>4. /\ Opened(prog, k, l - 1) \in Nat /\ Opened(prog, k, i - 1) \in Nat
        /\ Ended(prog, k, l) \in Nat /\ Ended(prog, k, i) \in Nat
    BY <2>1, DepthType
  <2>5. Level(l) = Tally(prog, Openers[k], i, l - 1) - Tally(prog, Enders[k], i + 1, l)
    BY DEF Tally
  <2> HIDE DEF Level
  <2> QED BY <2>2, <2>3, <2>4, <2>5 DEF Depth
<1>2. Depth(prog, k, i) \in Int /\ \A l \in i + 1..j : Depth(prog, k, l) \in Int
  BY DepthType
<1>3. Ends(k, i, j) <=> /\ i < j /\ prog[i] \in Openers[k] /\ prog[j] \in Enders[k]
                        /\ Level(j) = 0 /\ \A l \in i + 1..j - 1 : Level(l) > 0
  BY DEF Ends
<1> HIDE DEF Level
<1>4. i < j => (Level(j) = 0 <=> Depth(prog, k, j) = Depth(prog, k, i))
  BY <1>1, <1>2
<1>5. (\A l \in i + 1..j - 1 : Level(l) > 0) <=> OpenAt(prog, k, i, j - 1)
  BY <1>1, <1>2 DEF OpenAt
<1> QED BY <1>3, <1>4, <1>5 DEF Matched

--------------------------------------------------------------------------------
(* One more word.                                                          *)

Extended(p, q, w) ==
  /\ p \in Seq(Words) /\ q \in Seq(Words) /\ w \in Words
  /\ Len(q) = Len(p) + 1 /\ q[Len(p) + 1] = w
  /\ \A i \in 1..Len(p) : q[i] = p[i]

(* How one more word changes the depths of a kind.                         *)
Deepened(p, q, w, k) ==
  /\ \A l \in 1..Len(p) : Depth(q, k, l) = Depth(p, k, l) /\ Depth(p, k, l) \in Int
  /\ Depth(q, k, Len(p) + 1) = Height(p, k) - (IF w \in Enders[k] THEN 1 ELSE 0)
  /\ Height(q, k) = Height(p, k) + (IF w \in Openers[k] THEN 1 ELSE 0)
                                 - (IF w \in Enders[k] THEN 1 ELSE 0)
  /\ Height(p, k) \in Int

LEMMA DepthExtended ==
  ASSUME NEW p, NEW q, NEW w, Extended(p, q, w), NEW k
  PROVE  Deepened(p, q, w, k)
<1> DEFINE n == Len(p)
<1>1. /\ n \in Nat /\ Len(q) = n + 1 /\ q[n + 1] = w /\ \A i \in 1..n : q[i] = p[i]
  BY DEF Extended
<1> HIDE DEF n
<1>2. \A l \in 0..n : Opened(q, k, l) = Opened(p, k, l) /\ Ended(q, k, l) = Ended(p, k, l)
  <2>1. ASSUME NEW l \in 0..n, NEW S
        PROVE  Tally(q, S, 1, l) = Tally(p, S, 1, l)
    <3>1. {m \in 1..l : q[m] \in S} = {m \in 1..l : p[m] \in S}
      BY <1>1
    <3> QED BY <3>1 DEF Tally
  <2> QED BY <2>1 DEF Opened, Ended
<1>3. \A l \in Nat : Opened(p, k, l) \in Nat /\ Ended(p, k, l) \in Nat
  BY DepthType
<1>4. /\ Opened(q, k, n + 1) = Opened(p, k, n) + (IF w \in Openers[k] THEN 1 ELSE 0)
      /\ Ended(q, k, n + 1) = Ended(p, k, n) + (IF w \in Enders[k] THEN 1 ELSE 0)
  <2>1. /\ Opened(q, k, n + 1) = Opened(q, k, n) + (IF q[n + 1] \in Openers[k] THEN 1 ELSE 0)
        /\ Ended(q, k, n + 1) = Ended(q, k, n) + (IF q[n + 1] \in Enders[k] THEN 1 ELSE 0)
    <3>1. ASSUME NEW S
          PROVE  Tally(q, S, 1, n + 1) = Tally(q, S, 1, n) + (IF q[n + 1] \in S THEN 1 ELSE 0)
      BY <1>1, Counted
    <3> QED BY <3>1 DEF Opened, Ended
  <2>2. n \in 0..n
    BY <1>1
  <2> QED BY <1>1, <1>2, <2>1, <2>2
<1>5. \A l \in 1..n : l \in 0..n /\ l - 1 \in 0..n /\ l \in Nat \ {0}
  BY <1>1
<1>6. \A l \in 1..n : Depth(q, k, l) = Depth(p, k, l) /\ Depth(p, k, l) \in Int
  BY <1>2, <1>5, DepthType DEF Depth
<1>7. Height(p, k) = Opened(p, k, n) - Ended(p, k, n)
  BY DEF Height, n
<1>8. Height(q, k) = Opened(q, k, n + 1) - Ended(q, k, n + 1)
  BY <1>1 DEF Height
<1>9. Depth(q, k, n + 1) = Opened(q, k, n) - Ended(q, k, n + 1)
  BY <1>1 DEF Depth
<1>10. n \in 0..n /\ Opened(p, k, n) \in Nat /\ Ended(p, k, n) \in Nat
  <2>1. n \in Nat
    BY <1>1
  <2> QED BY <2>1, <1>3
<1>11. Opened(q, k, n) = Opened(p, k, n)
  BY <1>2, <1>10
<1>12. /\ Depth(q, k, n + 1) = Height(p, k) - (IF w \in Enders[k] THEN 1 ELSE 0)
       /\ Height(p, k) \in Int
  BY <1>4, <1>7, <1>9, <1>10, <1>11
<1>13. Height(q, k) = Height(p, k) + (IF w \in Openers[k] THEN 1 ELSE 0)
                                   - (IF w \in Enders[k] THEN 1 ELSE 0)
  BY <1>4, <1>7, <1>8, <1>10
<1> QED BY <1>6, <1>12, <1>13 DEF n, Deepened

(* What has been opened, ended and enclosed stays so.                      *)
LEMMA Steady ==
  ASSUME NEW p, NEW q, NEW w, Extended(p, q, w)
  PROVE  /\ \A k \in Kinds : \A i \in 1..Len(p) : \A l \in 0..Len(p) :
              OpenAt(q, k, i, l) <=> OpenAt(p, k, i, l)
         /\ \A k \in Kinds : \A i, j \in 1..Len(p) : Matched(q, k, i, j) <=> Matched(p, k, i, j)
         /\ \A i \in 1..Len(p) : \A d : Within(q, i, d) <=> Within(p, i, d)
<1> DEFINE n == Len(p)
<1>1. /\ n \in Nat /\ Len(q) = n + 1 /\ \A i \in 1..n : q[i] = p[i]
  BY DEF Extended
<1>2. ASSUME NEW k PROVE \A l \in 1..n : Depth(q, k, l) = Depth(p, k, l)
  <2>1. Deepened(p, q, w, k)
    BY DepthExtended
  <2> QED BY <2>1 DEF Deepened
<1> HIDE DEF n
<1>3. ASSUME NEW k PROVE \A i \in 1..n : \A l \in 0..n : OpenAt(q, k, i, l) <=> OpenAt(p, k, i, l)
  <2>1. ASSUME NEW i \in 1..n, NEW l \in 0..n PROVE \A m \in i + 1..l : m \in 1..n
    BY <1>1
  <2> QED BY <1>2, <2>1 DEF OpenAt
<1>4. ASSUME NEW k, NEW i \in 1..n, NEW j \in 1..n
      PROVE  Matched(q, k, i, j) <=> Matched(p, k, i, j)
  <2>1. j - 1 \in 0..n /\ Len(p) = n
    BY <1>1 DEF n
  <2>2. OpenAt(q, k, i, j - 1) <=> OpenAt(p, k, i, j - 1)
    BY <1>3, <2>1
  <2> QED BY <1>1, <1>2, <2>1, <2>2 DEF Matched
<1>5. ASSUME NEW i \in 1..n, NEW d PROVE Within(q, i, d) <=> Within(p, i, d)
  <2>1. /\ i \in 0..n /\ \A e : e \in 1..i - 1 => e \in 1..n
        /\ d \in 1..i - 1 => \A e \in d + 1..i : e \in 1..n
    BY <1>1
  <2> QED BY <1>1, <1>3, <2>1 DEF Within
<1> QED BY <1>3, <1>4, <1>5 DEF n

(* A word that ends a structure ends the last one that is open.            *)
LEMMA Brackets ==
  ASSUME NEW p, NEW q, NEW w, Extended(p, q, w), NEW k, Nested(p, k), NEW t,
         w \in Enders[k] => t \in Pending(p, k) /\ \A i \in Pending(p, k) : i <= t
  PROVE  /\ Pending(q, k) = (IF w \in Enders[k] THEN Pending(p, k) \ {t} ELSE Pending(p, k))
                              \cup (IF w \in Openers[k] THEN {Len(p) + 1} ELSE {})
         /\ w \in Enders[k] => Matched(q, k, t, Len(p) + 1)
         /\ Nested(q, k)
<1> DEFINE n == Len(p)
           D(l) == Depth(p, k, l)
           E(l) == Depth(q, k, l)
           H == Height(p, k)
           e == IF w \in Enders[k] THEN 1 ELSE 0
           o == IF w \in Openers[k] THEN 1 ELSE 0
<1>1. /\ n \in Nat /\ Len(q) = n + 1 /\ q[n + 1] = w /\ \A i \in 1..n : q[i] = p[i]
  BY DEF Extended
<1>2. /\ \A l \in 1..n : E(l) = D(l) /\ D(l) \in Int
      /\ E(n + 1) = H - e /\ Height(q, k) = H + o - e /\ H \in Int
  <2>1. Deepened(p, q, w, k)
    BY DepthExtended
  <2> QED BY <2>1 DEF Deepened
<1>3. e \in {0, 1} /\ o \in {0, 1} /\ (e = 1 <=> w \in Enders[k]) /\ (o = 1 <=> w \in Openers[k])
  OBVIOUS
<1>4. /\ \A i \in 1..n : i \in Pending(p, k) <=> p[i] \in Openers[k] /\ \A l \in i + 1..n : D(l) > D(i)
      /\ \A i \in 1..n + 1 : i \in Pending(q, k) <=>
           q[i] \in Openers[k] /\ \A l \in i + 1..n + 1 : E(l) > E(i)
      /\ Pending(p, k) \subseteq 1..n /\ Pending(q, k) \subseteq 1..n + 1
  BY <1>1 DEF Pending, OpenAt
<1>5. \A i \in Pending(p, k) : /\ i \in 1..n /\ D(i) < H
                               /\ D(i) + 1 < H => \E j \in Pending(p, k) : D(j) = D(i) + 1
  BY <1>4 DEF Nested
<1> HIDE DEF n, D, E, H, e, o
<1>6. ASSUME NEW i \in Pending(p, k), NEW j \in Pending(p, k), i < j PROVE D(i) < D(j)
  <2>1. j \in i + 1..n
    BY <1>4, <1>6
  <2> QED BY <1>4, <2>1, <1>2
<1>7. ASSUME w \in Enders[k] PROVE t \in Pending(p, k) /\ D(t) = H - 1 /\ e = 1 /\ t \in 1..n
  <2>1. t \in Pending(p, k) /\ t \in 1..n /\ D(t) \in Int /\ H \in Int /\ D(t) < H
    BY <1>2, <1>4, <1>5, <1>7
  <2>2. ASSUME D(t) + 1 < H PROVE FALSE
    <3>1. PICK j \in Pending(p, k) : D(j) = D(t) + 1
      BY <1>5, <2>1, <2>2
    <3>2. j <= t /\ j \in 1..n
      BY <1>4, <1>7
    <3>3. j # t
      BY <2>1, <3>1
    <3>4. D(j) < D(t)
      BY <1>6, <2>1, <3>2, <3>3
    <3> QED BY <2>1, <3>1, <3>4
  <2> QED BY <1>3, <1>7, <2>1, <2>2
<1>8. ASSUME NEW i \in 1..n
      PROVE  i \in Pending(q, k) <=> i \in Pending(p, k) /\ H - e > D(i)
  <2>1. i \in 1..n + 1 /\ q[i] = p[i] /\ E(i) = D(i)
    BY <1>1, <1>2
  <2>2. (\A l \in i + 1..n + 1 : E(l) > D(i)) <=> (\A l \in i + 1..n : D(l) > D(i)) /\ H - e > D(i)
    <3>1. \A l \in i + 1..n : l \in 1..n /\ l \in i + 1..n + 1 /\ E(l) = D(l)
      BY <1>1, <1>2
    <3>2. \A l \in i + 1..n + 1 : l = n + 1 \/ l \in i + 1..n
      BY <1>1
    <3>3. n + 1 \in i + 1..n + 1
      BY <1>1
    <3> QED BY <1>2, <3>1, <3>2, <3>3
  <2> QED BY <1>4, <2>1, <2>2
<1>9. n + 1 \in Pending(q, k) <=> w \in Openers[k]
  <2>1. n + 1 \in 1..n + 1 /\ \A l \in (n + 1) + 1..n + 1 : FALSE
    BY <1>1
  <2> QED BY <1>1, <1>4, <2>1
<1>10. ASSUME NEW i \in Pending(p, k) PROVE H - e > D(i) <=> ~(w \in Enders[k] /\ i = t)
  <2>1. i \in 1..n /\ D(i) \in Int /\ D(i) < H /\ H \in Int
    BY <1>2, <1>5
  <2>2. CASE w \notin Enders[k]
    BY <1>3, <2>1, <2>2
  <2>3. CASE w \in Enders[k]
    <3>1. i # t => D(i) < D(t)
      <4>1. i <= t /\ t \in 1..n /\ t \in Pending(p, k)
        BY <1>7, <2>3
      <4> QED BY <1>6, <2>1, <4>1
    <3>2. D(t) \in Int /\ D(t) = H - 1 /\ e = 1
      BY <1>2, <1>7, <2>3
    <3> QED BY <2>1, <2>3, <3>1, <3>2
  <2> QED BY <2>2, <2>3
<1>11. Pending(q, k) = (IF w \in Enders[k] THEN Pending(p, k) \ {t} ELSE Pending(p, k))
                         \cup (IF w \in Openers[k] THEN {n + 1} ELSE {})
  <2>1. \A i \in 1..n : i \in Pending(q, k) <=> i \in Pending(p, k) /\ ~(w \in Enders[k] /\ i = t)
    BY <1>8, <1>10
  <2>2. \A i \in 1..n + 1 : i = n + 1 \/ i \in 1..n
    BY <1>1
  <2>3. n + 1 \notin 1..n
    BY <1>1
  <2> QED BY <1>4, <1>9, <2>1, <2>2, <2>3
<1>12. ASSUME w \in Enders[k] PROVE Matched(q, k, t, n + 1)
  <2>1. /\ t \in 1..n /\ D(t) = H - 1 /\ e = 1 /\ t \in Pending(p, k)
        /\ t \in 1..Len(q) /\ n + 1 \in t + 1..Len(q) /\ (n + 1) - 1 = n
    BY <1>1, <1>7, <1>12
  <2>2. E(n + 1) = E(t)
    BY <1>2, <2>1
  <2>3. OpenAt(q, k, t, n)
    <3>1. \A l \in t + 1..n : l \in 1..n
      BY <1>1, <2>1
    <3>2. \A l \in t + 1..n : E(l) > E(t)
      BY <1>2, <1>4, <2>1, <3>1
    <3> QED BY <3>2 DEF OpenAt, E
  <2> QED BY <1>1, <1>4, <1>12, <2>1, <2>2, <2>3 DEF Matched, E
<1>13. ASSUME NEW i \in Pending(q, k)
       PROVE  /\ E(i) < Height(q, k)
              /\ E(i) + 1 < Height(q, k) => \E j \in Pending(q, k) : E(j) = E(i) + 1
  <2>1. CASE i = n + 1
    BY <1>2, <1>3, <1>9, <1>13, <2>1
  <2>2. CASE i \in 1..n
    <3>1. i \in Pending(p, k) /\ D(i) \in Int /\ H \in Int /\ E(i) = D(i) /\ H - e > D(i)
      BY <1>2, <1>8, <1>13, <2>2
    <3>2. ASSUME E(i) + 1 < Height(q, k) PROVE \E j \in Pending(q, k) : E(j) = E(i) + 1
      <4>1. CASE D(i) + 1 < H - e
        <5>1. PICK j \in Pending(p, k) : D(j) = D(i) + 1
          BY <1>3, <1>5, <3>1, <4>1
        <5>2. j \in 1..n /\ j \in Pending(q, k)
          BY <1>4, <1>8, <4>1, <5>1
        <5> QED BY <1>2, <3>1, <5>1, <5>2
      <4>2. CASE ~(D(i) + 1 < H - e)
        <5>1. D(i) + 1 = H - e
          BY <1>3, <3>1, <4>2
        <5>2. o = 1
          BY <1>2, <1>3, <3>1, <3>2, <5>1
        <5>3. n + 1 \in Pending(q, k) /\ E(n + 1) = E(i) + 1
          BY <1>2, <1>3, <1>9, <3>1, <5>1, <5>2
        <5> QED BY <5>3
      <4> QED BY <4>1, <4>2
    <3>3. E(i) < Height(q, k)
      BY <1>2, <1>3, <3>1
    <3> QED BY <3>2, <3>3
  <2>3. i \in 1..n + 1
    BY <1>4, <1>13
  <2>4. i = n + 1 \/ i \in 1..n
    BY <1>1, <2>3
  <2> QED BY <2>1, <2>2, <2>4
<1>14. ASSUME NEW i \in 1..n + 1, q[i] \in Openers[k]
       PROVE  i \in Pending(q, k) \/ \E j \in 1..n + 1 : Matched(q, k, i, j)
  <2>1. CASE i = n + 1
    BY <1>1, <1>9, <1>14, <2>1
  <2>2. CASE i \in 1..n
    <3>1. p[i] \in Openers[k]
      BY <1>1, <1>14, <2>2
    <3>2. CASE i \in Pending(p, k)
      <4>1. CASE w \in Enders[k] /\ i = t
        BY <1>1, <1>12, <4>1
      <4>2. CASE ~(w \in Enders[k] /\ i = t)
        BY <1>8, <1>10, <2>2, <3>2, <4>2
      <4> QED BY <4>1, <4>2
    <3>3. CASE \E j \in 1..n : Matched(p, k, i, j)
      <4>1. PICK j \in 1..n : Matched(p, k, i, j)
        BY <3>3
      <4>2. Matched(q, k, i, j)
        <5>1. \A l \in i + 1..j - 1 : l \in 1..n
          BY <1>1, <2>2
        <5>2. OpenAt(q, k, i, j - 1)
          BY <1>2, <2>2, <4>1, <5>1 DEF Matched, OpenAt, D, E
        <5>3. i \in 1..Len(q) /\ (j \in i + 1..Len(p) => j \in i + 1..Len(q))
          BY <1>1, <2>2 DEF n
        <5> QED BY <1>1, <1>2, <2>2, <4>1, <5>2, <5>3 DEF Matched, D, E
      <4>3. j \in 1..n + 1
        BY <1>1
      <4> QED BY <4>2, <4>3
    <3>4. \A h \in 1..n : p[h] \in Openers[k] =>
            h \in Pending(p, k) \/ \E j \in 1..n : Matched(p, k, h, j)
      BY Zenon DEF Nested, n
    <3>5. i \in Pending(p, k) \/ \E j \in 1..n : Matched(p, k, i, j)
      BY <2>2, <3>1, <3>4
    <3> QED BY <3>2, <3>3, <3>5
  <2> QED BY <1>1, <2>1, <2>2
<1>15. Nested(q, k)
  BY <1>1, <1>13, <1>14 DEF Nested, E
<1> QED BY <1>11, <1>12, <1>15 DEF n

(* A word is directly within one CASE at most, and in none that is ended.  *)
LEMMA WithinOne ==
  ASSUME NEW p, NEW i \in Nat, NEW c, NEW d, Within(p, i, c), Within(p, i, d)
  PROVE  c = d
<1>1. c \in 1..i - 1 /\ d \in 1..i - 1
  BY DEF Within
<1>2. ASSUME NEW x, NEW y, Within(p, i, x), Within(p, i, y), x < y PROVE FALSE
  <2>1. x \in 1..i - 1 /\ y \in 1..i - 1
    BY <1>2 DEF Within
  <2>2. y \in x + 1..i
    BY <1>2, <2>1
  <2> QED BY <1>2, <2>2 DEF Within
<1>3. ~(c < d) /\ ~(d < c)
  BY <1>2
<1> QED BY <1>1, <1>3

(* Nothing is within a CASE behind its end.                                *)
LEMMA WithinEnded ==
  ASSUME NEW p, NEW i \in Nat, NEW d, NEW e, Matched(p, "case", d, e), e <= i
  PROVE  ~Within(p, i, d)
<1>1. d \in Nat /\ e \in d + 1..i /\ Depth(p, "case", e) = Depth(p, "case", d)
  BY DEF Matched
<1>2. Depth(p, "case", e) \in Int
  <2>1. e \in Nat \ {0}
    BY <1>1
  <2> QED BY <2>1, DepthType
<1> QED BY <1>1, <1>2 DEF Within, OpenAt

--------------------------------------------------------------------------------
(* The data stack under a word: the items up to m stay.                    *)

Stays(s, f, r, g, m) ==
  /\ s \in Seq(Items) /\ r \in Seq(Items)
  /\ f \in [1..Len(s) -> Nat] /\ g \in [1..Len(r) -> Nat]
  /\ m \in Nat /\ m <= Len(s) /\ m <= Len(r)
  /\ \A a \in 1..m : r[a] = s[a] /\ g[a] = f[a]

(* Above them a word takes an item off and puts one on, as its kind says;  *)
(* an item of a structure that the word does not end may move.             *)
Turns(n, w, s, f, r, g, m, k) ==
  /\ \A a, b \in m + 1..Len(s) : s[a].tag = k /\ s[b].tag = k => a = b
  /\ \A a, b \in m + 1..Len(r) : r[a].tag = k /\ r[b].tag = k => a = b
  /\ w \in Enders[k] => \E a \in m + 1..Len(s) : s[a].tag = k
  /\ w \in Openers[k] => \E b \in m + 1..Len(r) : r[b].tag = k /\ g[b] = n + 1
  /\ \A a \in m + 1..Len(s) : s[a].tag = k =>
       w \in Enders[k] \/ \E b \in m + 1..Len(r) : r[b].tag = k /\ g[b] = f[a]
  /\ \A b \in m + 1..Len(r) : r[b].tag = k =>
       \/ w \in Openers[k] /\ g[b] = n + 1
       \/ w \notin Enders[k] /\ \E a \in m + 1..Len(s) : s[a].tag = k /\ g[b] = f[a]

(* The stack keeps listing the open structures; what a word takes off, it  *)
(* ends.                                                                   *)
LEMMA ListedStep ==
  ASSUME NEW p, NEW q, NEW w, Extended(p, q, w), NEW k, Nested(p, k),
         NEW s, NEW f, NEW r, NEW g, NEW m, Stays(s, f, r, g, m), Listed(p, s, f, k),
         Turns(Len(p), w, s, f, r, g, m, k)
  PROVE  /\ Nested(q, k) /\ Listed(q, r, g, k)
         /\ w \in Enders[k] => \A a \in m + 1..Len(s) :
              s[a].tag = k => Matched(q, k, f[a], Len(p) + 1)
<1> DEFINE n == Len(p)
           L == Len(s)
           R == Len(r)
           P == Pending(p, k)
           Q == Pending(q, k)
<1>1. /\ n \in Nat /\ L \in Nat /\ R \in Nat /\ m \in Nat /\ m <= L /\ m <= R
      /\ \A a \in 1..m : r[a] = s[a] /\ g[a] = f[a]
      /\ f \in [1..L -> Nat] /\ g \in [1..R -> Nat] /\ P \subseteq 1..n
  BY DEF Extended, Stays, Pending
<1>2. /\ \A a, b \in 1..L : s[a].tag = k /\ s[b].tag = k /\ a < b => f[a] < f[b]
      /\ \A i : i \in P <=> \E a \in 1..L : s[a].tag = k /\ f[a] = i
  BY DEF Listed
<1>3. /\ \A a, b \in m + 1..L : s[a].tag = k /\ s[b].tag = k => a = b
      /\ \A a, b \in m + 1..R : r[a].tag = k /\ r[b].tag = k => a = b
      /\ w \in Enders[k] => \E a \in m + 1..L : s[a].tag = k
      /\ w \in Openers[k] => \E b \in m + 1..R : r[b].tag = k /\ g[b] = n + 1
      /\ \A a \in m + 1..L : s[a].tag = k =>
           w \in Enders[k] \/ \E b \in m + 1..R : r[b].tag = k /\ g[b] = f[a]
      /\ \A b \in m + 1..R : r[b].tag = k =>
           \/ w \in Openers[k] /\ g[b] = n + 1
           \/ w \notin Enders[k] /\ \E a \in m + 1..L : s[a].tag = k /\ g[b] = f[a]
  BY Zenon DEF Turns
<1>4. PICK t : w \in Enders[k] => \E a \in m + 1..L : s[a].tag = k /\ t = f[a]
  BY <1>3
<1>5. w \in Enders[k] => t \in P /\ \A i \in P : i <= t
  <2>1. SUFFICES ASSUME w \in Enders[k] PROVE t \in P /\ \A i \in P : i <= t
    OBVIOUS
  <2>2. PICK a \in m + 1..L : s[a].tag = k /\ t = f[a]
    BY <1>4, <2>1
  <2>3. a \in 1..L /\ a \in Nat /\ a > m
    BY <1>1
  <2>4. t \in P
    BY <1>2, <2>2, <2>3
  <2>5. ASSUME NEW i \in P PROVE i <= t
    <3>1. PICK b \in 1..L : s[b].tag = k /\ f[b] = i
      BY <1>2, <2>5
    <3>2. b <= m \/ b \in m + 1..L
      BY <1>1
    <3>3. b = a \/ b < a
      BY <1>1, <1>3, <2>2, <2>3, <3>1, <3>2
    <3>4. b < a => f[b] < f[a]
      BY <1>2, <2>2, <2>3, <3>1
    <3>5. i \in Nat /\ t \in Nat
      BY <1>1, <2>4
    <3> QED BY <2>2, <3>1, <3>3, <3>4, <3>5
  <2> QED BY <2>4, <2>5
<1>6. /\ Q = (IF w \in Enders[k] THEN P \ {t} ELSE P)
               \cup (IF w \in Openers[k] THEN {n + 1} ELSE {})
      /\ w \in Enders[k] => Matched(q, k, t, n + 1)
      /\ Nested(q, k)
  BY <1>5, Brackets
<1> HIDE DEF n, L, R, P, Q
<1>7. \A a \in m + 1..L : s[a].tag = k /\ w \in Enders[k] => f[a] = t
  BY <1>3, <1>4
<1>8. \A a, b \in 1..R : r[a].tag = k /\ r[b].tag = k /\ a < b => g[a] < g[b]
  <2>1. SUFFICES ASSUME NEW a \in 1..R, NEW b \in 1..R, r[a].tag = k, r[b].tag = k, a < b
                 PROVE  g[a] < g[b]
    OBVIOUS
  <2>2. a <= m
    <3>1. a > m => a \in m + 1..R /\ b \in m + 1..R
      BY <1>1, <2>1
    <3>2. a > m => a = b
      BY <1>3, <2>1, <3>1
    <3> QED BY <1>1, <2>1, <3>2
  <2>3. a \in 1..m /\ a \in 1..L /\ s[a].tag = k /\ g[a] = f[a] /\ f[a] \in P /\ f[a] \in 1..n
    <3>1. a \in 1..m /\ a \in 1..L
      BY <1>1, <2>1, <2>2
    <3>2. s[a].tag = k /\ g[a] = f[a]
      BY <1>1, <2>1, <3>1
    <3> QED BY <1>1, <1>2, <3>1, <3>2
  <2>4. CASE b <= m
    <3>1. b \in 1..m /\ b \in 1..L
      BY <1>1, <2>1, <2>4
    <3>2. s[b].tag = k /\ g[b] = f[b]
      BY <1>1, <2>1, <3>1
    <3> QED BY <1>2, <2>1, <2>3, <3>1, <3>2
  <2>5. CASE b > m
    <3>1. b \in m + 1..R
      BY <1>1, <2>1, <2>5
    <3>2. g[b] = n + 1 \/ \E c \in m + 1..L : s[c].tag = k /\ g[b] = f[c]
      BY <1>3, <2>1, <3>1
    <3>3. ASSUME NEW c \in m + 1..L, s[c].tag = k, g[b] = f[c] PROVE f[a] < f[c]
      <4>1. c \in 1..L /\ a < c
        BY <1>1, <2>2, <2>3
      <4> QED BY <1>2, <2>3, <3>3, <4>1
    <3> QED BY <1>1, <2>3, <3>2, <3>3
  <2> QED BY <1>1, <2>1, <2>4, <2>5
<1>9. ASSUME NEW b \in 1..R, r[b].tag = k PROVE g[b] \in Q
  <2>1. CASE b <= m
    <3>1. b \in 1..m /\ b \in 1..L
      BY <1>1, <2>1
    <3>2. s[b].tag = k /\ g[b] = f[b]
      BY <1>1, <1>9, <3>1
    <3>3. f[b] \in P
      BY <1>2, <3>1, <3>2
    <3>4. w \in Enders[k] => f[b] # t
      <4>1. SUFFICES ASSUME w \in Enders[k] PROVE f[b] # t
        OBVIOUS
      <4>2. PICK a \in m + 1..L : s[a].tag = k /\ t = f[a]
        BY <1>4, <4>1
      <4>3. a \in 1..L /\ b < a
        BY <1>1, <2>1
      <4>4. f[b] < f[a] /\ f[a] \in Nat /\ f[b] \in Nat
        BY <1>1, <1>2, <3>1, <3>2, <4>2, <4>3
      <4> QED BY <4>2, <4>4
    <3> QED BY <1>6, <3>2, <3>3, <3>4
  <2>2. CASE b > m
    <3>1. b \in m + 1..R
      BY <1>1, <2>2
    <3>2. CASE w \in Openers[k] /\ g[b] = n + 1
      BY <1>6, <3>2
    <3>3. CASE w \notin Enders[k] /\ \E a \in m + 1..L : s[a].tag = k /\ g[b] = f[a]
      <4>1. PICK a \in m + 1..L : s[a].tag = k /\ g[b] = f[a]
        BY <3>3
      <4>2. a \in 1..L
        BY <1>1
      <4> QED BY <1>2, <1>6, <3>3, <4>1, <4>2
    <3> QED BY <1>3, <1>9, <3>1, <3>2, <3>3
  <2> QED BY <1>1, <2>1, <2>2
<1>10. ASSUME NEW i \in Q PROVE \E b \in 1..R : r[b].tag = k /\ g[b] = i
  <2>1. CASE i \in P /\ ~(w \in Enders[k] /\ i = t)
    <3>1. PICK a \in 1..L : s[a].tag = k /\ f[a] = i
      BY <1>2, <2>1
    <3>2. CASE a <= m
      <4>1. a \in 1..m /\ a \in 1..R
        BY <1>1, <3>2
      <4> QED BY <1>1, <3>1, <4>1
    <3>3. CASE a > m
      <4>1. a \in m + 1..L
        BY <1>1, <3>3
      <4>2. w \notin Enders[k]
        BY <1>7, <2>1, <3>1, <4>1
      <4>3. PICK b \in m + 1..R : r[b].tag = k /\ g[b] = f[a]
        BY <1>3, <3>1, <4>1, <4>2
      <4>4. b \in 1..R
        BY <1>1
      <4> QED BY <3>1, <4>3, <4>4
    <3> QED BY <1>1, <3>2, <3>3
  <2>2. CASE i = n + 1 /\ w \in Openers[k]
    <3>1. PICK b \in m + 1..R : r[b].tag = k /\ g[b] = n + 1
      BY <1>3, <2>2
    <3>2. b \in 1..R
      BY <1>1
    <3> QED BY <2>2, <3>1, <3>2
  <2> QED BY <1>6, <1>10, <2>1, <2>2
<1>11. Listed(q, r, g, k)
  <2>1. Q = {g[a] : a \in {b \in 1..R : r[b].tag = k}}
    BY <1>9, <1>10
  <2> QED BY <1>8, <2>1 DEF Listed, Q, R
<1> QED BY <1>6, <1>7, <1>11 DEF n, L

(* The case on top encloses the next word.                                 *)
LEMMA WithinTop ==
  ASSUME NEW p, NEW q, NEW w, Extended(p, q, w), w \notin {"case", "endcase"},
         NEW s \in Seq(Items), NEW f \in [1..Len(s) -> Nat], Nested(p, "case"), Listed(p, s, f, "case"),
         NEW a \in 1..Len(s), s[a].tag = "case", \A b \in a + 1..Len(s) : s[b].tag # "case"
  PROVE  Within(q, Len(p) + 1, f[a])
<1> DEFINE n == Len(p)
           P == Pending(p, "case")
<1>1. w \notin Enders["case"] /\ w \notin Openers["case"] /\ Openers["case"] = {"case"}
  BY DEF Enders, Openers
<1>2. Pending(q, "case") = P
  <2>1. w \in Enders["case"] => 0 \in Pending(p, "case") /\ \A i \in Pending(p, "case") : i <= 0
    BY <1>1
  <2>2. Pending(q, "case") = (IF w \in Enders["case"] THEN Pending(p, "case") \ {0}
                                                    ELSE Pending(p, "case"))
                              \cup (IF w \in Openers["case"] THEN {Len(p) + 1} ELSE {})
    BY ONLY <2>1, Extended(p, q, w), Nested(p, "case"), Brackets
  <2> QED BY <1>1, <2>2
<1>3. /\ n \in Nat /\ Len(q) = n + 1 /\ q[n + 1] = w /\ Len(s) \in Nat
      /\ \A i \in 1..n : q[i] = p[i]
  BY DEF Extended
<1>4. \A i : i \in P <=> i \in 1..n + 1 /\ q[i] = "case" /\ OpenAt(q, "case", i, n + 1)
  BY <1>1, <1>2, <1>3 DEF Pending
<1>5. P \subseteq 1..n
  BY DEF Pending
<1>6. \A i : i \in P <=> \E b \in 1..Len(s) : s[b].tag = "case" /\ f[b] = i
  BY DEF Listed
<1>7. f[a] \in P
  BY <1>6
<1> HIDE DEF n, P
<1>8. ASSUME NEW e \in f[a] + 1..n + 1, q[e] = "case", OpenAt(q, "case", e, n + 1) PROVE FALSE
  <2>1. f[a] \in 1..n /\ f[a] \in Nat
    BY <1>5, <1>7
  <2>2. e \in 1..n + 1 /\ f[a] < e
    BY <1>3, <2>1
  <2>3. e \in P
    BY <1>4, <1>8, <2>2
  <2>4. PICK b \in 1..Len(s) : s[b].tag = "case" /\ f[b] = e
    BY <1>6, <2>3
  <2>5. b # a
    BY <2>1, <2>2, <2>4
  <2>6. ~(b < a)
    <3>1. b < a => f[b] < f[a]
      BY <2>4 DEF Listed
    <3> QED BY <2>1, <2>2, <2>4, <3>1
  <2>7. ~(b > a)
    <3>1. b > a => b \in a + 1..Len(s)
      BY <1>3
    <3> QED BY <2>4, <3>1
  <2> QED BY <1>3, <2>5, <2>6, <2>7
<1>9. f[a] \in 1..(n + 1) - 1
  BY <1>3, <1>5, <1>7
<1> QED BY <1>4, <1>7, <1>8, <1>9 DEF Within, n

--------------------------------------------------------------------------------
(* One more word: its address is HERE, and its code is added.              *)

Grown(p, ad, c, q, bd, d, w) ==
  /\ Extended(p, q, w)
  /\ ad \in Seq(Nat) /\ bd \in Seq(Nat) /\ Len(ad) = Len(p) /\ Len(bd) = Len(p) + 1
  /\ bd[Len(p) + 1] = Here(c) /\ \A i \in 1..Len(p) : bd[i] = ad[i]
  /\ c \in Seq(Cells) /\ d \in Seq(Cells)
  /\ Len(d) >= Len(c) /\ (w \in Wide => Len(d) >= Len(c) + 2)

(* Only words with an operand cell have a branch.                          *)
LEMMA Wideness ==
  ASSUME NEW w, w \notin Wide
  PROVE  /\ \A k \in {"orig", "of"} : w \notin Openers[k]
         /\ \A k \in {"dest", "do"} : w \notin Enders[k]
         /\ w # "do" /\ w # "endof" /\ w # "fallthrough"
BY DEF Wide, Openers, Enders

(* The code behind an earlier word begins where it did.                    *)
LEMMA AfterStays ==
  ASSUME NEW p, NEW ad, NEW c, NEW q, NEW bd, NEW d, NEW w, Grown(p, ad, c, q, bd, d, w),
         NEW j \in 1..Len(p)
  PROVE  After(q, bd, d, j) = After(p, ad, c, j)
<1>1. /\ Len(p) \in Nat /\ Len(q) = Len(p) + 1 /\ bd[Len(p) + 1] = Here(c)
      /\ \A i \in 1..Len(p) : bd[i] = ad[i]
  BY DEF Grown, Extended
<1>2. CASE j = Len(p)
  BY <1>1, <1>2 DEF After
<1>3. CASE j < Len(p)
  <2>1. j + 1 \in 1..Len(p)
    BY <1>1, <1>3
  <2> QED BY <1>1, <1>3, <2>1 DEF After
<1> QED BY <1>1, <1>2, <1>3

(* A branch that leads where it should goes on doing so.                   *)
LEMMA SolvedStays ==
  ASSUME NEW p, NEW ad, NEW c, NEW q, NEW bd, NEW d, NEW w, Grown(p, ad, c, q, bd, d, w),
         NEW i \in 1..Len(p), d[ad[i] + 1] = c[ad[i] + 1], Solved(p, ad, c, i)
  PROVE  Solved(q, bd, d, i)
<1> DEFINE n == Len(p)
<1>1. /\ n \in Nat /\ Len(q) = n + 1 /\ bd[i] = ad[i] /\ \A j \in 1..n : q[j] = p[j]
      /\ Extended(p, q, w)
  BY DEF Grown, Extended
<1>2. /\ \A k \in Kinds : \A h, j \in 1..n : Matched(p, k, h, j) => Matched(q, k, h, j)
      /\ \A j \in 1..n : \A e : Within(q, j, e) <=> Within(p, j, e)
  BY <1>1, Steady
<1>3. \A j \in 1..n : /\ After(q, bd, d, j) = After(p, ad, c, j)
                      /\ Lands(q, bd, d, i, j) <=> Lands(p, ad, c, i, j)
  <2>1. ASSUME NEW j \in 1..n PROVE After(q, bd, d, j) = After(p, ad, c, j)
    BY AfterStays
  <2>2. Target(d, bd[i]) = Target(c, ad[i])
    BY <1>1 DEF Target
  <2> QED BY <2>1, <2>2 DEF Lands
<1>4. \A j \in 1..n : j \in 1..n + 1
  BY <1>1
<1>5. \A e : \A h \in Nat : \A j \in 0..n : NoOf(p, e, h, j) /\ h > 0 => NoOf(q, e, h, j)
  <2>1. ASSUME NEW h \in Nat, NEW j \in 0..n, h > 0 PROVE \A l \in h..j : l \in 1..n
    BY <1>1, <2>1
  <2> QED BY <1>1, <1>2, <2>1 DEF NoOf
<1>6. ASSUME NEW k \in {"orig", "of"}, q[i] \in Openers[k]
      PROVE  \E j \in 1..n + 1 : Matched(q, k, i, j) /\ Lands(q, bd, d, i, j)
  <2>1. PICK j \in 1..n : Matched(p, k, i, j) /\ Lands(p, ad, c, i, j)
    BY <1>1, <1>6 DEF Solved
  <2> QED BY <1>2, <1>3, <1>4, <2>1 DEF Kinds
<1>7. ASSUME NEW k \in {"dest", "do"}, q[i] \in Enders[k]
      PROVE  \E j \in 1..n + 1 : Matched(q, k, j, i) /\ Lands(q, bd, d, i, j)
  <2>1. PICK j \in 1..n : Matched(p, k, j, i) /\ Lands(p, ad, c, i, j)
    BY <1>1, <1>7 DEF Solved
  <2> QED BY <1>2, <1>3, <1>4, <2>1 DEF Kinds
<1>8. ASSUME q[i] = "do"
      PROVE  \E j \in 1..n + 1 : Matched(q, "do", i, j) /\ d[bd[i] + 1].arg = After(q, bd, d, j)
  <2>1. PICK j \in 1..n : Matched(p, "do", i, j) /\ c[ad[i] + 1].arg = After(p, ad, c, j)
    BY <1>1, <1>8 DEF Solved
  <2> QED BY <1>1, <1>2, <1>3, <1>4, <2>1 DEF Kinds
<1>9. ASSUME q[i] = "endof"
      PROVE  \E e, j \in 1..n + 1 : Within(q, i, e) /\ Matched(q, "case", e, j)
                                    /\ Lands(q, bd, d, i, j)
  <2>1. PICK e \in 1..n, j \in 1..n :
          Within(p, i, e) /\ Matched(p, "case", e, j) /\ Lands(p, ad, c, i, j)
    BY <1>1, <1>9 DEF Solved
  <2> QED BY <1>2, <1>3, <1>4, <2>1 DEF Kinds
<1>10. ASSUME q[i] = "fallthrough"
       PROVE  \E e, j \in 1..n + 1 :
                /\ Within(q, i, e) /\ Lands(q, bd, d, i, j)
                /\ \/ j > i /\ q[j] = "of" /\ Within(q, j, e) /\ NoOf(q, e, i + 1, j - 1)
                   \/ Matched(q, "case", e, j) /\ NoOf(q, e, i + 1, n + 1)
  <2>1. PICK e \in 1..n, j \in 1..n :
          /\ Within(p, i, e) /\ Lands(p, ad, c, i, j)
          /\ \/ j > i /\ p[j] = "of" /\ Within(p, j, e) /\ NoOf(p, e, i + 1, j - 1)
             \/ Matched(p, "case", e, j) /\ NoOf(p, e, i + 1, n)
    BY <1>1, <1>10 DEF Solved
  <2>2. /\ Within(q, i, e) /\ Lands(q, bd, d, i, j) /\ e \in 1..n + 1 /\ j \in 1..n + 1
        /\ i + 1 \in Nat /\ i + 1 > 0 /\ n \in 0..n /\ j - 1 \in 0..n
    BY <1>1, <1>2, <1>3, <1>4, <2>1
  <2>3. CASE j > i /\ p[j] = "of" /\ Within(p, j, e) /\ NoOf(p, e, i + 1, j - 1)
    BY <1>1, <1>2, <1>5, <2>2, <2>3
  <2>4. CASE Matched(p, "case", e, j) /\ NoOf(p, e, i + 1, n)
    <3>1. Matched(q, "case", e, j) /\ NoOf(q, e, i + 1, n)
      BY <1>2, <1>5, <2>2, <2>4 DEF Kinds
    <3>2. ~Within(q, n + 1, e)
      <4>1. n + 1 \in Nat /\ j <= n + 1
        BY <1>1
      <4> QED BY <3>1, <4>1, WithinEnded
    <3>3. NoOf(q, e, i + 1, n + 1)
      <4>1. \A l \in i + 1..n + 1 : l = n + 1 \/ l \in i + 1..n
        BY <1>1
      <4> QED BY <3>1, <3>2, <4>1 DEF NoOf
    <3> QED BY <2>2, <3>1, <3>3
  <2> QED BY <2>1, <2>3, <2>4
<1> HIDE DEF n
<1> QED BY <1>1, <1>6, <1>7, <1>8, <1>9, <1>10 DEF Solved

(* The words keep their operand cells to themselves.                       *)
LEMMA SpacedStep ==
  ASSUME NEW p, NEW ad, NEW c, NEW q, NEW bd, NEW d, NEW w, Grown(p, ad, c, q, bd, d, w),
         Spaced(p, ad, c)
  PROVE  Spaced(q, bd, d)
<1> DEFINE n == Len(p)
<1>1. /\ n \in Nat /\ Len(q) = n + 1 /\ bd[n + 1] = Here(c) /\ q[n + 1] = w
      /\ \A i \in 1..n : bd[i] = ad[i] /\ q[i] = p[i] /\ ad[i] \in Nat
      /\ Here(c) = Len(c) + 1 /\ Here(d) = Len(d) + 1 /\ Len(c) \in Nat /\ Len(d) \in Nat
      /\ Len(d) >= Len(c) /\ (w \in Wide => Len(d) >= Len(c) + 2)
  BY DEF Grown, Extended, Here
<1>2. \A i \in 1..n : p[i] \in Wide =>
        ad[i] + 2 <= Here(c) /\ \A j \in i + 1..n : ad[i] + 2 <= ad[j]
  BY DEF Spaced
<1> HIDE DEF n
<1>3. ASSUME NEW i \in 1..n + 1, q[i] \in Wide
      PROVE  bd[i] + 2 <= Here(d) /\ \A j \in i + 1..n + 1 : bd[i] + 2 <= bd[j]
  <2>1. CASE i = n + 1
    <3>1. \A j \in i + 1..n + 1 : FALSE
      BY <1>1, <2>1
    <3>2. bd[i] + 2 <= Here(d)
      BY <1>1, <1>3, <2>1
    <3> QED BY <3>1, <3>2
  <2>2. CASE i \in 1..n
    <3>1. /\ p[i] \in Wide /\ bd[i] = ad[i] /\ ad[i] \in Nat /\ ad[i] + 2 <= Here(c)
          /\ \A j \in i + 1..n : ad[i] + 2 <= ad[j]
      BY <1>1, <1>2, <1>3, <2>2
    <3>2. \A j \in i + 1..n + 1 : j = n + 1 \/ (j \in i + 1..n /\ j \in 1..n)
      BY <1>1, <2>2
    <3>3. bd[i] + 2 <= Here(d)
      BY <1>1, <3>1
    <3> QED BY <1>1, <3>1, <3>2, <3>3
  <2> QED BY <1>1, <2>1, <2>2
<1> QED BY <1>1, <1>3 DEF Spaced

(* The items that stay are as they were.                                   *)
LEMMA ItemStays ==
  ASSUME NEW p, NEW ad, NEW c, NEW q, NEW bd, NEW d, NEW w, Grown(p, ad, c, q, bd, d, w),
         NEW s, NEW f, NEW r, NEW g, NEW m, Stays(s, f, r, g, m), Built(p, ad, c, s, f),
         w = "of" => /\ m > 0 /\ s[m].tag = "case"
                     /\ \A b \in m + 1..Len(s) : s[b].tag # "case",
         NEW a \in 1..m
  PROVE  ItemOK(q, bd, d, r, g, a)
<1> DEFINE n == Len(p)
<1>1. /\ n \in Nat /\ Len(q) = n + 1 /\ q[n + 1] = w
      /\ \A i \in 1..n : q[i] = p[i] /\ bd[i] = ad[i]
      /\ \A i \in 1..n : i \in 1..n + 1
      /\ Extended(p, q, w)
  BY DEF Grown, Extended
<1>2. /\ \A i \in 1..n : \A e : Within(q, i, e) <=> Within(p, i, e)
      /\ \A j \in 1..n : After(q, bd, d, j) = After(p, ad, c, j)
  BY <1>1, Steady, AfterStays
<1>3. /\ m \in Nat /\ m <= Len(s) /\ Len(s) \in Nat
      /\ \A b \in 1..m : r[b] = s[b] /\ g[b] = f[b]
      /\ \A b \in 1..m : b \in 1..Len(s) /\ ItemOK(p, ad, c, s, f, b)
      /\ r[a] = s[a] /\ g[a] = f[a]
      /\ s \in Seq(Items) /\ f \in [1..Len(s) -> Nat]
  BY DEF Stays, Built
<1>4. \A k \in Kinds : s[a].tag = k => f[a] \in 1..n
  <2>1. SUFFICES ASSUME NEW k \in Kinds, s[a].tag = k PROVE f[a] \in 1..n
    OBVIOUS
  <2>2. Listed(p, s, f, k) /\ a \in 1..Len(s)
    BY <1>3 DEF Built
  <2>3. f[a] \in Pending(p, k)
    BY <2>1, <2>2 DEF Listed
  <2> QED BY <2>3 DEF Pending
<1>5. /\ ItemOK(p, ad, c, s, f, a) /\ s[a].at \in Nat /\ a \in Nat
  <2>1. a \in 1..Len(s) /\ s \in Seq(Items)
    BY <1>3
  <2>2. s[a] \in Items
    BY <2>1
  <2> QED BY <1>3, <2>2 DEF Items
<1> HIDE DEF n
<1>6. /\ r[a].tag \in Branching => g[a] \in 1..n + 1 /\ q[g[a]] \in Wide
      /\ r[a].tag \in Branching \ {"do"} => r[a].at = bd[g[a]] + 1
      /\ r[a].tag = "fix" => q[g[a]] = "endof"
  BY <1>1, <1>3, <1>5 DEF ItemOK, Branching, n
<1>7. /\ r[a].tag \in {"dest", "do"} => r[a].at = After(q, bd, d, g[a])
      /\ r[a].tag = "do" => a > 1 /\ r[a - 1] = Mark("leave", bd[g[a]] + 1)
  <2>1. ASSUME r[a].tag \in {"dest", "do"}
        PROVE  r[a].at = After(q, bd, d, g[a]) /\ bd[g[a]] = ad[f[a]]
    <3>1. f[a] \in 1..n
      BY <1>3, <1>4, <2>1 DEF Kinds
    <3>2. s[a].at = After(p, ad, c, f[a])
      BY <1>3, <1>5, <2>1 DEF ItemOK
    <3> QED BY <1>1, <1>2, <1>3, <3>1, <3>2
  <2>2. ASSUME r[a].tag = "do" PROVE a > 1 /\ r[a - 1] = Mark("leave", bd[g[a]] + 1)
    <3>1. a > 1 /\ s[a - 1] = Mark("leave", ad[f[a]] + 1)
      BY <1>3, <1>5, <2>2 DEF ItemOK
    <3>2. a - 1 \in 1..m
      BY <1>3, <3>1
    <3> QED BY <1>3, <2>1, <2>2, <3>1, <3>2
  <2> QED BY <2>1, <2>2
<1>8. ASSUME r[a].tag = "case"
      PROVE  /\ r[a].at < a
             /\ \A b \in a - r[a].at..a - 1 : r[b].tag = "fix" /\ Within(q, g[b], g[a])
  <2>1. /\ s[a].at < a
        /\ \A b \in a - s[a].at..a - 1 : s[b].tag = "fix" /\ Within(p, f[b], f[a])
    BY <1>3, <1>5, <1>8 DEF ItemOK
  <2>2. ASSUME NEW b \in a - s[a].at..a - 1 PROVE r[b].tag = "fix" /\ Within(q, g[b], g[a])
    <3>1. b \in 1..m
      BY <1>3, <1>5, <2>1
    <3>2. r[b] = s[b] /\ g[b] = f[b] /\ ItemOK(p, ad, c, s, f, b) /\ s[b].tag = "fix"
      BY <1>3, <2>1, <3>1
    <3>3. f[b] \in 1..n
      BY <3>2 DEF ItemOK, Branching, n
    <3> QED BY <1>2, <1>3, <2>1, <3>2, <3>3
  <2> QED BY <1>3, <2>1, <2>2
<1>9. ASSUME r[a].tag = "fallthrough"
      PROVE  /\ q[g[a]] = "fallthrough" /\ a > 1 /\ r[a - 1].tag = "case"
             /\ Within(q, g[a], g[a - 1]) /\ NoOf(q, g[a - 1], g[a] + 1, n + 1)
  <2>1. /\ p[f[a]] = "fallthrough" /\ a > 1 /\ s[a - 1].tag = "case"
        /\ Within(p, f[a], f[a - 1]) /\ NoOf(p, f[a - 1], f[a] + 1, n) /\ f[a] \in 1..n
    BY <1>3, <1>5, <1>9 DEF ItemOK, Branching, n
  <2>2. a - 1 \in 1..m
    BY <1>3, <2>1
  <2>3. r[a - 1] = s[a - 1] /\ g[a - 1] = f[a - 1] /\ g[a] = f[a]
    BY <1>3, <2>2
  <2>4. ASSUME w = "of" PROVE ~Within(q, n + 1, f[a - 1])
    <3>1. /\ m > 0 /\ m \in 1..Len(s) /\ s[m].tag = "case"
          /\ \A b \in m + 1..Len(s) : s[b].tag # "case"
      BY <1>3, <2>4
    <3>2. Nested(p, "case") /\ Listed(p, s, f, "case")
      BY DEF Built, Kinds
    <3>3. Within(q, n + 1, f[m])
      <4>1. w \notin {"case", "endcase"}
        BY <2>4
      <4> QED BY <1>1, <1>3, <3>1, <3>2, <4>1, WithinTop DEF n
    <3>4. a # m
      BY <1>3, <1>9, <3>1
    <3>5. a - 1 \in 1..Len(s) /\ a - 1 < m
      BY <1>3, <2>2, <3>4
    <3>6. f[a - 1] < f[m] /\ f[m] \in Nat /\ f[a - 1] \in Nat
      BY <1>3, <2>1, <3>1, <3>2, <3>5 DEF Listed
    <3>7. n + 1 \in Nat
      BY <1>1
    <3>8. Within(q, n + 1, f[a - 1]) => f[a - 1] = f[m]
      BY <3>3, <3>7, WithinOne
    <3> QED BY <3>6, <3>8
  <2>5. NoOf(q, f[a - 1], f[a] + 1, n + 1)
    <3>1. SUFFICES ASSUME NEW l \in f[a] + 1..n + 1, q[l] = "of" PROVE ~Within(q, l, f[a - 1])
      BY DEF NoOf
    <3>2. CASE l = n + 1
      BY <1>1, <2>4, <3>1, <3>2
    <3>3. CASE l \in 1..n
      <4>1. l \in f[a] + 1..n /\ p[l] = "of"
        BY <1>1, <2>1, <3>1, <3>3
      <4>2. ~Within(p, l, f[a - 1])
        BY <2>1, <4>1 DEF NoOf
      <4> QED BY <1>2, <3>3, <4>2
    <3>4. l = n + 1 \/ l \in 1..n
      BY <1>1, <2>1
    <3> QED BY <3>2, <3>3, <3>4
  <2> QED BY <1>1, <1>2, <2>1, <2>3, <2>5
<1> QED BY <1>1, <1>6, <1>7, <1>8, <1>9 DEF ItemOK, n

(* What a word has to do: the branches of the items that it takes off then *)
(* lead where they should, no other branch changes, and the items that it  *)
(* puts on and its own branch are right.                                   *)
Does(p, ad, c, q, bd, d, w, s, f, r, g, m) ==
  /\ Grown(p, ad, c, q, bd, d, w) /\ Stays(s, f, r, g, m) /\ Built(p, ad, c, s, f)
  /\ w = "of" => /\ m > 0 /\ s[m].tag = "case"
                 /\ \A b \in m + 1..Len(s) : s[b].tag # "case"
  /\ m > 0 /\ \A b \in m + 1..Len(r) : r[b].tag # "colon"
  /\ \A k \in Kinds : Turns(Len(p), w, s, f, r, g, m, k)
  /\ \A x \in 1..Len(c) : \/ d[x] = c[x]
                          \/ \E a \in m + 1..Len(s) :
                               s[a].tag \in Branching /\ x = ad[f[a]] + 1
  /\ \A a \in m + 1..Len(s) : s[a].tag \in Branching => Solved(q, bd, d, f[a])
  /\ \A b \in m + 1..Len(r) : ItemOK(q, bd, d, r, g, b)
  /\ Waits(r, g, Len(p) + 1) \/ Solved(q, bd, d, Len(p) + 1)

(* Then the definition with the new word is as it should be.               *)
LEMMA BuiltStep ==
  ASSUME NEW p, NEW ad, NEW c, NEW q, NEW bd, NEW d, NEW w, NEW s, NEW f, NEW r, NEW g, NEW m,
         Does(p, ad, c, q, bd, d, w, s, f, r, g, m)
  PROVE  Built(q, bd, d, r, g)
<1>0. /\ Grown(p, ad, c, q, bd, d, w) /\ Stays(s, f, r, g, m) /\ Built(p, ad, c, s, f)
      /\ w = "of" => /\ m > 0 /\ s[m].tag = "case"
                     /\ \A b \in m + 1..Len(s) : s[b].tag # "case"
      /\ m > 0 /\ \A b \in m + 1..Len(r) : r[b].tag # "colon"
      /\ \A k \in Kinds : Turns(Len(p), w, s, f, r, g, m, k)
      /\ \A x \in 1..Len(c) : \/ d[x] = c[x]
                              \/ \E a \in m + 1..Len(s) :
                                   s[a].tag \in Branching /\ x = ad[f[a]] + 1
      /\ \A a \in m + 1..Len(s) : s[a].tag \in Branching => Solved(q, bd, d, f[a])
      /\ \A b \in m + 1..Len(r) : ItemOK(q, bd, d, r, g, b)
      /\ Waits(r, g, Len(p) + 1) \/ Solved(q, bd, d, Len(p) + 1)
  BY Zenon DEF Does
<1>s. Stays(s, f, r, g, m) /\ m > 0
  BY <1>0
<1> DEFINE n == Len(p)
<1>1. /\ n \in Nat /\ Len(q) = n + 1 /\ Len(bd) = n + 1
      /\ \A i \in 1..n : q[i] = p[i] /\ bd[i] = ad[i] /\ ad[i] \in Nat
      /\ Extended(p, q, w) /\ Len(c) \in Nat
  BY <1>0 DEF Grown, Extended
<1>2. /\ m \in Nat /\ m <= Len(s) /\ Len(s) \in Nat /\ m <= Len(r) /\ Len(r) \in Nat
      /\ \A b \in 1..m : r[b] = s[b] /\ g[b] = f[b]
      /\ \A b \in 1..m : b \in 1..Len(s) /\ b \in 1..Len(r)
      /\ g \in [1..Len(r) -> Nat]
  BY <1>s DEF Stays
<1>3. \A b \in 1..Len(r) : b \in 1..m \/ b \in m + 1..Len(r)
  BY <1>2
<1>4. \A k \in Kinds : Nested(q, k) /\ Listed(q, r, g, k)
  <2>1. SUFFICES ASSUME NEW k \in Kinds PROVE Nested(q, k) /\ Listed(q, r, g, k)
    OBVIOUS
  <2>2. Nested(p, k) /\ Listed(p, s, f, k)
    BY <1>0 DEF Built
  <2> QED BY <1>0, <1>1, <2>2, ListedStep
<1>5. \A b \in 1..Len(r) : ItemOK(q, bd, d, r, g, b)
  BY <1>0, <1>3, ItemStays
<1>6. \A b \in 1..Len(r) : r[b].tag = "colon" <=> b = 1
  <2>1. \A b \in 1..Len(s) : s[b].tag = "colon" <=> b = 1
    BY <1>0 DEF Built
  <2>2. \A b \in m + 1..Len(r) : b # 1
    BY <1>s, <1>2
  <2> QED BY <1>0, <1>2, <1>3, <2>1, <2>2
<1>7. Spaced(p, ad, c) /\ Spaced(q, bd, d)
  BY <1>0, SpacedStep DEF Built
<1>8. ASSUME NEW i \in 1..n, p[i] \in Wide
      PROVE  /\ ad[i] + 2 <= Here(c) /\ ad[i] + 1 \in 1..Len(c) /\ ad[i] \in Nat
             /\ \A j \in i + 1..n : ad[i] + 2 <= ad[j]
  <2>1. ad[i] + 2 <= Here(c) /\ \A j \in i + 1..n : ad[i] + 2 <= ad[j]
    BY <1>7, <1>8 DEF Spaced
  <2> QED BY <1>1, <2>1 DEF Here
<1>9. ASSUME NEW i \in 1..n, NEW j \in 1..n, p[i] \in Wide, p[j] \in Wide, ad[i] = ad[j]
      PROVE  i = j
  <2>1. ASSUME NEW x \in 1..n, NEW y \in 1..n, p[x] \in Wide, ad[x] = ad[y], x < y PROVE FALSE
    <3>1. y \in x + 1..n
      BY <1>1, <2>1
    <3>2. ad[x] + 2 <= ad[y] /\ ad[x] \in Nat /\ ad[y] \in Nat
      BY <1>1, <1>8, <2>1, <3>1
    <3> QED BY <2>1, <3>2
  <2>2. ~(i < j) /\ ~(j < i)
    BY <1>9, <2>1
  <2> QED BY <1>1, <2>2
<1>10. ASSUME NEW i \in 1..n PROVE Waits(r, g, i) \/ Solved(q, bd, d, i)
  <2>1. CASE Waits(s, f, i)
    <3>1. PICK a \in 1..Len(s) : s[a].tag \in Branching /\ f[a] = i
      BY <2>1 DEF Waits
    <3>2. CASE a <= m
      <4>1. a \in 1..m /\ a \in 1..Len(r)
        BY <1>2, <3>2
      <4>2. r[a].tag \in Branching /\ g[a] = i
        BY <1>2, <3>1, <4>1
      <4> QED BY <4>1, <4>2 DEF Waits
    <3>3. CASE a > m
      <4>1. a \in m + 1..Len(s)
        BY <1>2, <3>3
      <4> QED BY <1>0, <3>1, <4>1
    <3> QED BY <1>2, <3>2, <3>3
  <2>2. CASE Solved(p, ad, c, i)
    <3>1. CASE p[i] \notin Wide
      <4>1. q[i] \notin Wide
        BY <1>1, <3>1
      <4>2. Solved(q, bd, d, i)
        BY <4>1, Wideness DEF Solved
      <4> QED BY <4>2
    <3>2. CASE p[i] \in Wide
      <4>1. CASE d[ad[i] + 1] = c[ad[i] + 1]
        BY <1>0, <2>2, <4>1, SolvedStays
      <4>2. CASE \E a \in m + 1..Len(s) : s[a].tag \in Branching /\ ad[i] + 1 = ad[f[a]] + 1
        <5>1. PICK a \in m + 1..Len(s) : s[a].tag \in Branching /\ ad[i] + 1 = ad[f[a]] + 1
          BY <4>2
        <5>2. a \in 1..Len(s)
          BY <1>2
        <5>3. f[a] \in 1..n /\ p[f[a]] \in Wide
          BY <1>0, <5>1, <5>2 DEF Built, ItemOK
        <5>4. ad[i] = ad[f[a]]
          BY <1>1, <5>1, <5>3
        <5>5. i = f[a]
          BY <1>9, <3>2, <5>3, <5>4
        <5> QED BY <1>0, <5>1, <5>5
      <4> QED BY <1>0, <1>8, <3>2, <4>1, <4>2
    <3> QED BY <3>1, <3>2
  <2> QED BY <1>0, <2>1, <2>2 DEF Built
<1>11. \A i \in 1..n + 1 : Waits(r, g, i) \/ Solved(q, bd, d, i)
  <2>1. \A i \in 1..n + 1 : i = n + 1 \/ i \in 1..n
    BY <1>1
  <2> QED BY <1>0, <1>10, <2>1
<1> HIDE DEF n
<1>12. Len(r) > 0
  BY <1>s, <1>2
<1> QED BY <1>1, <1>2, <1>4, <1>5, <1>6, <1>7, <1>11, <1>12 DEF Built

--------------------------------------------------------------------------------
(* The control words one by one.                                           *)

(* What the words open and end.                                            *)
LEMMA Roles ==
  ASSUME NEW k \in Kinds
  PROVE  /\ "word" \notin Openers[k] /\ "word" \notin Enders[k]
         /\ \A w \in {"if", "ahead", "while"} : (w \in Openers[k] <=> k = "orig") /\ w \notin Enders[k]
         /\ ("else" \in Openers[k] <=> k = "orig") /\ ("else" \in Enders[k] <=> k = "orig")
         /\ "then" \notin Openers[k] /\ ("then" \in Enders[k] <=> k = "orig")
         /\ ("begin" \in Openers[k] <=> k = "dest") /\ "begin" \notin Enders[k]
         /\ \A w \in {"until", "again"} : w \notin Openers[k] /\ (w \in Enders[k] <=> k = "dest")
         /\ "repeat" \notin Openers[k] /\ ("repeat" \in Enders[k] <=> k \in {"orig", "dest"})
         /\ ("do" \in Openers[k] <=> k = "do") /\ "do" \notin Enders[k]
         /\ "loop" \notin Openers[k] /\ ("loop" \in Enders[k] <=> k = "do")
         /\ ("case" \in Openers[k] <=> k = "case") /\ "case" \notin Enders[k]
         /\ ("of" \in Openers[k] <=> k = "of") /\ "of" \notin Enders[k]
         /\ \A w \in {"endof", "fallthrough"} : w \notin Openers[k] /\ (w \in Enders[k] <=> k = "of")
         /\ "endcase" \notin Openers[k] /\ ("endcase" \in Enders[k] <=> k = "case")
BY DEF Kinds, Openers, Enders

(* The code of an instruction with its operand.                            *)
LEMMA Pair ==
  ASSUME NEW c \in Seq(Cells), NEW o \in Ops, NEW n \in Int
  PROVE  /\ c \o <<I(o), Arg(n)>> \in Seq(Cells)
         /\ Len(c \o <<I(o), Arg(n)>>) = Len(c) + 2
         /\ (c \o <<I(o), Arg(n)>>)[Len(c) + 2] = Arg(n)
         /\ \A i \in 1..Len(c) : (c \o <<I(o), Arg(n)>>)[i] = c[i]
<1>1. <<I(o), Arg(n)>> \in Seq(Cells) /\ Len(<<I(o), Arg(n)>>) = 2
  BY CellTypes
<1> QED BY <1>1, ConcatProperties

(* The code of a branch back.                                              *)
LEMMA PairBack ==
  ASSUME NEW c \in Seq(Cells), NEW o \in Ops, NEW a \in Nat
  PROVE  LET d == Append(Append(c, I(o)), Back(Append(c, I(o)), a)) IN
         /\ d \in Seq(Cells) /\ Len(d) = Len(c) + 2
         /\ d[Len(c) + 2] = Arg(a - (Len(c) + 2))
         /\ \A i \in 1..Len(c) : d[i] = c[i]
<1> DEFINE b == Append(c, I(o))
           x == Back(b, a)
<1>1. I(o) \in Cells
  BY CellTypes
<1>2. b \in Seq(Cells) /\ Len(b) = Len(c) + 1 /\ \A i \in 1..Len(c) : b[i] = c[i]
  BY <1>1, AppendProperties
<1> HIDE DEF b
<1>3. x = Arg(a - (Len(c) + 2)) /\ x \in Cells
  <2>1. a - Here(b) = a - (Len(c) + 2) /\ a - (Len(c) + 2) \in Int
    BY <1>2 DEF Here
  <2> QED BY <2>1, CellTypes DEF Back
<1> HIDE DEF x
<1>4. /\ Append(b, x) \in Seq(Cells) /\ Len(Append(b, x)) = Len(c) + 2
      /\ Append(b, x)[Len(c) + 2] = x
      /\ \A i \in 1..Len(c) + 1 : Append(b, x)[i] = b[i]
  BY <1>2, <1>3, AppendProperties
<1>5. \A i \in 1..Len(c) : i \in 1..Len(c) + 1
  OBVIOUS
<1> QED BY <1>2, <1>3, <1>4, <1>5 DEF b, x

(* The operand of a branch is made to lead to HERE.                        *)
LEMMA PatchCells ==
  ASSUME NEW c \in Seq(Cells), NEW a \in Nat
  PROVE  /\ Patch(c, a) \in Seq(Cells) /\ Len(Patch(c, a)) = Len(c)
         /\ \A i \in 1..Len(c) : Patch(c, a)[i] = IF i = a THEN Arg(Here(c) - a) ELSE c[i]
<1> DEFINE n == Here(c) - a
<1>1. n \in Int
  BY DEF Here
<1> HIDE DEF n
<1>2. /\ [c EXCEPT ![a] = Arg(n)] \in Seq(Cells) /\ Len([c EXCEPT ![a] = Arg(n)]) = Len(c)
      /\ \A i \in 1..Len(c) : [c EXCEPT ![a] = Arg(n)][i] = IF i = a THEN Arg(n) ELSE c[i]
  BY <1>1, PatchCell
<1> QED BY <1>2 DEF Patch, n

(* What is known about a definition that is open.                          *)
LEMMA Known ==
  ASSUME NEW p, NEW ad \in Seq(Nat), NEW c \in Seq(Cells), NEW s \in Seq(Items), NEW f,
         Built(p, ad, c, s, f), NEW a \in 1..Len(s)
  PROVE  /\ f[a] \in Nat /\ s[a] \in Items /\ s[a].at \in Nat /\ s[a].tag \in Tags
         /\ \A k \in Kinds : s[a].tag = k => f[a] \in 1..Len(p) /\ p[f[a]] \in Openers[k]
         /\ s[a].tag \in Branching =>
              /\ f[a] \in 1..Len(p) /\ p[f[a]] \in Wide
              /\ ad[f[a]] \in Nat /\ ad[f[a]] + 1 \in 1..Len(c)
         /\ s[a].tag \in Branching \ {"do"} => s[a].at = ad[f[a]] + 1
<1>1. f \in [1..Len(s) -> Nat] /\ Spaced(p, ad, c) /\ Len(ad) = Len(p) /\ ItemOK(p, ad, c, s, f, a)
  BY DEF Built
<1>2. f[a] \in Nat /\ s[a] \in Items /\ s[a].at \in Nat /\ s[a].tag \in Tags
  <2>1. f[a] \in Nat /\ s[a] \in Items
    BY <1>1
  <2> QED BY <2>1 DEF Items
<1>3. ASSUME NEW k \in Kinds, s[a].tag = k PROVE f[a] \in 1..Len(p) /\ p[f[a]] \in Openers[k]
  <2>1. f[a] \in Pending(p, k)
    BY <1>3 DEF Built, Listed
  <2> QED BY <2>1 DEF Pending
<1>4. ASSUME s[a].tag \in Branching
      PROVE  /\ f[a] \in 1..Len(p) /\ p[f[a]] \in Wide
             /\ ad[f[a]] \in Nat /\ ad[f[a]] + 1 \in 1..Len(c)
  <2>1. f[a] \in 1..Len(p) /\ p[f[a]] \in Wide
    BY <1>1, <1>4 DEF ItemOK
  <2> DEFINE x == ad[f[a]]
  <2>2. x + 2 <= Here(c) /\ x \in Nat
    BY <1>1, <2>1 DEF Spaced
  <2>3. Here(c) = Len(c) + 1 /\ Len(c) \in Nat
    BY DEF Here
  <2> HIDE DEF x
  <2>4. x + 1 \in 1..Len(c)
    BY <2>2, <2>3
  <2> QED BY <2>1, <2>2, <2>4 DEF x
<1>5. s[a].tag \in Branching \ {"do"} => s[a].at = ad[f[a]] + 1
  BY <1>1 DEF ItemOK
<1> QED BY <1>2, <1>3, <1>4, <1>5

(* A word is compiled.                                                     *)
LEMMA Growing ==
  ASSUME prog \in Seq(Words), addr \in Seq(Nat), code \in Seq(Cells),
         NEW f, Built(prog, addr, code, cs, f),
         NEW w \in Words, NEW c \in Seq(Cells), NEW r, Compile(w, c, r),
         Len(c) >= Len(code), w \in Wide => Len(c) >= Len(code) + 2
  PROVE  /\ Grown(prog, addr, code, prog', addr', c, w) /\ code' = c /\ cs' = r
         /\ Len(prog) \in Nat /\ Len(prog') = Len(prog) + 1 /\ prog'[Len(prog) + 1] = w
         /\ addr'[Len(prog) + 1] = Here(code) /\ Here(code) = Len(code) + 1 /\ Len(code) \in Nat
         /\ \A i \in 1..Len(prog) : prog'[i] = prog[i] /\ addr'[i] = addr[i] /\ addr[i] \in Nat
         /\ Extended(prog, prog', w)
         /\ After(prog', addr', c, Len(prog) + 1) = Here(c)
<1>1. prog' = Append(prog, w) /\ addr' = Append(addr, Here(code)) /\ code' = c /\ cs' = r
  BY DEF Compile
<1>2. Len(addr) = Len(prog) /\ Here(code) = Len(code) + 1 /\ Len(code) \in Nat /\ Len(prog) \in Nat
  BY DEF Built, Here
<1>3. /\ prog' \in Seq(Words) /\ Len(prog') = Len(prog) + 1 /\ prog'[Len(prog) + 1] = w
      /\ \A i \in 1..Len(prog) : prog'[i] = prog[i]
  BY <1>1, AppendProperties
<1>4. /\ addr' \in Seq(Nat) /\ Len(addr') = Len(prog) + 1 /\ addr'[Len(prog) + 1] = Here(code)
      /\ \A i \in 1..Len(prog) : addr'[i] = addr[i] /\ addr[i] \in Nat
  BY <1>1, <1>2, AppendProperties
<1>5. Extended(prog, prog', w)
  BY <1>3 DEF Extended
<1>6. Grown(prog, addr, code, prog', addr', c, w)
  BY <1>2, <1>4, <1>5 DEF Grown
<1>7. After(prog', addr', c, Len(prog) + 1) = Here(c)
  BY <1>2, <1>3 DEF After
<1> QED BY <1>1, <1>2, <1>3, <1>4, <1>5, <1>6, <1>7

(* Branches that lead where they should.                                   *)
LEMMA SolvedForward ==
  ASSUME NEW p, NEW ad, NEW c, NEW k \in {"orig", "of"}, NEW i, NEW j \in 1..Len(p),
         p[i] \in Openers[k], Matched(p, k, i, j), Lands(p, ad, c, i, j)
  PROVE  Solved(p, ad, c, i)
<1>1. /\ \A h \in {"orig", "of"} : p[i] \in Openers[h] => h = k
      /\ \A h \in {"dest", "do"} : p[i] \notin Enders[h]
      /\ p[i] # "do" /\ p[i] # "endof" /\ p[i] # "fallthrough"
  BY DEF Openers, Enders
<1> QED BY <1>1 DEF Solved

LEMMA SolvedBack ==
  ASSUME NEW p, NEW ad, NEW c, NEW k \in {"dest", "do"}, NEW i, NEW j \in 1..Len(p),
         p[i] \in Enders[k], Matched(p, k, j, i), Lands(p, ad, c, i, j)
  PROVE  Solved(p, ad, c, i)
<1>1. /\ \A h \in {"dest", "do"} : p[i] \in Enders[h] => h = k
      /\ \A h \in {"orig", "of"} : p[i] \notin Openers[h]
      /\ p[i] # "do" /\ p[i] # "endof" /\ p[i] # "fallthrough"
  BY DEF Openers, Enders
<1> QED BY <1>1 DEF Solved

LEMMA SolvedDo ==
  ASSUME NEW p, NEW ad, NEW c, NEW i, NEW j \in 1..Len(p),
         p[i] = "do", Matched(p, "do", i, j), c[ad[i] + 1].arg = After(p, ad, c, j)
  PROVE  Solved(p, ad, c, i)
<1>1. /\ \A h \in {"dest", "do"} : p[i] \notin Enders[h]
      /\ \A h \in {"orig", "of"} : p[i] \notin Openers[h]
      /\ p[i] # "endof" /\ p[i] # "fallthrough"
  BY DEF Openers, Enders
<1> QED BY <1>1 DEF Solved

LEMMA SolvedEndOf ==
  ASSUME NEW p, NEW ad, NEW c, NEW i, NEW d \in 1..Len(p), NEW e \in 1..Len(p),
         p[i] = "endof", Within(p, i, d), Matched(p, "case", d, e), Lands(p, ad, c, i, e)
  PROVE  Solved(p, ad, c, i)
<1>1. /\ \A h \in {"dest", "do"} : p[i] \notin Enders[h]
      /\ \A h \in {"orig", "of"} : p[i] \notin Openers[h]
      /\ p[i] # "do" /\ p[i] # "fallthrough"
  BY DEF Openers, Enders
<1> QED BY <1>1 DEF Solved

LEMMA SolvedFallthrough ==
  ASSUME NEW p, NEW ad, NEW c, NEW i, NEW d \in 1..Len(p), NEW e \in 1..Len(p),
         p[i] = "fallthrough", Within(p, i, d), Lands(p, ad, c, i, e),
         \/ e > i /\ p[e] = "of" /\ Within(p, e, d) /\ NoOf(p, d, i + 1, e - 1)
         \/ Matched(p, "case", d, e) /\ NoOf(p, d, i + 1, Len(p))
  PROVE  Solved(p, ad, c, i)
<1>1. /\ \A h \in {"dest", "do"} : p[i] \notin Enders[h]
      /\ \A h \in {"orig", "of"} : p[i] \notin Openers[h]
      /\ p[i] # "do" /\ p[i] # "endof"
  BY DEF Openers, Enders
<1> QED BY <1>1 DEF Solved

(* A word without an operand cell has no branch.                           *)
LEMMA SolvedPlain ==
  ASSUME NEW p, NEW ad, NEW c, NEW i, p[i] \notin Wide
  PROVE  Solved(p, ad, c, i)
BY Wideness DEF Solved

(* The words that have pushed the items of the new stack.                  *)
LEMMA Ghost ==
  ASSUME NEW s \in Seq(Items), NEW f \in [1..Len(s) -> Nat], NEW m \in Nat, m <= Len(s),
         NEW r \in Seq(Items), m <= Len(r), \A a \in 1..m : r[a] = s[a],
         NEW h \in [m + 1..Len(r) -> Nat]
  PROVE  \E g : Stays(s, f, r, g, m) /\ \A b \in m + 1..Len(r) : g[b] = h[b]
<1> DEFINE g == [b \in 1..Len(r) |-> IF b <= m THEN f[b] ELSE h[b]]
<1>1. /\ \A a \in 1..m : a \in 1..Len(s) /\ a \in 1..Len(r) /\ a <= m
      /\ \A b \in m + 1..Len(r) : b \in 1..Len(r) /\ ~(b <= m)
      /\ \A b \in 1..Len(r) : b \in m + 1..Len(r) \/ b \in 1..m
  OBVIOUS
<1>2. \A b \in 1..Len(r) : (IF b <= m THEN f[b] ELSE h[b]) \in Nat
  BY <1>1
<1>3. g \in [1..Len(r) -> Nat]
  BY <1>2
<1>4. \A a \in 1..m : g[a] = f[a]
  BY <1>1
<1>5. \A b \in m + 1..Len(r) : g[b] = h[b]
  BY <1>1
<1> HIDE DEF g
<1>6. Stays(s, f, r, g, m)
  BY <1>3, <1>4 DEF Stays
<1> QED BY <1>5, <1>6

(* All of them are pushed by the new word.                                 *)
Renewed(s, f, r, m, n) == \E g : Stays(s, f, r, g, m) /\ \A b \in m + 1..Len(r) : g[b] = n

LEMMA GhostNew ==
  ASSUME NEW s \in Seq(Items), NEW f \in [1..Len(s) -> Nat], NEW m \in Nat, m <= Len(s),
         NEW r \in Seq(Items), m <= Len(r), \A a \in 1..m : r[a] = s[a], NEW n \in Nat
  PROVE  Renewed(s, f, r, m, n)
<1> DEFINE h == [b \in m + 1..Len(r) |-> n]
<1>1. h \in [m + 1..Len(r) -> Nat] /\ \A b \in m + 1..Len(r) : h[b] = n
  OBVIOUS
<1> HIDE DEF h
<1>2. PICK g : Stays(s, f, r, g, m) /\ \A b \in m + 1..Len(r) : g[b] = h[b]
  BY <1>1, Ghost
<1>3. \A b \in m + 1..Len(r) : g[b] = n
  BY <1>1, <1>2
<1> QED BY <1>2, <1>3 DEF Renewed

(* A branch that the new word resolves leads behind it.                    *)
LEMMA ForwardSolved ==
  ASSUME NEW p, NEW ad, NEW c, NEW q, NEW bd, NEW d, NEW w, Grown(p, ad, c, q, bd, d, w),
         NEW s \in Seq(Items), NEW f, NEW r, NEW g, NEW m, Stays(s, f, r, g, m), Built(p, ad, c, s, f),
         NEW k \in {"orig", "of"}, w \in Enders[k], Turns(Len(p), w, s, f, r, g, m, k),
         NEW a \in m + 1..Len(s), s[a].tag = k, d[s[a].at] = Arg(Here(d) - s[a].at)
  PROVE  Solved(q, bd, d, f[a])
<1> DEFINE n == Len(p)
           t == f[a]
<1>1. /\ n \in Nat /\ Len(q) = n + 1 /\ Extended(p, q, w)
      /\ \A i \in 1..n : q[i] = p[i] /\ bd[i] = ad[i]
      /\ ad \in Seq(Nat) /\ c \in Seq(Cells) /\ a \in 1..Len(s) /\ k \in Kinds
      /\ k \in Branching \ {"do"} /\ Len(d) \in Nat
  BY DEF Grown, Extended, Stays, Kinds, Branching
<1>2. /\ t \in 1..n /\ p[t] \in Openers[k] /\ ad[t] \in Nat /\ s[a].at = ad[t] + 1
  <2>1. s[a].tag \in Branching \ {"do"} /\ s[a].tag \in Branching /\ k \in Kinds
    BY <1>1
  <2>2. ItemOK(p, ad, c, s, f, a)
    BY <1>1 DEF Built
  <2>3. s[a].at = ad[t] + 1
    BY <2>1, <2>2 DEF ItemOK
  <2>4. t \in Pending(p, k)
    BY <1>1 DEF Built, Listed
  <2>5. t \in 1..n /\ p[t] \in Openers[k]
    BY <2>4 DEF Pending
  <2>6. ad[t] \in Nat
    BY <1>1, <2>5 DEF Built
  <2> QED BY <2>3, <2>5, <2>6
<1>3. Nested(p, k) /\ Listed(p, s, f, k)
  BY <1>1 DEF Built
<1>4. Matched(q, k, t, n + 1)
  BY <1>1, <1>3, ListedStep
<1>5. Lands(q, bd, d, t, n + 1)
  <2>1. bd[t] = ad[t] /\ d[ad[t] + 1] = Arg(Here(d) - (ad[t] + 1)) /\ Here(d) = Len(d) + 1
    BY <1>1, <1>2 DEF Here
  <2>2. Target(d, bd[t]) = Here(d)
    BY <1>1, <1>2, <2>1 DEF Target, Arg
  <2>3. After(q, bd, d, n + 1) = Here(d)
    BY <1>1 DEF After
  <2> QED BY <2>2, <2>3 DEF Lands
<1>6. q[t] \in Openers[k] /\ n + 1 \in 1..Len(q)
  BY <1>1, <1>2
<1> HIDE DEF n, t
<1>7. Solved(q, bd, d, t)
  BY <1>4, <1>5, <1>6, SolvedForward
<1> QED BY <1>7 DEF t

(* A definition that is open, with the words that have pushed its items.   *)
Now(f) == /\ prog \in Seq(Words) /\ addr \in Seq(Nat) /\ code \in Seq(Cells) /\ cs \in Seq(Items)
          /\ Built(prog, addr, code, cs, f)

(* A word that is no control word.                                         *)
LEMMA BuiltOther ==
  ASSUME NEW f, Now(f), Other PROVE \E g : Built(prog', addr', code', cs', g)
<1> DEFINE n == Len(prog)
           c == Append(code, I("word"))
<1>1. Compile("word", c, cs) /\ "word" \in Words /\ "word" \notin Wide /\ I("word") \in Cells
  BY CellTypes DEF Other, Words, Wide, Ops
<1>2. /\ c \in Seq(Cells) /\ Len(c) = Len(code) + 1 /\ \A x \in 1..Len(code) : c[x] = code[x]
      /\ Len(code) \in Nat
  BY <1>1, AppendProperties DEF Now
<1> HIDE DEF c
<1>3. /\ Grown(prog, addr, code, prog', addr', c, "word") /\ code' = c /\ cs' = cs
      /\ prog'[n + 1] = "word"
  BY <1>1, <1>2, Growing DEF Now
<1>4. Stays(cs, f, cs, f, Len(cs)) /\ Len(cs) > 0
  BY DEF Stays, Now, Built
<1>5. ASSUME NEW k \in Kinds PROVE Turns(n, "word", cs, f, cs, f, Len(cs), k)
  BY Roles DEF Turns, Now
<1>6. Solved(prog', addr', c, n + 1)
  BY <1>1, <1>3, SolvedPlain
<1>7. \A a \in Len(cs) + 1..Len(cs) : FALSE
  BY DEF Now
<1> HIDE DEF n
<1>8. Does(prog, addr, code, prog', addr', c, "word", cs, f, cs, f, Len(cs))
  BY <1>2, <1>3, <1>4, <1>5, <1>6, <1>7 DEF Now, Does, n
<1>9. Built(prog', addr', c, cs, f)
  BY <1>8, BuiltStep
<1> QED BY <1>3, <1>9

(* Words that push an item and take none.                                  *)
LEMMA BuiltPush ==
  ASSUME NEW f, Now(f), NEW w \in Words, NEW c \in Seq(Cells), NEW x \in Items,
         Compile(w, c, Append(cs, x)),
         Len(c) >= Len(code), w \in Wide => Len(c) >= Len(code) + 2,
         \A i \in 1..Len(code) : c[i] = code[i],
         x.tag \in {"orig", "dest", "case", "of"},
         \A k \in Kinds : w \notin Enders[k] /\ (w \in Openers[k] <=> x.tag = k),
         w \in Wide <=> x.tag \in {"orig", "of"},
         x.tag \in {"orig", "of"} => x.at = Here(code) + 1,
         x.tag = "dest" => x.at = Here(c),
         x.tag = "case" => x.at = 0,
         w = "of" => Top(cs).tag = "case"
  PROVE  \E g : Built(prog', addr', code', cs', g)
<1> DEFINE n == Len(prog)
           m == Len(cs)
           r == Append(cs, x)
<1>1. /\ Grown(prog, addr, code, prog', addr', c, w) /\ code' = c /\ cs' = r
      /\ n \in Nat /\ Len(prog') = n + 1 /\ prog'[n + 1] = w /\ addr'[n + 1] = Here(code)
      /\ Here(code) = Len(code) + 1 /\ Len(code) \in Nat
      /\ After(prog', addr', c, n + 1) = Here(c)
  BY Growing DEF Now
<1>2. /\ r \in Seq(Items) /\ Len(r) = m + 1 /\ r[m + 1] = x
      /\ \A a \in 1..m : r[a] = cs[a]
      /\ m \in Nat /\ m > 0 /\ f \in [1..m -> Nat]
  BY AppendProperties DEF Now, Built
<1> HIDE DEF n, r
<1>3. PICK g : Stays(cs, f, r, g, m) /\ \A b \in m + 1..Len(r) : g[b] = n + 1
  <2> DEFINE h == n + 1
  <2>1. /\ h \in Nat /\ m <= Len(r) /\ m <= Len(cs) /\ m \in Nat /\ cs \in Seq(Items)
        /\ r \in Seq(Items) /\ f \in [1..Len(cs) -> Nat] /\ \A a \in 1..m : r[a] = cs[a]
    BY <1>1, <1>2 DEF Now
  <2> HIDE DEF h
  <2>2. Renewed(cs, f, r, m, h)
    BY <2>1, GhostNew
  <2> QED BY <2>2 DEF Renewed, h
<1>4. /\ \A b \in m + 1..Len(r) : b = m + 1
      /\ m + 1 \in m + 1..Len(r) /\ g[m + 1] = n + 1
      /\ \A a \in m + 1..Len(cs) : FALSE
  BY <1>2, <1>3
<1> HIDE DEF m
<1>5. ASSUME NEW k \in Kinds PROVE Turns(n, w, cs, f, r, g, m, k)
  BY <1>2, <1>4 DEF Turns
<1>6. ItemOK(prog', addr', c, r, g, m + 1)
  <2>1. \A b \in (m + 1) - 0..(m + 1) - 1 : FALSE
    BY <1>2
  <2> QED BY <1>1, <1>2, <1>4, <2>1 DEF ItemOK, Branching
<1>7. Waits(r, g, n + 1) \/ Solved(prog', addr', c, n + 1)
  <2>1. CASE w \in Wide
    <3>1. m + 1 \in 1..Len(r) /\ r[m + 1].tag \in Branching
      BY <1>2, <2>1 DEF Branching
    <3> QED BY <1>4, <3>1 DEF Waits
  <2>2. CASE w \notin Wide
    BY <1>1, <2>2, SolvedPlain
  <2> QED BY <2>1, <2>2
<1>8. w = "of" => /\ m > 0 /\ cs[m].tag = "case"
                  /\ \A b \in m + 1..Len(cs) : cs[b].tag # "case"
  BY <1>2, <1>4 DEF Top, m
<1>9. \A b \in m + 1..Len(r) : r[b].tag # "colon" /\ ItemOK(prog', addr', c, r, g, b)
  BY <1>2, <1>4, <1>6
<1>10. Does(prog, addr, code, prog', addr', c, w, cs, f, r, g, m)
  BY <1>1, <1>2, <1>3, <1>4, <1>5, <1>7, <1>8, <1>9 DEF Now, Does, n
<1>11. Built(prog', addr', c, r, g)
  BY <1>10, BuiltStep
<1> QED BY <1>1, <1>11

(* The tags that a word has matched.                                       *)
LEMMA TopTags ==
  ASSUME NEW f, Now(f), NEW w, Matches(w)
  PROVE  /\ Len(cs) \in Nat /\ Len(cs) > 0
         /\ \A x : Wants(w) = <<x>> => cs[Len(cs)].tag = x /\ (x # "colon" => Len(cs) > 1)
         /\ \A x, y : Wants(w) = <<x, y>> => /\ cs[Len(cs)].tag = x /\ cs[Len(cs) - 1].tag = y
                                             /\ Len(cs) > 1 /\ (y # "colon" => Len(cs) > 2)
<1>1. Len(cs) \in Nat /\ Len(cs) > 0 /\ \A a \in 1..Len(cs) : cs[a].tag = "colon" <=> a = 1
  BY DEF Now, Built
<1>2. ASSUME NEW x, Wants(w) = <<x>>
      PROVE  cs[Len(cs)].tag = x /\ (x # "colon" => Len(cs) > 1)
  <2>1. cs[Len(cs) + 1 - 1].tag = x
    BY <1>2 DEF Matches
  <2>2. cs[Len(cs)].tag = x
    BY <1>1, <2>1
  <2> QED BY <1>1, <2>2
<1>3. ASSUME NEW x, NEW y, Wants(w) = <<x, y>>
      PROVE  /\ cs[Len(cs)].tag = x /\ cs[Len(cs) - 1].tag = y
             /\ Len(cs) > 1 /\ (y # "colon" => Len(cs) > 2)
  <2>1. /\ 2 <= Len(cs)
        /\ cs[Len(cs) + 1 - 1].tag = x /\ cs[Len(cs) + 1 - 2].tag = y
    BY <1>3 DEF Matches
  <2>2. cs[Len(cs)].tag = x /\ cs[Len(cs) - 1].tag = y
    BY <1>1, <2>1
  <2> QED BY <1>1, <2>1, <2>2
<1> QED BY <1>1, <1>2, <1>3

(* The branch of an item of the stack is resolved.                         *)
PatchOf(c, d, a, f) ==
  /\ d \in Seq(Cells) /\ Len(d) = Len(c)
  /\ d[cs[a].at] = Arg(Here(d) - cs[a].at)
  /\ \A x \in 1..Len(code) : d[x] = code[x] \/ x = addr[f[a]] + 1
  /\ \A x \in 1..Len(c) : x > Len(code) => d[x] = c[x]

(* Patch resolves it.                                                      *)
LEMMA Patched ==
  ASSUME NEW f, Now(f), NEW c \in Seq(Cells), Len(c) >= Len(code),
         \A x \in 1..Len(code) : c[x] = code[x],
         NEW a \in 1..Len(cs), cs[a].tag \in Branching \ {"do"}
  PROVE  PatchOf(c, Patch(c, cs[a].at), a, f)
<1> DEFINE t == cs[a].at
           d == Patch(c, t)
<1>1. t \in Nat /\ t = addr[f[a]] + 1 /\ t \in 1..Len(code)
  <2>1. /\ prog \in Seq(Words) /\ addr \in Seq(Nat) /\ code \in Seq(Cells) /\ cs \in Seq(Items)
        /\ Built(prog, addr, code, cs, f)
    BY DEF Now
  <2>2. cs[a].at \in Nat /\ cs[a].tag \in Branching
    BY <2>1, Known
  <2>3. addr[f[a]] + 1 \in 1..Len(code) /\ cs[a].at = addr[f[a]] + 1
    BY <2>1, <2>2, Known
  <2> QED BY <2>2, <2>3
<1> HIDE DEF t
<1>2. /\ d \in Seq(Cells) /\ Len(d) = Len(c)
      /\ \A i \in 1..Len(c) : d[i] = IF i = t THEN Arg(Here(c) - t) ELSE c[i]
  BY <1>1, PatchCells
<1>3. Len(code) \in Nat /\ Len(c) \in Nat
  BY DEF Now
<1> HIDE DEF d
<1>4. t \in 1..Len(c) /\ Here(d) = Here(c) /\ d[t] = Arg(Here(d) - t)
  BY <1>1, <1>2, <1>3 DEF Here
<1>5. \A x \in 1..Len(code) : d[x] = code[x] \/ x = addr[f[a]] + 1
  BY <1>1, <1>2, <1>3
<1>6. \A x \in 1..Len(c) : x > Len(code) => d[x] = c[x]
  BY <1>1, <1>2, <1>3
<1>7. PatchOf(c, d, a, f)
  BY <1>2, <1>4, <1>5, <1>6 DEF PatchOf, t
<1> QED BY <1>7 DEF d, t

(* Words that only push.                                                   *)
LEMMA BuiltPushes ==
  ASSUME NEW f, Now(f), If \/ Ahead \/ Begin \/ Case PROVE \E g : Built(prog', addr', code', cs', g)
<1>1. /\ code \in Seq(Cells) /\ Len(code) \in Nat /\ Here(code) \in Nat /\ Here(code) + 1 \in Nat
      /\ {"if", "ahead", "begin", "case"} \subseteq Words /\ 0 \in Nat
      /\ {"if", "ahead"} \subseteq Wide /\ "begin" \notin Wide /\ "case" \notin Wide
  BY DEF Now, Here, Words, Wide
<1>2. CASE If \/ Ahead
  <2>1. PICK w \in {"if", "ahead"}, o \in {"branch?", "branch0?"} :
          Compile(w, code \o <<I(o), Arg(1)>>, Append(cs, Mark("orig", Here(code) + 1)))
    BY <1>2 DEF If, Ahead, Origin
  <2> DEFINE c == code \o <<I(o), Arg(1)>>
             x == Mark("orig", Here(code) + 1)
  <2>2. c \in Seq(Cells) /\ Len(c) = Len(code) + 2 /\ \A i \in 1..Len(code) : c[i] = code[i]
    BY <1>1, Pair DEF Ops
  <2>3. x \in Items /\ x.tag = "orig" /\ x.at = Here(code) + 1
    BY <1>1 DEF Mark, Items, Tags
  <2>4. \A k \in Kinds : w \notin Enders[k] /\ (w \in Openers[k] <=> x.tag = k)
    BY <2>3, Roles
  <2> HIDE DEF c, x
  <2>5. Compile(w, c, Append(cs, x))
    BY <2>1 DEF c, x
  <2>6. /\ w \in Words /\ w \in Wide /\ w # "of"
        /\ Len(c) >= Len(code) /\ Len(c) >= Len(code) + 2
    BY <1>1, <2>2
  <2> QED BY <2>2, <2>3, <2>4, <2>5, <2>6, BuiltPush
<1>3. CASE Begin
  <2> DEFINE x == Mark("dest", Here(code))
  <2>1. x \in Items /\ x.tag = "dest" /\ x.at = Here(code)
    BY <1>1 DEF Mark, Items, Tags
  <2>2. \A k \in Kinds : "begin" \notin Enders[k] /\ ("begin" \in Openers[k] <=> x.tag = k)
    BY <2>1, Roles
  <2> HIDE DEF x
  <2>3. Compile("begin", code, Append(cs, x))
    BY <1>3 DEF Begin, x
  <2> QED BY <1>1, <2>1, <2>2, <2>3, BuiltPush
<1>4. CASE Case
  <2> DEFINE x == Mark("case", 0)
  <2>1. x \in Items /\ x.tag = "case" /\ x.at = 0
    BY <1>1 DEF Mark, Items, Tags
  <2>2. \A k \in Kinds : "case" \notin Enders[k] /\ ("case" \in Openers[k] <=> x.tag = k)
    BY <2>1, Roles
  <2> HIDE DEF x
  <2>3. Compile("case", code, Append(cs, x))
    BY <1>4 DEF Case, x
  <2> QED BY <1>1, <2>1, <2>2, <2>3, BuiltPush
<1> QED BY <1>2, <1>3, <1>4

(* THEN, ELSE and FALLTHROUGH resolve the branch on top of the stack; the  *)
(* last two leave their own there.                                         *)
LEMMA BuiltResolve ==
  ASSUME NEW f, Now(f), NEW w \in {"then", "else", "fallthrough"},
         NEW c \in Seq(Cells), Len(c) >= Len(code), w # "then" => Len(c) = Len(code) + 2,
         \A x \in 1..Len(code) : c[x] = code[x],
         NEW r, Compile(w, Patch(c, Top(cs).at), r), r \in Seq(Items),
         Len(cs) > 1, \A a \in 1..Len(cs) - 1 : r[a] = cs[a],
         w = "then" => Len(r) = Len(cs) - 1,
         w # "then" => Len(r) = Len(cs) /\ r[Len(cs)].at = Here(code) + 1,
         w # "fallthrough" => cs[Len(cs)].tag = "orig",
         w = "else" => r[Len(cs)].tag = "orig",
         w = "fallthrough" => /\ cs[Len(cs)].tag = "of" /\ r[Len(cs)].tag = "fallthrough"
                              /\ cs[Len(cs) - 1].tag = "case"
  PROVE  \E g : Built(prog', addr', code', cs', g)
<1> DEFINE n == Len(prog)
           L == Len(cs)
           m == L - 1
           d == Patch(c, cs[L].at)
           k == IF w = "fallthrough" THEN "of" ELSE "orig"
<1>1. /\ prog \in Seq(Words) /\ addr \in Seq(Nat) /\ code \in Seq(Cells) /\ cs \in Seq(Items)
      /\ Built(prog, addr, code, cs, f) /\ f \in [1..L -> Nat]
  BY DEF Now, Built
<1>2. /\ L \in Nat /\ m \in Nat /\ m > 0 /\ m <= L /\ m <= Len(r) /\ L = m + 1 /\ L \in 1..L
      /\ cs[L].tag = k /\ k \in {"orig", "of"} /\ k \in Kinds /\ k \in Branching \ {"do"}
      /\ w \in Words /\ (w \in Wide => w # "then") /\ (w # "then" => w \in Wide) /\ w # "of"
  BY <1>1 DEF Kinds, Branching, Words, Wide
<1>3. \A h \in Kinds : /\ w \in Enders[h] <=> h = k
                       /\ w \in Openers[h] <=> w = "else" /\ h = "orig"
  BY Roles
<1>4. /\ d \in Seq(Cells) /\ Len(d) = Len(c) /\ d[cs[L].at] = Arg(Here(d) - cs[L].at)
      /\ \A x \in 1..Len(code) : d[x] = code[x] \/ x = addr[f[L]] + 1
  <2>1. L \in 1..Len(cs) /\ cs[L].tag \in Branching \ {"do"}
    BY <1>2
  <2> HIDE DEF L
  <2>2. PatchOf(c, d, L, f)
    BY <2>1, Patched
  <2> QED BY <2>2 DEF PatchOf
<1> HIDE DEF d, k
<1>5. Compile(w, d, r) /\ Len(d) >= Len(code) /\ (w \in Wide => Len(d) >= Len(code) + 2)
  <2>1. Len(code) \in Nat /\ Len(c) \in Nat
    BY <1>1
  <2>2. Compile(w, d, r)
    BY DEF Top, d
  <2>3. Len(d) = Len(c) /\ (w \in Wide => w # "then")
    BY <1>2, <1>4
  <2> QED BY <2>1, <2>2, <2>3
<1>6. /\ Grown(prog, addr, code, prog', addr', d, w) /\ code' = d /\ cs' = r
      /\ n \in Nat /\ Len(prog') = n + 1 /\ prog'[n + 1] = w /\ addr'[n + 1] = Here(code)
      /\ After(prog', addr', d, n + 1) = Here(d) /\ Extended(prog, prog', w)
  BY <1>1, <1>2, <1>4, <1>5, Growing
<1>7. Renewed(cs, f, r, m, n + 1)
  <2> DEFINE h == n + 1
  <2>1. h \in Nat
    BY <1>6
  <2>2. m <= Len(cs) /\ f \in [1..Len(cs) -> Nat]
    BY <1>1, <1>2
  <2> HIDE DEF h, m
  <2>3. \A a \in 1..m : r[a] = cs[a]
    BY DEF m
  <2>4. Renewed(cs, f, r, m, h)
    BY <1>1, <1>2, <2>1, <2>2, <2>3, GhostNew
  <2> QED BY <2>4 DEF h
<1>8. PICK g : Stays(cs, f, r, g, m) /\ \A b \in m + 1..Len(r) : g[b] = n + 1
  BY <1>7 DEF Renewed
<1>9. /\ \A a \in m + 1..Len(cs) : a = L
      /\ L \in m + 1..Len(cs)
      /\ \A b \in m + 1..Len(r) : b = L /\ w # "then"
      /\ w # "then" => L \in m + 1..Len(r) /\ g[L] = n + 1 /\ Len(r) = L
      /\ g[m] = f[m]
  <2>0. L = Len(cs) /\ L \in Nat /\ m \in Nat /\ m > 0 /\ L = m + 1
    BY <1>2
  <2>3. Len(r) \in Nat /\ (w = "then" => Len(r) = m) /\ (w # "then" => Len(r) = L)
    OBVIOUS
  <2> HIDE DEF L, m
  <2>1. \A a \in m + 1..Len(cs) : a = L
    BY <2>0
  <2>2. L \in m + 1..Len(cs)
    BY <2>0
  <2>4. \A b \in m + 1..Len(r) : b = L /\ w # "then"
    BY <2>0, <2>3
  <2>5. w # "then" => L \in m + 1..Len(r)
    BY <2>0, <2>3
  <2>6. m \in 1..m
    BY <2>0
  <2>7. g[m] = f[m]
    BY <1>8, <2>6 DEF Stays
  <2> QED BY <1>8, <2>1, <2>2, <2>3, <2>4, <2>5, <2>7
<1> HIDE DEF n, m, L
<1>10. ASSUME NEW h \in Kinds PROVE Turns(n, w, cs, f, r, g, m, h)
  <2>1. w = "else" => r[L].tag = "orig"
    BY DEF L
  <2>2. w = "fallthrough" => r[L].tag = "fallthrough" /\ "fallthrough" \notin Kinds
    BY DEF L, Kinds
  <2>3. w \in Enders[h] <=> h = k
    BY <1>3
  <2>4. w \in Openers[h] <=> w = "else" /\ h = "orig"
    BY <1>3
  <2>5. w = "else" => k = "orig"
    BY DEF k
  <2> QED BY <1>2, <1>9, <2>1, <2>2, <2>3, <2>4, <2>5 DEF Turns
<1>11. Solved(prog', addr', d, f[L])
  <2>1. w \in Enders[k] /\ Turns(Len(prog), w, cs, f, r, g, m, k)
    BY <1>2, <1>3, <1>10 DEF n
  <2>2. /\ Grown(prog, addr, code, prog', addr', d, w) /\ cs \in Seq(Items)
        /\ Stays(cs, f, r, g, m) /\ Built(prog, addr, code, cs, f) /\ k \in {"orig", "of"}
        /\ L \in m + 1..Len(cs) /\ cs[L].tag = k /\ d[cs[L].at] = Arg(Here(d) - cs[L].at)
    BY <1>1, <1>2, <1>4, <1>6, <1>8, <1>9
  <2> QED BY <2>1, <2>2, ForwardSolved
<1>12. ASSUME w # "then" PROVE ItemOK(prog', addr', d, r, g, L)
  <2>1. /\ r[L].at = addr'[n + 1] + 1 /\ g[L] = n + 1 /\ n + 1 \in 1..Len(prog')
        /\ prog'[n + 1] \in Wide /\ r[L].tag \in {"orig", "fallthrough"}
    BY <1>2, <1>6, <1>9, <1>12 DEF L
  <2>2. CASE w = "else"
    <3>1. r[L].tag = "orig"
      BY <2>2 DEF L
    <3> QED BY <2>1, <3>1 DEF ItemOK, Branching
  <2>3. CASE w = "fallthrough"
    <3>1. r[L].tag = "fallthrough" /\ cs[m].tag = "case" /\ cs[L].tag = "of"
      BY <2>3 DEF L, m
    <3>2. r[L - 1].tag = "case" /\ L > 1 /\ L - 1 = m /\ g[L - 1] = f[m]
      BY <1>2, <1>8, <1>9, <3>1 DEF Stays
    <3>3. Within(prog', n + 1, f[m])
      <4>1. /\ Nested(prog, "case") /\ Listed(prog, cs, f, "case") /\ m \in 1..Len(cs)
            /\ \A b \in m + 1..Len(cs) : cs[b].tag # "case"
        BY <1>1, <1>2, <1>9, <3>1 DEF Built, Kinds, L
      <4>2. w \notin {"case", "endcase"} /\ f \in [1..Len(cs) -> Nat]
        BY <1>1, <2>3 DEF L
      <4> QED BY <1>1, <1>6, <3>1, <4>1, <4>2, WithinTop DEF n
    <3>4. NoOf(prog', f[m], (n + 1) + 1, Len(prog'))
      BY <1>6 DEF NoOf
    <3> QED BY <1>6, <2>1, <2>3, <3>1, <3>2, <3>3, <3>4 DEF ItemOK, Branching
  <2> QED BY <1>12, <2>2, <2>3
<1>13. Waits(r, g, n + 1) \/ Solved(prog', addr', d, n + 1)
  <2>1. CASE w = "then"
    BY <1>2, <1>6, <2>1, SolvedPlain
  <2>2. CASE w # "then"
    <3>1. L \in 1..Len(r) /\ r[L].tag \in Branching /\ g[L] = n + 1
      BY <1>2, <1>9, <2>2 DEF L, Branching
    <3> QED BY <3>1 DEF Waits
  <2> QED BY <2>1, <2>2
<1>14. /\ \A b \in m + 1..Len(r) : r[b].tag # "colon"
       /\ \A b \in m + 1..Len(r) : ItemOK(prog', addr', d, r, g, b)
       /\ \A a \in m + 1..Len(cs) : cs[a].tag \in Branching => Solved(prog', addr', d, f[a])
       /\ \A x \in 1..Len(code) : \/ d[x] = code[x]
                                  \/ \E a \in m + 1..Len(cs) :
                                       cs[a].tag \in Branching /\ x = addr[f[a]] + 1
  <2>1. w # "then" => r[L].tag # "colon"
    BY DEF L
  <2>2. cs[L].tag \in Branching
    BY <1>2
  <2> QED BY <1>4, <1>9, <1>11, <1>12, <2>1, <2>2
<1>15. Does(prog, addr, code, prog', addr', d, w, cs, f, r, g, m)
  BY <1>1, <1>2, <1>6, <1>8, <1>10, <1>13, <1>14 DEF Does, n
<1>16. Built(prog', addr', d, r, g)
  BY <1>15, BuiltStep
<1> QED BY <1>6, <1>16

(* A branch back leads to where the structure has begun.                   *)
LEMMA BackSolved ==
  ASSUME NEW p, NEW ad, NEW c, NEW q, NEW bd, NEW d, NEW w, Grown(p, ad, c, q, bd, d, w),
         NEW s \in Seq(Items), NEW f, NEW r, NEW g, NEW m, Stays(s, f, r, g, m), Built(p, ad, c, s, f),
         NEW k \in {"dest", "do"}, w \in Enders[k], Turns(Len(p), w, s, f, r, g, m, k),
         NEW a \in m + 1..Len(s), s[a].tag = k, d[Len(c) + 2] = Arg(s[a].at - (Len(c) + 2))
  PROVE  Solved(q, bd, d, Len(p) + 1)
<1> DEFINE n == Len(p)
           t == f[a]
           u == s[a].at
<1>1. /\ n \in Nat /\ Len(q) = n + 1 /\ q[n + 1] = w /\ Extended(p, q, w)
      /\ ad \in Seq(Nat) /\ c \in Seq(Cells) /\ a \in 1..Len(s) /\ k \in Kinds
      /\ bd[n + 1] = Len(c) + 1 /\ Len(c) \in Nat
  BY DEF Grown, Extended, Stays, Kinds, Here
<1>2. /\ t \in 1..n /\ u \in Nat
  BY <1>1, Known
<1>3. u = After(p, ad, c, t)
  BY <1>1 DEF Built, ItemOK
<1>4. After(q, bd, d, t) = u
  BY <1>2, <1>3, AfterStays
<1>5. Nested(p, k) /\ Listed(p, s, f, k)
  BY <1>1 DEF Built
<1>6. Matched(q, k, t, n + 1)
  BY <1>1, <1>5, ListedStep
<1> HIDE DEF n, t, u
<1>7. Lands(q, bd, d, n + 1, t)
  <2>1. d[bd[n + 1] + 1].arg = u - (Len(c) + 2)
    <3>1. bd[n + 1] + 1 = Len(c) + 2
      BY <1>1
    <3> QED BY <3>1 DEF Arg, u
  <2>2. Target(d, bd[n + 1]) = u
    BY <1>1, <1>2, <2>1 DEF Target
  <2> QED BY <1>4, <2>2 DEF Lands
<1>8. t \in 1..Len(q) /\ q[n + 1] \in Enders[k]
  BY <1>1, <1>2
<1>9. Solved(q, bd, d, n + 1)
  BY <1>6, <1>7, <1>8, SolvedBack
<1> QED BY <1>9 DEF n

(* DO pushes two items: the cell for LEAVE and where LOOP goes back to.    *)
LEMMA BuiltDo ==
  ASSUME NEW f, Now(f), Do PROVE \E g : Built(prog', addr', code', cs', g)
<1> DEFINE n == Len(prog)
           m == Len(cs)
           c == code \o <<I("do"), Arg(0)>>
           x == Mark("leave", Here(code) + 1)
           y == Mark("do", Here(c))
           r == cs \o <<x, y>>
<1>1. /\ prog \in Seq(Words) /\ addr \in Seq(Nat) /\ code \in Seq(Cells) /\ cs \in Seq(Items)
      /\ Built(prog, addr, code, cs, f) /\ f \in [1..m -> Nat] /\ m \in Nat /\ m > 0
      /\ "do" \in Words /\ "do" \in Wide /\ Len(code) \in Nat /\ Here(code) = Len(code) + 1
  BY DEF Now, Built, Words, Wide, Here
<1>2. c \in Seq(Cells) /\ Len(c) = Len(code) + 2 /\ \A i \in 1..Len(code) : c[i] = code[i]
  BY <1>1, Pair DEF Ops
<1>3. Compile("do", c, r)
  BY DEF Do
<1> HIDE DEF c
<1>4. x \in Items /\ y \in Items /\ x.tag = "leave" /\ y.tag = "do" /\ y.at = Here(c)
  <2>1. Here(code) + 1 \in Nat /\ Here(c) \in Nat
    BY <1>1, <1>2 DEF Here
  <2> QED BY <2>1 DEF Mark, Items, Tags
<1>5. /\ r \in Seq(Items) /\ Len(r) = m + 2 /\ r[m + 1] = x /\ r[m + 2] = y
      /\ \A a \in 1..m : r[a] = cs[a]
  <2> HIDE DEF x, y
  <2>1. <<x, y>> \in Seq(Items) /\ Len(<<x, y>>) = 2
    BY <1>4
  <2> QED BY <1>1, <2>1, ConcatProperties
<1> HIDE DEF r, y
<1>6. /\ Grown(prog, addr, code, prog', addr', c, "do") /\ code' = c /\ cs' = r
      /\ n \in Nat /\ Len(prog') = n + 1 /\ prog'[n + 1] = "do" /\ addr'[n + 1] = Here(code)
      /\ After(prog', addr', c, n + 1) = Here(c)
  <2>1. Len(c) >= Len(code) /\ Len(c) >= Len(code) + 2
    BY <1>1, <1>2
  <2> QED BY <1>1, <1>2, <1>3, <2>1, Growing
<1>7. PICK g : Stays(cs, f, r, g, m) /\ \A b \in m + 1..Len(r) : g[b] = n + 1
  <2> DEFINE h == n + 1
  <2>1. h \in Nat /\ m <= Len(cs) /\ m <= Len(r)
    BY <1>1, <1>5, <1>6
  <2> HIDE DEF h
  <2>2. Renewed(cs, f, r, m, h)
    BY <1>1, <1>5, <2>1, GhostNew
  <2> QED BY <2>2 DEF Renewed, h
<1> HIDE DEF m, n
<1>8. /\ \A a \in m + 1..Len(cs) : FALSE
      /\ \A b \in m + 1..Len(r) : b = m + 1 \/ b = m + 2
      /\ m + 2 \in m + 1..Len(r) /\ m + 1 \in m + 1..Len(r) /\ g[m + 2] = n + 1
      /\ m + 2 \in 1..Len(r)
  <2>0. m = Len(cs) /\ m \in Nat /\ Len(r) = m + 2
    BY <1>1, <1>5 DEF m
  <2>1. \A a \in m + 1..Len(cs) : FALSE
    BY <2>0
  <2>2. \A b \in m + 1..Len(r) : b = m + 1 \/ b = m + 2
    BY <2>0
  <2>3. m + 2 \in m + 1..Len(r) /\ m + 1 \in m + 1..Len(r) /\ m + 2 \in 1..Len(r)
    BY <2>0
  <2>4. g[m + 2] = n + 1
    BY <1>7, <2>3
  <2> QED BY <2>1, <2>2, <2>3, <2>4
<1>9. ASSUME NEW k \in Kinds PROVE Turns(n, "do", cs, f, r, g, m, k)
  <2>1. ("do" \in Openers[k] <=> k = "do") /\ "do" \notin Enders[k] /\ k # "leave"
    BY Roles DEF Kinds
  <2>2. r[m + 1].tag = "leave" /\ r[m + 2].tag = "do"
    BY <1>4, <1>5
  <2> QED BY <1>8, <2>1, <2>2 DEF Turns
<1>10. ItemOK(prog', addr', c, r, g, m + 1)
  BY <1>4, <1>5 DEF ItemOK, Branching
<1>11. ItemOK(prog', addr', c, r, g, m + 2)
  <2>1. /\ r[m + 2].tag = "do" /\ r[m + 2].at = Here(c) /\ g[m + 2] = n + 1
        /\ n + 1 \in 1..Len(prog') /\ prog'[n + 1] \in Wide
    BY <1>1, <1>4, <1>5, <1>6, <1>8
  <2>2. /\ m + 2 > 1 /\ (m + 2) - 1 = m + 1 /\ r[m + 1] = Mark("leave", addr'[n + 1] + 1)
    BY <1>1, <1>5, <1>6
  <2> QED BY <1>6, <2>1, <2>2 DEF ItemOK, Branching
<1>12. Waits(r, g, n + 1)
  <2>1. r[m + 2].tag \in Branching
    BY <1>4, <1>5 DEF Branching
  <2> QED BY <1>8, <2>1 DEF Waits
<1>13. /\ \A b \in m + 1..Len(r) : r[b].tag # "colon"
       /\ \A b \in m + 1..Len(r) : ItemOK(prog', addr', c, r, g, b)
  BY <1>4, <1>5, <1>8, <1>10, <1>11
<1>14. Does(prog, addr, code, prog', addr', c, "do", cs, f, r, g, m)
  BY <1>1, <1>2, <1>6, <1>7, <1>8, <1>9, <1>12, <1>13 DEF Does, n
<1>15. Built(prog', addr', c, r, g)
  BY <1>14, BuiltStep
<1> QED BY <1>6, <1>15

(* WHILE puts its branch below the destination of BEGIN.                   *)
LEMMA BuiltWhile ==
  ASSUME NEW f, Now(f), While, Structured' PROVE \E g : Built(prog', addr', code', cs', g)
<1> DEFINE n == Len(prog)
           L == Len(cs)
           m == L - 1
           c == code \o <<I("branch0?"), Arg(1)>>
           x == Mark("orig", Here(code) + 1)
           y == Top(cs)
           r == Pop(cs, 1) \o <<x, y>>
<1>1. /\ prog \in Seq(Words) /\ addr \in Seq(Nat) /\ code \in Seq(Cells) /\ cs \in Seq(Items)
      /\ Built(prog, addr, code, cs, f) /\ f \in [1..L -> Nat] /\ L \in Nat /\ L > 0
      /\ {"while", "misplaced"} \subseteq Words /\ {"while"} \subseteq Wide
      /\ Len(code) \in Nat /\ Here(code) = Len(code) + 1
  BY DEF Now, Built, Words, Wide, Here
<1>2. c \in Seq(Cells) /\ Len(c) = Len(code) + 2 /\ \A i \in 1..Len(code) : c[i] = code[i]
  BY <1>1, Pair DEF Ops
<1>3. Compile("while", c, r) /\ y.tag = "dest"
  <2>1. Compile(IF y.tag = "dest" THEN "while" ELSE "misplaced", c, r)
    BY DEF While
  <2>2. ASSUME y.tag # "dest" PROVE FALSE
    <3>1. Compile("misplaced", c, r)
      BY <2>1, <2>2
    <3>2. /\ prog' = Append(prog, "misplaced") /\ "misplaced" \in Words
      BY <1>1, <3>1 DEF Compile
    <3>3. Len(prog') = Len(prog) + 1 /\ prog'[Len(prog) + 1] = "misplaced" /\ Len(prog) \in Nat
          /\ prog' \in Seq(Words)
      BY <1>1, <3>2, AppendProperties
    <3>4. Len(prog) + 1 \in DOMAIN prog'
      BY <3>3
    <3> QED BY <3>3, <3>4 DEF Structured
  <2> QED BY <2>1, <2>2
<1> HIDE DEF c
<1>4. /\ L \in 1..L /\ y = cs[L] /\ y \in Items /\ L > 1 /\ m \in Nat /\ m > 0 /\ m + 1 = L
      /\ x \in Items /\ x.tag = "orig" /\ x.at = Here(code) + 1
  <2>1. L \in 1..L /\ y = cs[L] /\ y \in Items
    BY <1>1 DEF Top
  <2>2. L # 1
    BY <1>1, <1>3, <2>1 DEF Built
  <2>3. Here(code) + 1 \in Nat
    BY <1>1
  <2>4. x \in Items /\ x.tag = "orig" /\ x.at = Here(code) + 1
    BY <2>3 DEF Mark, Items, Tags
  <2>5. L \in Nat /\ L > 0
    BY <1>1
  <2> HIDE DEF L, x, y
  <2>6. L > 1 /\ L - 1 \in Nat /\ L - 1 > 0 /\ (L - 1) + 1 = L
    BY <2>2, <2>5
  <2> QED BY <2>1, <2>4, <2>6
<1> HIDE DEF x, y
<1>5. /\ r \in Seq(Items) /\ Len(r) = m + 2 /\ r[m + 1] = x /\ r[m + 2] = y
      /\ \A a \in 1..m : r[a] = cs[a]
  <2> DEFINE b == Pop(cs, 1)
  <2>1. b \in Seq(Items) /\ Len(b) = m /\ \A a \in 1..m : b[a] = cs[a]
    <3>1. cs \in Seq(Items) /\ 1 <= Len(cs) /\ 1 \in Nat
      BY <1>1
    <3> QED BY <3>1, PopType
  <2> HIDE DEF b, m
  <2>2. <<x, y>> \in Seq(Items) /\ Len(<<x, y>>) = 2
    BY <1>4
  <2>3. b \o <<x, y>> \in Seq(Items) /\ Len(b \o <<x, y>>) = m + 2
        /\ (b \o <<x, y>>)[m + 1] = x /\ (b \o <<x, y>>)[m + 2] = y
        /\ \A a \in 1..m : (b \o <<x, y>>)[a] = b[a]
    BY <1>4, <2>1, <2>2, ConcatProperties
  <2> QED BY <2>1, <2>3 DEF b
<1> HIDE DEF r
<1>6. /\ Grown(prog, addr, code, prog', addr', c, "while") /\ code' = c /\ cs' = r
      /\ n \in Nat /\ Len(prog') = n + 1 /\ prog'[n + 1] = "while" /\ addr'[n + 1] = Here(code)
  <2>1. Len(c) >= Len(code) /\ Len(c) >= Len(code) + 2
    BY <1>1, <1>2
  <2> QED BY <1>1, <1>2, <1>3, <2>1, Growing
<1> HIDE DEF L, m, n
<1>7. PICK g : /\ Stays(cs, f, r, g, m) /\ g[m + 1] = n + 1 /\ g[m + 2] = f[L]
  <2> DEFINE h == [b \in m + 1..Len(r) |-> IF b = m + 1 THEN n + 1 ELSE f[L]]
  <2>1. h \in [m + 1..Len(r) -> Nat] /\ m <= Len(cs) /\ m <= Len(r)
    <3>1. f[L] \in Nat /\ n + 1 \in Nat
      BY <1>1, <1>4, <1>6
    <3> QED BY <1>1, <1>4, <1>5, <3>1 DEF L
  <2>2. m + 1 \in m + 1..Len(r) /\ m + 2 \in m + 1..Len(r) /\ m + 2 # m + 1
    BY <1>4, <1>5
  <2>3. h[m + 1] = n + 1 /\ h[m + 2] = f[L]
    BY <2>2
  <2> HIDE DEF h
  <2>4. f \in [1..Len(cs) -> Nat]
    BY <1>1 DEF L
  <2>5. PICK g : Stays(cs, f, r, g, m) /\ \A b \in m + 1..Len(r) : g[b] = h[b]
    BY <1>1, <1>4, <1>5, <2>1, <2>4, Ghost
  <2> QED BY <2>2, <2>3, <2>5
<1>8. /\ \A a \in m + 1..Len(cs) : a = L
      /\ L \in m + 1..Len(cs) /\ L \in 1..Len(cs)
      /\ \A b \in m + 1..Len(r) : b = m + 1 \/ b = m + 2
      /\ m + 2 \in m + 1..Len(r) /\ m + 1 \in m + 1..Len(r)
      /\ m + 1 \in 1..Len(r)
  <2>0. L = Len(cs) /\ L \in Nat /\ m \in Nat /\ L = m + 1 /\ Len(r) = m + 2
    BY <1>1, <1>4, <1>5 DEF L
  <2>1. \A a \in m + 1..Len(cs) : a = L
    BY <2>0
  <2>2. L \in m + 1..Len(cs) /\ L \in 1..Len(cs)
    BY <2>0
  <2>3. \A b \in m + 1..Len(r) : b = m + 1 \/ b = m + 2
    BY <2>0
  <2>4. m + 2 \in m + 1..Len(r) /\ m + 1 \in m + 1..Len(r) /\ m + 1 \in 1..Len(r)
    BY <2>0
  <2> QED BY <2>1, <2>2, <2>3, <2>4
<1>9. cs[L].tag = "dest" /\ r[m + 1].tag = "orig" /\ r[m + 2].tag = "dest"
  BY <1>3, <1>4, <1>5
<1>10. ASSUME NEW k \in Kinds PROVE Turns(n, "while", cs, f, r, g, m, k)
  <2>1. ("while" \in Openers[k] <=> k = "orig") /\ "while" \notin Enders[k]
    BY Roles
  <2> QED BY <1>7, <1>8, <1>9, <2>1 DEF Turns
<1>11. ItemOK(prog', addr', c, r, g, m + 1)
  <2>1. /\ r[m + 1].at = addr'[n + 1] + 1 /\ g[m + 1] = n + 1
        /\ n + 1 \in 1..Len(prog') /\ prog'[n + 1] \in Wide
    BY <1>1, <1>4, <1>5, <1>6, <1>7
  <2> QED BY <1>9, <2>1 DEF ItemOK, Branching
<1>12. ItemOK(prog', addr', c, r, g, m + 2)
  <2>1. f[L] \in 1..Len(prog)
    BY <1>1, <1>8, <1>9, Known DEF Kinds
  <2>2. cs[L].at = After(prog, addr, code, f[L])
    BY <1>1, <1>8, <1>9 DEF Built, ItemOK
  <2>3. r[m + 2].at = After(prog', addr', c, g[m + 2])
    BY <1>4, <1>5, <1>6, <1>7, <2>1, <2>2, AfterStays
  <2> QED BY <1>9, <2>3 DEF ItemOK, Branching
<1>13. Waits(r, g, n + 1)
  <2>1. r[m + 1].tag \in Branching
    BY <1>9 DEF Branching
  <2> QED BY <1>7, <1>8, <2>1 DEF Waits
<1>14. /\ \A b \in m + 1..Len(r) : r[b].tag # "colon"
       /\ \A b \in m + 1..Len(r) : ItemOK(prog', addr', c, r, g, b)
       /\ \A a \in m + 1..Len(cs) : cs[a].tag \in Branching => Solved(prog', addr', c, f[a])
  BY <1>8, <1>9, <1>11, <1>12 DEF Branching
<1>15. Does(prog, addr, code, prog', addr', c, "while", cs, f, r, g, m)
  BY <1>1, <1>2, <1>4, <1>6, <1>7, <1>10, <1>13, <1>14 DEF Does, n
<1>16. Built(prog', addr', c, r, g)
  BY <1>15, BuiltStep
<1> QED BY <1>6, <1>16

(* So they keep what is known of the branches.                             *)
LEMMA BuiltResolves ==
  ASSUME NEW f, Now(f), Then \/ Else \/ Fallthrough PROVE \E g : Built(prog', addr', code', cs', g)
<1>1. /\ code \in Seq(Cells) /\ Len(code) \in Nat /\ cs \in Seq(Items) /\ Here(code) + 1 \in Nat
      /\ Len(cs) \in Nat
  BY DEF Now, Here
<1>2. ASSUME Len(cs) > 1
      PROVE  /\ Pop(cs, 1) \in Seq(Items) /\ Len(Pop(cs, 1)) = Len(cs) - 1
             /\ \A a \in 1..Len(cs) - 1 : Pop(cs, 1)[a] = cs[a]
  <2>1. cs \in Seq(Items) /\ 1 \in Nat /\ 1 <= Len(cs)
    BY <1>1, <1>2
  <2> QED BY <2>1, PopType
<1>3. CASE Then
  <2>1. Compile("then", Patch(code, Top(cs).at), Pop(cs, 1))
    BY <1>3 DEF Then
  <2>2. Matches("then") /\ Wants("then") = <<"orig">>
    BY <2>1 DEF Compile, Wants
  <2>3. cs[Len(cs)].tag = "orig" /\ Len(cs) > 1
    BY <2>2, TopTags
  <2>4. Len(code) >= Len(code) /\ \A x \in 1..Len(code) : code[x] = code[x]
    BY <1>1
  <2> DEFINE r == Pop(cs, 1)
  <2>5. r \in Seq(Items) /\ Len(r) = Len(cs) - 1 /\ \A a \in 1..Len(cs) - 1 : r[a] = cs[a]
    BY <1>2, <2>3
  <2>6. Compile("then", Patch(code, Top(cs).at), r)
    BY <2>1
  <2> HIDE DEF r
  <2> QED BY <1>1, <2>3, <2>4, <2>5, <2>6, BuiltResolve
<1>4. CASE Else \/ Fallthrough
  <2>1. PICK w \in {"else", "fallthrough"}, o \in {1, 2}, y \in {"orig", "fallthrough"} :
          /\ Compile(w, Patch(code \o <<I("branch?"), Arg(o)>>, Top(cs).at),
                     Append(Pop(cs, 1), Mark(y, Here(code) + 1)))
          /\ w = "else" <=> y = "orig"
    BY <1>4 DEF Else, Fallthrough
  <2> DEFINE c == code \o <<I("branch?"), Arg(o)>>
             x == Mark(y, Here(code) + 1)
             r == Append(Pop(cs, 1), x)
  <2>2. c \in Seq(Cells) /\ Len(c) = Len(code) + 2 /\ \A i \in 1..Len(code) : c[i] = code[i]
    <3>1. o \in Int /\ "branch?" \in Ops
      BY DEF Ops
    <3> QED BY <1>1, <3>1, Pair
  <2>3. x \in Items /\ x.tag = y /\ x.at = Here(code) + 1
    BY <1>1 DEF Mark, Items, Tags
  <2>4. Matches(w) /\ Compile(w, Patch(c, Top(cs).at), r)
    BY <2>1 DEF Compile
  <2>5. /\ w = "else" => Wants(w) = <<"orig">>
        /\ w = "fallthrough" => Wants(w) = <<"of", "case">>
    BY DEF Wants
  <2> HIDE DEF c, x
  <2>6. /\ Len(cs) > 1
        /\ w = "else" => cs[Len(cs)].tag = "orig"
        /\ w = "fallthrough" => cs[Len(cs)].tag = "of" /\ cs[Len(cs) - 1].tag = "case"
    BY <2>1, <2>4, <2>5, TopTags
  <2>7. /\ r \in Seq(Items) /\ Len(r) = Len(cs) /\ r[Len(cs)] = x
        /\ \A a \in 1..Len(cs) - 1 : r[a] = cs[a]
    <3> DEFINE b == Pop(cs, 1)
    <3>1. b \in Seq(Items) /\ Len(b) = Len(cs) - 1 /\ \A a \in 1..Len(cs) - 1 : b[a] = cs[a]
      BY <1>2, <2>6
    <3> HIDE DEF b
    <3>2. /\ Append(b, x) \in Seq(Items) /\ Len(Append(b, x)) = Len(b) + 1
          /\ Append(b, x)[Len(b) + 1] = x /\ \A a \in 1..Len(b) : Append(b, x)[a] = b[a]
      BY <2>3, <3>1, AppendProperties
    <3>3. Len(b) + 1 = Len(cs)
      BY <1>1, <3>1
    <3> QED BY <3>1, <3>2, <3>3 DEF b
  <2> HIDE DEF r
  <2>8. /\ w \in {"then", "else", "fallthrough"} /\ w # "then" /\ Len(c) >= Len(code)
        /\ r[Len(cs)].at = Here(code) + 1
        /\ w # "fallthrough" => cs[Len(cs)].tag = "orig"
        /\ w = "else" => r[Len(cs)].tag = "orig"
        /\ w = "fallthrough" => r[Len(cs)].tag = "fallthrough"
    BY <1>1, <2>1, <2>2, <2>3, <2>6, <2>7
  <2> QED BY <2>2, <2>4, <2>6, <2>7, <2>8, BuiltResolve
<1> QED BY <1>3, <1>4

(* Words that branch back take one structure off the stack, or two.        *)
LEMMA BuiltTake ==
  ASSUME NEW f, Now(f), NEW w \in {"until", "again", "repeat", "loop"}, NEW e \in {1, 2},
         NEW d \in Seq(Cells), Len(d) = Len(code) + 2, Compile(w, d, Pop(cs, e)), Len(cs) > e,
         e = 1 <=> w \in {"until", "again"},
         cs[Len(cs)].tag = (IF w = "loop" THEN "do" ELSE "dest"),
         w = "repeat" => cs[Len(cs) - 1].tag = "orig",
         w = "loop" => cs[Len(cs) - 1].tag = "leave",
         d[Len(code) + 2] = Arg(cs[Len(cs)].at - (Len(code) + 2)),
         w = "repeat" => d[cs[Len(cs) - 1].at] = Arg(Here(d) - cs[Len(cs) - 1].at),
         w = "loop" => d[addr[f[Len(cs)]] + 1] = Arg(Here(d)),
         \A x \in 1..Len(code) : \/ d[x] = code[x]
                                 \/ w = "repeat" /\ x = addr[f[Len(cs) - 1]] + 1
                                 \/ w = "loop" /\ x = addr[f[Len(cs)]] + 1
  PROVE  \E g : Built(prog', addr', code', cs', g)
<1> DEFINE n == Len(prog)
           L == Len(cs)
           m == L - e
           r == Pop(cs, e)
           k == IF w = "loop" THEN "do" ELSE "dest"
<1>1. /\ prog \in Seq(Words) /\ addr \in Seq(Nat) /\ code \in Seq(Cells) /\ cs \in Seq(Items)
      /\ Built(prog, addr, code, cs, f) /\ f \in [1..L -> Nat]
  BY DEF Now, Built
<1>2. /\ L \in Nat /\ e \in Nat /\ m \in Nat /\ m > 0 /\ m <= L /\ L = m + e
      /\ w \in Words /\ w # "of" /\ k \in {"dest", "do"} /\ k \in Kinds
  BY <1>1 DEF Kinds, Words
<1>3. r \in Seq(Items) /\ Len(r) = m /\ \A a \in 1..m : r[a] = cs[a]
  <2>1. e <= Len(cs)
    BY <1>1
  <2> QED BY <1>1, <1>2, <2>1, PopType
<1> HIDE DEF r
<1>4. /\ Grown(prog, addr, code, prog', addr', d, w) /\ code' = d /\ cs' = r
      /\ n \in Nat /\ Len(prog') = n + 1 /\ prog'[n + 1] = w /\ addr'[n + 1] = Here(code)
      /\ After(prog', addr', d, n + 1) = Here(d) /\ Extended(prog, prog', w)
      /\ \A i \in 1..n : prog'[i] = prog[i] /\ addr'[i] = addr[i] /\ addr[i] \in Nat
  <2>1. Len(d) >= Len(code) /\ Len(d) >= Len(code) + 2
    BY <1>1
  <2>2. Compile(w, d, r)
    BY DEF r
  <2> QED BY <1>1, <1>2, <2>1, <2>2, Growing
<1>5. Renewed(cs, f, r, m, 0)
  <2>1. m <= Len(cs) /\ m <= Len(r) /\ 0 \in Nat /\ f \in [1..Len(cs) -> Nat]
    BY <1>1, <1>2, <1>3
  <2> HIDE DEF m, L
  <2> QED BY <1>1, <1>2, <1>3, <2>1, GhostNew
<1>6. PICK g : Stays(cs, f, r, g, m)
  BY <1>5 DEF Renewed
<1>7. /\ \A a \in m + 1..Len(cs) : a = L \/ (e = 2 /\ a = L - 1)
      /\ L \in m + 1..Len(cs) /\ L \in 1..Len(cs)
      /\ e = 2 => L - 1 \in m + 1..Len(cs) /\ L - 1 \in 1..Len(cs)
      /\ \A b \in m + 1..Len(r) : FALSE
  <2>0. L = Len(cs) /\ L \in Nat /\ m \in Nat /\ m > 0 /\ L = m + e /\ Len(r) = m /\ e \in {1, 2}
    BY <1>2, <1>3
  <2> HIDE DEF L, m
  <2>1. \A a \in m + 1..Len(cs) : a = L \/ (e = 2 /\ a = L - 1)
    BY <2>0
  <2>2. L \in m + 1..Len(cs) /\ L \in 1..Len(cs)
    BY <2>0
  <2>3. e = 2 => L - 1 \in m + 1..Len(cs) /\ L - 1 \in 1..Len(cs)
    BY <2>0
  <2>4. \A b \in m + 1..Len(r) : FALSE
    BY <2>0
  <2> QED BY <2>1, <2>2, <2>3, <2>4
<1>8. /\ cs[L].tag = k
      /\ e = 2 <=> w \in {"repeat", "loop"}
      /\ w = "repeat" => cs[L - 1].tag = "orig" /\ k = "dest"
      /\ w = "loop" => cs[L - 1].tag = "leave" /\ k = "do"
      /\ d[Len(code) + 2] = Arg(cs[L].at - (Len(code) + 2))
      /\ w = "repeat" => d[cs[L - 1].at] = Arg(Here(d) - cs[L - 1].at)
      /\ w = "loop" => d[addr[f[L]] + 1] = Arg(Here(d))
      /\ \A x \in 1..Len(code) : \/ d[x] = code[x]
                                 \/ w = "repeat" /\ x = addr[f[L - 1]] + 1
                                 \/ w = "loop" /\ x = addr[f[L]] + 1
  OBVIOUS
<1> HIDE DEF n, L, m, k
<1>9. ASSUME NEW h \in Kinds PROVE Turns(n, w, cs, f, r, g, m, h)
  <2>1. /\ w \in Enders[h] <=> h = k \/ (w = "repeat" /\ h = "orig")
        /\ w \notin Openers[h] /\ h # "leave"
    BY Roles DEF Kinds, k
  <2>2. \A a \in m + 1..Len(cs) : cs[a].tag = h => h = k \/ (w = "repeat" /\ h = "orig")
    BY <1>7, <1>8, <2>1
  <2>3. \A a, b \in m + 1..Len(cs) : cs[a].tag = h /\ cs[b].tag = h => a = b
    BY <1>7, <1>8, <2>1
  <2>4. h = k \/ (w = "repeat" /\ h = "orig") => \E a \in m + 1..Len(cs) : cs[a].tag = h
    BY <1>7, <1>8
  <2> QED BY <1>7, <2>1, <2>2, <2>3, <2>4 DEF Turns
<1>10. w \in Enders[k] /\ Turns(Len(prog), w, cs, f, r, g, m, k)
  BY <1>2, <1>9, Roles DEF k, n
<1>11. Solved(prog', addr', d, n + 1)
  <2>1. L \in m + 1..Len(cs) /\ cs[L].tag = k
    BY <1>7, <1>8
  <2>2. Solved(prog', addr', d, Len(prog) + 1)
    <3>1. /\ Grown(prog, addr, code, prog', addr', d, w) /\ Stays(cs, f, r, g, m)
          /\ Built(prog, addr, code, cs, f) /\ cs \in Seq(Items) /\ k \in {"dest", "do"}
          /\ d[Len(code) + 2] = Arg(cs[L].at - (Len(code) + 2))
      BY <1>1, <1>2, <1>4, <1>6, <1>8
    <3> QED BY <1>10, <2>1, <3>1, BackSolved
  <2> QED BY <2>2 DEF n
<1>12. ASSUME w = "repeat" PROVE Solved(prog', addr', d, f[L - 1])
  <2> DEFINE a == L - 1
  <2>1. /\ a \in m + 1..Len(cs) /\ cs[a].tag = "orig" /\ d[cs[a].at] = Arg(Here(d) - cs[a].at)
    BY <1>7, <1>8, <1>12
  <2>2. /\ w \in Enders["orig"] /\ Turns(Len(prog), w, cs, f, r, g, m, "orig")
        /\ "orig" \in {"orig", "of"}
    BY <1>9, <1>12 DEF n, Kinds, Enders
  <2> HIDE DEF a
  <2>3. Solved(prog', addr', d, f[a])
    <3>1. /\ Grown(prog, addr, code, prog', addr', d, w) /\ Stays(cs, f, r, g, m)
          /\ Built(prog, addr, code, cs, f) /\ cs \in Seq(Items)
      BY <1>1, <1>4, <1>6
    <3> QED BY <2>1, <2>2, <3>1, ForwardSolved
  <2> QED BY <2>3 DEF a
<1>13. ASSUME w = "loop" PROVE Solved(prog', addr', d, f[L])
  <2> DEFINE t == f[L]
  <2>1. /\ t \in 1..n /\ prog[t] \in Openers["do"]
    <3>1. cs[L].tag = "do" /\ "do" \in Kinds /\ L \in 1..Len(cs)
      BY <1>7, <1>8, <1>13 DEF Kinds
    <3> QED BY <1>1, <3>1, Known DEF n
  <2>2. Nested(prog, "do") /\ Listed(prog, cs, f, "do")
    BY <1>1 DEF Built, Kinds
  <2>3. Matched(prog', "do", t, n + 1)
    BY <1>4, <1>6, <1>7, <1>8, <1>10, <1>13, <2>2, ListedStep DEF n
  <2>4. /\ prog'[t] = "do" /\ addr'[t] = addr[t] /\ n + 1 \in 1..Len(prog')
        /\ d[addr[t] + 1].arg = Here(d)
    BY <1>4, <1>8, <1>13, <2>1 DEF Openers, Arg
  <2> HIDE DEF t
  <2>5. Solved(prog', addr', d, t)
    BY <1>4, <2>3, <2>4, SolvedDo
  <2> QED BY <2>5 DEF t
<1>14. /\ \A b \in m + 1..Len(r) : r[b].tag # "colon"
       /\ \A b \in m + 1..Len(r) : ItemOK(prog', addr', d, r, g, b)
  BY <1>7
<1>15. \A a \in m + 1..Len(cs) : cs[a].tag \in Branching => Solved(prog', addr', d, f[a])
  BY <1>7, <1>8, <1>12, <1>13 DEF Branching, k
<1>16. \A x \in 1..Len(code) : \/ d[x] = code[x]
                               \/ \E a \in m + 1..Len(cs) :
                                    cs[a].tag \in Branching /\ x = addr[f[a]] + 1
  BY <1>7, <1>8 DEF Branching
<1>17. Does(prog, addr, code, prog', addr', d, w, cs, f, r, g, m)
  BY <1>1, <1>2, <1>4, <1>6, <1>9, <1>11, <1>14, <1>15, <1>16 DEF Does, n
<1>18. Built(prog', addr', d, r, g)
  BY <1>17, BuiltStep
<1> QED BY <1>4, <1>18

(* So UNTIL, AGAIN, REPEAT and LOOP keep what is known of the branches.    *)
LEMMA BuiltTakes ==
  ASSUME NEW f, Now(f), Until \/ Again \/ Repeat \/ Loop PROVE \E g : Built(prog', addr', code', cs', g)
<1>1. /\ prog \in Seq(Words) /\ addr \in Seq(Nat) /\ code \in Seq(Cells) /\ cs \in Seq(Items)
      /\ Built(prog, addr, code, cs, f) /\ Len(cs) \in Nat /\ Len(code) \in Nat
  BY DEF Now
<1> DEFINE Pairs(o) == Append(Append(code, I(o)), Back(Append(code, I(o)), Top(cs).at))
           L == Len(cs)
<1>2. ASSUME L > 1, NEW o \in Ops
      PROVE  /\ Pairs(o) \in Seq(Cells) /\ Len(Pairs(o)) = Len(code) + 2
             /\ Pairs(o)[Len(code) + 2] = Arg(cs[L].at - (Len(code) + 2))
             /\ \A i \in 1..Len(code) : Pairs(o)[i] = code[i]
  <2> DEFINE u == Top(cs).at
  <2>1. u \in Nat /\ u = cs[L].at
    <3>1. L \in 1..Len(cs)
      BY <1>1, <1>2
    <3> QED BY <1>1, <3>1, Known DEF Top
  <2> HIDE DEF u
  <2>2. LET d == Append(Append(code, I(o)), Back(Append(code, I(o)), u)) IN
        /\ d \in Seq(Cells) /\ Len(d) = Len(code) + 2
        /\ d[Len(code) + 2] = Arg(u - (Len(code) + 2))
        /\ \A i \in 1..Len(code) : d[i] = code[i]
    BY <1>1, <2>1, PairBack
  <2> QED BY <2>1, <2>2 DEF u
<1>3. CASE Until \/ Again
  <2>1. PICK w \in {"until", "again"}, o \in Ops : Compile(w, Pairs(o), Pop(cs, 1))
    BY <1>3 DEF Until, Again, Backward, Ops
  <2>2. Matches(w) /\ Wants(w) = <<"dest">>
    BY <2>1 DEF Compile, Wants
  <2>3. L > 1 /\ cs[L].tag = "dest"
    BY <2>2, TopTags
  <2> DEFINE d == Pairs(o)
  <2>4. /\ d \in Seq(Cells) /\ Len(d) = Len(code) + 2
        /\ d[Len(code) + 2] = Arg(cs[L].at - (Len(code) + 2))
        /\ \A i \in 1..Len(code) : d[i] = code[i]
    BY <1>2, <2>3
  <2>5. Compile(w, d, Pop(cs, 1))
    BY <2>1
  <2> HIDE DEF d, Pairs
  <2>6. w \in {"until", "again", "repeat", "loop"} /\ w # "repeat" /\ w # "loop"
    OBVIOUS
  <2> QED BY <2>3, <2>4, <2>5, <2>6, BuiltTake
<1>4. CASE Repeat
  <2> DEFINE b == Pairs("branch?")
             d == Patch(b, cs[L - 1].at)
  <2>1. Compile("repeat", d, Pop(cs, 2))
    BY <1>4 DEF Repeat
  <2>2. Matches("repeat") /\ Wants("repeat") = <<"dest", "orig">>
    BY <2>1 DEF Compile, Wants
  <2>3. L > 2 /\ cs[L].tag = "dest" /\ cs[L - 1].tag = "orig"
    BY <2>2, TopTags
  <2>4. /\ b \in Seq(Cells) /\ Len(b) = Len(code) + 2
        /\ b[Len(code) + 2] = Arg(cs[L].at - (Len(code) + 2))
        /\ \A i \in 1..Len(code) : b[i] = code[i]
    BY <1>1, <1>2, <2>3 DEF Ops
  <2> HIDE DEF b, Pairs
  <2>5. PatchOf(b, d, L - 1, f)
    <3> DEFINE a == L - 1
    <3>1. a \in 1..Len(cs) /\ cs[a].tag \in Branching \ {"do"}
      BY <1>1, <2>3 DEF Branching
    <3> HIDE DEF a
    <3>2. Len(b) >= Len(code)
      BY <1>1, <2>4
    <3>3. PatchOf(b, Patch(b, cs[a].at), a, f)
      BY <2>4, <3>1, <3>2, Patched
    <3> QED BY <3>3 DEF a
  <2> HIDE DEF d
  <2>6. /\ d \in Seq(Cells) /\ Len(d) = Len(code) + 2
        /\ d[cs[L - 1].at] = Arg(Here(d) - cs[L - 1].at)
        /\ \A x \in 1..Len(code) : d[x] = code[x] \/ x = addr[f[L - 1]] + 1
    BY <2>4, <2>5 DEF PatchOf
  <2>7. d[Len(code) + 2] = Arg(cs[L].at - (Len(code) + 2))
    <3>1. Len(code) + 2 \in 1..Len(b) /\ Len(code) + 2 > Len(code)
      BY <1>1, <2>4
    <3> QED BY <2>4, <2>5, <3>1 DEF PatchOf
  <2> QED BY <2>1, <2>3, <2>6, <2>7, BuiltTake
<1>5. CASE Loop
  <2> DEFINE b == Pairs("loop")
             t == cs[L - 1].at
             d == [b EXCEPT ![t] = Arg(Here(b))]
  <2>0. ASSUME NEW x PROVE Here([b EXCEPT ![x] = Arg(Here(b))]) = Here(b)
    BY DEF Here
  <2>1. Compile("loop", d, Pop(cs, 2))
    BY <1>5 DEF Loop
  <2>2. Matches("loop") /\ Wants("loop") = <<"do">>
    BY <2>1 DEF Compile, Wants
  <2>3. L > 1 /\ cs[L].tag = "do" /\ L \in 1..Len(cs)
    BY <1>1, <2>2, TopTags
  <2>4. /\ b \in Seq(Cells) /\ Len(b) = Len(code) + 2
        /\ b[Len(code) + 2] = Arg(cs[L].at - (Len(code) + 2))
        /\ \A i \in 1..Len(code) : b[i] = code[i]
    BY <1>1, <1>2, <2>3 DEF Ops
  <2> HIDE DEF b, Pairs
  <2>5. /\ addr[f[L]] + 1 \in 1..Len(code) /\ addr[f[L]] \in Nat
        /\ cs[L - 1] = Mark("leave", addr[f[L]] + 1)
    <3>1. cs[L].tag \in Branching /\ ItemOK(prog, addr, code, cs, f, L)
      BY <1>1, <2>3 DEF Branching, Built
    <3>2. addr[f[L]] + 1 \in 1..Len(code) /\ addr[f[L]] \in Nat
      BY <1>1, <2>3, <3>1, Known
    <3> QED BY <2>3, <3>1, <3>2 DEF ItemOK
  <2>6. t = addr[f[L]] + 1 /\ cs[L - 1].tag = "leave"
    BY <2>5 DEF Mark
  <2> HIDE DEF t
  <2>7. /\ d \in Seq(Cells) /\ Len(d) = Len(b)
        /\ \A i \in 1..Len(b) : d[i] = IF i = t THEN Arg(Here(b)) ELSE b[i]
    <3> DEFINE h == Here(b)
    <3>1. h \in Int /\ DOMAIN b = 1..Len(b)
      BY <2>4 DEF Here
    <3> HIDE DEF h
    <3>2. /\ [b EXCEPT ![t] = Arg(h)] \in Seq(Cells) /\ Len([b EXCEPT ![t] = Arg(h)]) = Len(b)
          /\ \A i \in DOMAIN b : [b EXCEPT ![t] = Arg(h)][i] = IF i = t THEN Arg(h) ELSE b[i]
      BY <2>4, <3>1, PatchCell
    <3> QED BY <3>1, <3>2 DEF h
  <2> HIDE DEF d
  <2>8. Here(d) = Here(b)
    BY <2>7 DEF Here
  <2>9. d[addr[f[L]] + 1] = Arg(Here(d))
    <3>1. t \in 1..Len(b)
      BY <1>1, <2>4, <2>5, <2>6
    <3> QED BY <2>6, <2>7, <2>8, <3>1
  <2>10. d[Len(code) + 2] = Arg(cs[L].at - (Len(code) + 2))
    <3>1. Len(code) + 2 \in 1..Len(b) /\ Len(code) + 2 # t
      BY <1>1, <2>4, <2>5, <2>6
    <3> QED BY <2>4, <2>7, <3>1
  <2>11. \A x \in 1..Len(code) : d[x] = code[x] \/ x = addr[f[L]] + 1
    <3>1. \A x \in 1..Len(code) : x \in 1..Len(b)
      BY <1>1, <2>4
    <3> QED BY <2>4, <2>6, <2>7, <3>1
  <2>12. L > 2 /\ Len(d) = Len(code) + 2
    <3>1. L - 1 \in 1..Len(cs) /\ cs[L - 1].tag # "colon"
      BY <1>1, <2>3, <2>6
    <3>2. L - 1 # 1
      <4> DEFINE a == L - 1
      <4> HIDE DEF a
      <4>1. a \in 1..Len(cs) => (cs[a].tag = "colon" <=> a = 1)
        BY <1>1 DEF Built
      <4> QED BY <3>1, <4>1 DEF a
    <3>3. Len(d) = Len(code) + 2
      BY <2>4, <2>7
    <3>4. L \in Nat /\ L > 1
      BY <1>1, <2>3
    <3> HIDE DEF L
    <3>5. L > 2
      BY <3>2, <3>4
    <3> QED BY <3>3, <3>5
  <2> QED BY <2>1, <2>3, <2>6, <2>9, <2>10, <2>7, <2>11, <2>12, BuiltTake
<1> QED BY <1>3, <1>4, <1>5

(* A word that is resolved behind another one leads there.                 *)
LEMMA LandsHere ==
  ASSUME NEW p, NEW ad, NEW c, NEW q, NEW bd, NEW d, NEW w, Grown(p, ad, c, q, bd, d, w),
         NEW i \in 1..Len(p), d[ad[i] + 1] = Arg(Here(d) - (ad[i] + 1))
  PROVE  Lands(q, bd, d, i, Len(p) + 1)
<1>1. /\ Len(p) \in Nat /\ Len(q) = Len(p) + 1 /\ bd[i] = ad[i] /\ ad[i] \in Nat
      /\ Here(d) = Len(d) + 1 /\ Len(d) \in Nat
  <2>1. Extended(p, q, w) /\ bd[i] = ad[i] /\ ad \in Seq(Nat) /\ Len(ad) = Len(p) /\ d \in Seq(Cells)
    BY DEF Grown
  <2>2. Len(p) \in Nat /\ Len(q) = Len(p) + 1
    BY <2>1 DEF Extended
  <2>3. ad[i] \in Nat
    BY <2>1
  <2>4. Here(d) = Len(d) + 1 /\ Len(d) \in Nat
    BY <2>1 DEF Here
  <2> QED BY <2>1, <2>2, <2>3, <2>4
<1>2. Target(d, bd[i]) = Here(d)
  BY <1>1 DEF Target, Arg
<1>3. After(q, bd, d, Len(p) + 1) = Here(d)
  BY <1>1 DEF After
<1> QED BY <1>2, <1>3 DEF Lands

(* OF pushes its branch, and resolves the FALLTHROUGH that waits for it.   *)
LEMMA BuiltOf ==
  ASSUME NEW f, Now(f), Of PROVE \E g : Built(prog', addr', code', cs', g)
<1> DEFINE n == Len(prog)
           L == Len(cs)
           m == L - 1
           c == code \o <<I("of"), Arg(2)>>
           x == Mark("of", Here(code) + 1)
           d == Patch(c, cs[L].at)
           r == Append(Pop(cs, 1), x)
<1>1. /\ prog \in Seq(Words) /\ addr \in Seq(Nat) /\ code \in Seq(Cells) /\ cs \in Seq(Items)
      /\ Built(prog, addr, code, cs, f) /\ f \in [1..L -> Nat] /\ L \in Nat
      /\ "of" \in Words /\ "of" \in Wide
      /\ Len(code) \in Nat /\ Here(code) = Len(code) + 1 /\ Here(code) + 1 \in Nat
  BY DEF Now, Built, Words, Wide, Here
<1>2. c \in Seq(Cells) /\ Len(c) = Len(code) + 2 /\ \A i \in 1..Len(code) : c[i] = code[i]
  BY <1>1, Pair DEF Ops
<1>3. x \in Items /\ x.tag = "of" /\ x.at = Here(code) + 1
  BY <1>1 DEF Mark, Items, Tags
<1>4. \A k \in Kinds : "of" \notin Enders[k] /\ ("of" \in Openers[k] <=> k = "of")
  BY Roles
<1>5. CASE Top(cs).tag # "fallthrough"
  <2>1. Compile("of", c, Append(cs, x))
    BY <1>5 DEF Of
  <2>2. Matches("of") /\ Wants("of") = <<"case">>
    BY <1>5, <2>1 DEF Compile, Wants
  <2>3. Top(cs).tag = "case"
    BY <2>2, TopTags DEF Top
  <2>4. Len(c) >= Len(code) /\ Len(c) >= Len(code) + 2
    BY <1>1, <1>2
  <2>5. \A k \in Kinds : "of" \notin Enders[k] /\ ("of" \in Openers[k] <=> x.tag = k)
    BY <1>3, <1>4
  <2> HIDE DEF c, x
  <2> QED BY <1>1, <1>2, <1>3, <2>1, <2>3, <2>4, <2>5, BuiltPush
<1>6. CASE Top(cs).tag = "fallthrough"
  <2>1. Compile("of", d, r)
    BY <1>6 DEF Of, Top
  <2>2. Matches("of") /\ Wants("of") = <<"fallthrough", "case">>
    BY <1>6, <2>1 DEF Compile, Wants
  <2> HIDE DEF c, x
  <2>3. cs[L].tag = "fallthrough" /\ cs[m].tag = "case" /\ L > 2
    BY <2>2, TopTags
  <2>4. L \in Nat /\ m \in Nat /\ m > 0 /\ m <= L /\ L = m + 1 /\ L \in 1..L /\ m \in 1..L
    BY <1>1, <2>3
  <2>5. r \in Seq(Items) /\ Len(r) = L /\ r[L] = x /\ \A a \in 1..m : r[a] = cs[a]
    <3> DEFINE b == Pop(cs, 1)
    <3>1. b \in Seq(Items) /\ Len(b) = m /\ \A a \in 1..m : b[a] = cs[a]
      <4>1. cs \in Seq(Items) /\ 1 <= Len(cs) /\ 1 \in Nat
        BY <1>1, <2>4
      <4> QED BY <4>1, PopType
    <3> HIDE DEF b, m, L
    <3>2. /\ Append(b, x) \in Seq(Items) /\ Len(Append(b, x)) = Len(b) + 1
          /\ Append(b, x)[Len(b) + 1] = x /\ \A a \in 1..Len(b) : Append(b, x)[a] = b[a]
      BY <1>3, <3>1, AppendProperties
    <3> QED BY <2>4, <3>1, <3>2 DEF b
  <2> HIDE DEF r
  <2>6. PatchOf(c, d, L, f)
    <3>1. L \in 1..Len(cs) /\ cs[L].tag \in Branching \ {"do"} /\ Len(c) >= Len(code)
      BY <1>1, <1>2, <2>3, <2>4 DEF Branching
    <3> HIDE DEF L
    <3> QED BY <1>2, <3>1, Patched
  <2> HIDE DEF d
  <2>7. /\ d \in Seq(Cells) /\ Len(d) = Len(code) + 2 /\ d[cs[L].at] = Arg(Here(d) - cs[L].at)
        /\ \A i \in 1..Len(code) : d[i] = code[i] \/ i = addr[f[L]] + 1
    BY <1>2, <2>6 DEF PatchOf
  <2>8. /\ Grown(prog, addr, code, prog', addr', d, "of") /\ code' = d /\ cs' = r
        /\ n \in Nat /\ Len(prog') = n + 1 /\ prog'[n + 1] = "of" /\ addr'[n + 1] = Here(code)
        /\ Extended(prog, prog', "of")
        /\ \A i \in 1..n : prog'[i] = prog[i]
    <3>1. Len(d) >= Len(code) /\ Len(d) >= Len(code) + 2
      BY <1>1, <2>7
    <3> QED BY <1>1, <2>1, <2>7, <3>1, Growing
  <2>9. Renewed(cs, f, r, m, n + 1)
    <3> DEFINE h == n + 1
    <3>1. h \in Nat /\ m <= Len(cs) /\ m <= Len(r) /\ f \in [1..Len(cs) -> Nat]
      BY <1>1, <2>4, <2>5, <2>8
    <3> HIDE DEF h, m, L
    <3>2. Renewed(cs, f, r, m, h)
      BY <1>1, <2>4, <2>5, <3>1, GhostNew
    <3> QED BY <3>2 DEF h
  <2>10. PICK g : Stays(cs, f, r, g, m) /\ \A b \in m + 1..Len(r) : g[b] = n + 1
    BY <2>9 DEF Renewed
  <2>11. /\ \A a \in m + 1..Len(cs) : a = L
         /\ L \in m + 1..Len(cs) /\ L \in 1..Len(cs) /\ m \in 1..Len(cs)
         /\ \A b \in m + 1..Len(r) : b = L
         /\ L \in m + 1..Len(r) /\ g[L] = n + 1 /\ L \in 1..Len(r)
    <3>0. L = Len(cs) /\ L \in Nat /\ m \in Nat /\ m > 0 /\ L = m + 1 /\ Len(r) = L
      BY <2>4, <2>5
    <3> HIDE DEF L, m
    <3>1. \A a \in m + 1..L : a = L
      BY <3>0
    <3>2. L \in m + 1..L /\ L \in 1..L /\ m \in 1..L
      BY <3>0
    <3> QED BY <2>10, <3>0, <3>1, <3>2
  <2> HIDE DEF n, m, L
  <2>12. ASSUME NEW h \in Kinds PROVE Turns(n, "of", cs, f, r, g, m, h)
    <3>1. "of" \notin Enders[h] /\ ("of" \in Openers[h] <=> h = "of") /\ h # "fallthrough"
      BY <1>4 DEF Kinds
    <3> QED BY <1>3, <2>3, <2>5, <2>11, <3>1 DEF Turns
  <2>13. /\ f[L] \in 1..n /\ f[m] \in 1..n /\ addr[f[L]] \in Nat /\ cs[L].at = addr[f[L]] + 1
         /\ prog[f[L]] = "fallthrough" /\ Within(prog, f[L], f[m])
         /\ NoOf(prog, f[m], f[L] + 1, n)
    <3>1. ItemOK(prog, addr, code, cs, f, L)
      BY <1>1, <2>11 DEF Built
    <3>2. L - 1 = m /\ cs[L].tag \in Branching \ {"do"} /\ cs[L].tag \in Branching
      BY <2>3, <2>4 DEF Branching
    <3>3. f[m] \in 1..n
      BY <1>1, <2>3, <2>11, Known DEF n, Kinds
    <3>4. f[L] \in 1..n /\ addr[f[L]] \in Nat /\ cs[L].at = addr[f[L]] + 1
      <4>1. L \in 1..Len(cs)
        BY <2>11
      <4>2. f[L] \in 1..Len(prog) /\ addr[f[L]] \in Nat
        BY <1>1, <3>2, <4>1, Known
      <4>3. cs[L].at = addr[f[L]] + 1
        BY <3>1, <3>2 DEF ItemOK
      <4> QED BY <4>2, <4>3 DEF n
    <3> QED BY <2>3, <3>1, <3>2, <3>3, <3>4 DEF ItemOK, n
  <2>14. Solved(prog', addr', d, f[L])
    <3> DEFINE t == f[L]
               u == f[m]
    <3>1. \A i \in 1..n : \A y : Within(prog', i, y) <=> Within(prog, i, y)
      BY <2>8, Steady DEF n
    <3>2. Within(prog', n + 1, u)
      <4>1. /\ Nested(prog, "case") /\ Listed(prog, cs, f, "case") /\ f \in [1..Len(cs) -> Nat]
            /\ \A b \in m + 1..Len(cs) : cs[b].tag # "case"
        BY <1>1, <2>3, <2>11 DEF Built, Kinds, L
      <4>2. "of" \notin {"case", "endcase"}
        OBVIOUS
      <4> QED BY <1>1, <2>3, <2>8, <2>11, <4>1, <4>2, WithinTop DEF n
    <3>3. NoOf(prog', u, t + 1, (n + 1) - 1)
      <4>1. \A i \in t + 1..(n + 1) - 1 : i \in 1..n /\ i \in t + 1..n
        BY <2>8, <2>13
      <4> QED BY <2>8, <2>13, <3>1, <4>1 DEF NoOf
    <3>4. Lands(prog', addr', d, t, n + 1)
      BY <2>7, <2>8, <2>13, LandsHere DEF n
    <3>5. /\ t \in 1..Len(prog') /\ u \in 1..Len(prog') /\ n + 1 \in 1..Len(prog')
          /\ n + 1 > t /\ prog'[t] = "fallthrough" /\ Within(prog', t, u)
      BY <2>8, <2>13, <3>1
    <3> DEFINE e == n + 1
    <3>6. e > t /\ prog'[e] = "of" /\ Within(prog', e, u) /\ NoOf(prog', u, t + 1, e - 1)
      BY <2>8, <3>2, <3>3, <3>5
    <3>7. e \in 1..Len(prog') /\ Lands(prog', addr', d, t, e)
      BY <3>4, <3>5
    <3> HIDE DEF t, u, e
    <3>8. Solved(prog', addr', d, t)
      BY <3>5, <3>6, <3>7, SolvedFallthrough
    <3> QED BY <3>8 DEF t
  <2>15. ItemOK(prog', addr', d, r, g, L)
    <3>1. /\ r[L].tag = "of" /\ r[L].at = addr'[n + 1] + 1 /\ g[L] = n + 1
          /\ n + 1 \in 1..Len(prog') /\ prog'[n + 1] \in Wide
      BY <1>1, <1>3, <2>5, <2>8, <2>11
    <3> QED BY <3>1 DEF ItemOK, Branching
  <2>16. Waits(r, g, n + 1)
    <3>1. r[L].tag \in Branching
      BY <1>3, <2>5 DEF Branching
    <3> QED BY <2>11, <3>1 DEF Waits
  <2>17. /\ \A b \in m + 1..Len(r) : r[b].tag # "colon"
         /\ \A b \in m + 1..Len(r) : ItemOK(prog', addr', d, r, g, b)
         /\ \A a \in m + 1..Len(cs) : cs[a].tag \in Branching => Solved(prog', addr', d, f[a])
         /\ \A b \in m + 1..Len(cs) : cs[b].tag # "case"
    BY <1>3, <2>3, <2>5, <2>11, <2>14, <2>15
  <2>18. \A i \in 1..Len(code) : \/ d[i] = code[i]
                                 \/ \E a \in m + 1..Len(cs) :
                                      cs[a].tag \in Branching /\ i = addr[f[a]] + 1
    BY <2>3, <2>7, <2>11 DEF Branching
  <2>19. Does(prog, addr, code, prog', addr', d, "of", cs, f, r, g, m)
    BY <1>1, <2>3, <2>4, <2>8, <2>10, <2>12, <2>16, <2>17, <2>18 DEF Does, n
  <2>20. Built(prog', addr', d, r, g)
    BY <2>19, BuiltStep
  <2> QED BY <2>8, <2>20
<1> QED BY <1>5, <1>6

(* ENDOF resolves the OF, and puts its own branch below the CASE.          *)
LEMMA BuiltEndOf ==
  ASSUME NEW f, Now(f), EndOf PROVE \E g : Built(prog', addr', code', cs', g)
<1> DEFINE n == Len(prog)
           L == Len(cs)
           m == L - 2
           k == L - 1
           N == cs[k].at
           c == code \o <<I("branch?"), Arg(2)>>
           x == Mark("fix", Here(code) + 1)
           y == Mark("case", N + 1)
           d == Patch(c, cs[L].at)
           r == Pop(cs, 2) \o <<x, y>>
<1>1. /\ prog \in Seq(Words) /\ addr \in Seq(Nat) /\ code \in Seq(Cells) /\ cs \in Seq(Items)
      /\ Built(prog, addr, code, cs, f) /\ f \in [1..L -> Nat] /\ L \in Nat
      /\ "endof" \in Words /\ "endof" \in Wide
      /\ Len(code) \in Nat /\ Here(code) = Len(code) + 1 /\ Here(code) + 1 \in Nat
  BY DEF Now, Built, Words, Wide, Here
<1>2. c \in Seq(Cells) /\ Len(c) = Len(code) + 2 /\ \A i \in 1..Len(code) : c[i] = code[i]
  BY <1>1, Pair DEF Ops
<1>3. Compile("endof", d, r)
  BY DEF EndOf, Top
<1>4. cs[L].tag = "of" /\ cs[k].tag = "case" /\ L > 2
  <2>1. Matches("endof") /\ Wants("endof") = <<"of", "case">>
    BY <1>3 DEF Compile, Wants
  <2> QED BY <2>1, TopTags
<1>5. /\ L \in Nat /\ m \in Nat /\ k \in Nat /\ m > 0 /\ m <= L /\ L = m + 2 /\ k = m + 1
      /\ L \in 1..L /\ k \in 1..L
  BY <1>1, <1>4
<1>6. N \in Nat /\ N < k /\ f[k] \in Nat /\ f[k] \in 1..n
  <2>1. k \in 1..Len(cs)
    BY <1>5
  <2> HIDE DEF k
  <2>2. cs[k].at \in Nat /\ f[k] \in Nat /\ f[k] \in 1..Len(prog)
    BY <1>1, <1>4, <2>1, Known DEF Kinds
  <2>3. cs[k].at < k
    BY <1>1, <1>4, <2>1 DEF Built, ItemOK
  <2> QED BY <2>2, <2>3
<1>7. /\ x \in Items /\ x.tag = "fix" /\ x.at = Here(code) + 1
      /\ y \in Items /\ y.tag = "case" /\ y.at = N + 1
  <2> HIDE DEF N
  <2>1. N + 1 \in Nat
    BY <1>6
  <2> QED BY <1>1, <2>1 DEF Mark, Items, Tags
<1> HIDE DEF c, x, y
<1>8. /\ r \in Seq(Items) /\ Len(r) = m + 2 /\ r[m + 1] = x /\ r[m + 2] = y
      /\ \A a \in 1..m : r[a] = cs[a]
  <2> DEFINE b == Pop(cs, 2)
  <2>1. b \in Seq(Items) /\ Len(b) = m /\ \A a \in 1..m : b[a] = cs[a]
    <3>1. cs \in Seq(Items) /\ 2 <= Len(cs) /\ 2 \in Nat
      BY <1>1, <1>5
    <3> QED BY <3>1, PopType
  <2> HIDE DEF b, m
  <2>2. <<x, y>> \in Seq(Items) /\ Len(<<x, y>>) = 2
    BY <1>7
  <2>3. b \o <<x, y>> \in Seq(Items) /\ Len(b \o <<x, y>>) = m + 2
        /\ (b \o <<x, y>>)[m + 1] = x /\ (b \o <<x, y>>)[m + 2] = y
        /\ \A a \in 1..m : (b \o <<x, y>>)[a] = b[a]
    BY <1>5, <2>1, <2>2, ConcatProperties
  <2> QED BY <2>1, <2>3 DEF b
<1> HIDE DEF r
<1>9. PatchOf(c, d, L, f)
  <2>1. L \in 1..Len(cs) /\ cs[L].tag \in Branching \ {"do"} /\ Len(c) >= Len(code)
    BY <1>1, <1>2, <1>4, <1>5 DEF Branching
  <2> HIDE DEF L
  <2> QED BY <1>2, <2>1, Patched
<1> HIDE DEF d
<1>10. /\ d \in Seq(Cells) /\ Len(d) = Len(code) + 2 /\ d[cs[L].at] = Arg(Here(d) - cs[L].at)
       /\ \A i \in 1..Len(code) : d[i] = code[i] \/ i = addr[f[L]] + 1
  BY <1>2, <1>9 DEF PatchOf
<1>11. /\ Grown(prog, addr, code, prog', addr', d, "endof") /\ code' = d /\ cs' = r
       /\ n \in Nat /\ Len(prog') = n + 1 /\ prog'[n + 1] = "endof" /\ addr'[n + 1] = Here(code)
       /\ Extended(prog, prog', "endof")
       /\ \A i \in 1..n : prog'[i] = prog[i]
  <2>1. Len(d) >= Len(code) /\ Len(d) >= Len(code) + 2
    BY <1>1, <1>10
  <2> QED BY <1>1, <1>3, <1>10, <2>1, Growing
<1> HIDE DEF N
<1>12. PICK g : Stays(cs, f, r, g, m) /\ g[m + 1] = n + 1 /\ g[m + 2] = f[k]
  <2> DEFINE h == [b \in m + 1..Len(r) |-> IF b = m + 1 THEN n + 1 ELSE f[k]]
  <2>1. h \in [m + 1..Len(r) -> Nat]
    <3>1. f[k] \in Nat /\ n + 1 \in Nat
      BY <1>6, <1>11
    <3> QED BY <3>1
  <2>2. m + 1 \in m + 1..Len(r) /\ m + 2 \in m + 1..Len(r) /\ m + 2 # m + 1
    <3>1. m \in Nat /\ Len(r) = m + 2
      BY <1>5, <1>8
    <3> HIDE DEF m
    <3> QED BY <3>1
  <2>3. h[m + 1] = n + 1 /\ h[m + 2] = f[k]
    BY <2>2
  <2>4. f \in [1..Len(cs) -> Nat] /\ m <= Len(cs) /\ m <= Len(r)
    BY <1>1, <1>5, <1>8
  <2> HIDE DEF h, m
  <2>5. PICK g : Stays(cs, f, r, g, m) /\ \A b \in m + 1..Len(r) : g[b] = h[b]
    BY <1>1, <1>5, <1>8, <2>1, <2>4, Ghost
  <2> QED BY <2>2, <2>3, <2>5
<1>13. /\ \A a \in m + 1..Len(cs) : a = L \/ a = k
       /\ L \in m + 1..Len(cs) /\ k \in m + 1..Len(cs) /\ k # L
       /\ L \in 1..Len(cs) /\ k \in 1..Len(cs) /\ \A b \in k + 1..Len(cs) : b = L
       /\ \A b \in m + 1..Len(r) : b = m + 1 \/ b = m + 2
       /\ m + 1 \in m + 1..Len(r) /\ m + 2 \in m + 1..Len(r) /\ m + 1 \in 1..Len(r)
  <2>0. L = Len(cs) /\ L \in Nat /\ m \in Nat /\ m > 0 /\ L = m + 2 /\ k = m + 1 /\ Len(r) = L
    BY <1>5, <1>8
  <2> HIDE DEF L, m, k
  <2>1. /\ \A a \in m + 1..L : a = L \/ a = k
        /\ L \in m + 1..L /\ k \in m + 1..L /\ k # L
    BY <2>0
  <2>2. L \in 1..L /\ k \in 1..L /\ \A b \in k + 1..L : b = L
    BY <2>0
  <2>3. /\ \A b \in m + 1..L : b = m + 1 \/ b = m + 2
        /\ m + 1 \in m + 1..L /\ m + 2 \in m + 1..L /\ m + 1 \in 1..L
    BY <2>0
  <2> QED BY <2>0, <2>1, <2>2, <2>3
<1> HIDE DEF n, m, L, k
<1>14. ASSUME NEW h \in Kinds PROVE Turns(n, "endof", cs, f, r, g, m, h)
  <2>1. "endof" \notin Openers[h] /\ ("endof" \in Enders[h] <=> h = "of") /\ h # "fix"
    BY Roles DEF Kinds
  <2>2. r[m + 1].tag = "fix" /\ r[m + 2].tag = "case"
    BY <1>7, <1>8
  <2>3. \A a, b \in m + 1..Len(cs) : cs[a].tag = h /\ cs[b].tag = h => a = b
    BY <1>4, <1>13
  <2>4. \A a, b \in m + 1..Len(r) : r[a].tag = h /\ r[b].tag = h => a = b
    BY <1>13, <2>1, <2>2
  <2>5. "endof" \in Enders[h] => \E a \in m + 1..Len(cs) : cs[a].tag = h
    BY <1>4, <1>13, <2>1
  <2>6. \A a \in m + 1..Len(cs) : cs[a].tag = h =>
          "endof" \in Enders[h] \/ \E b \in m + 1..Len(r) : r[b].tag = h /\ g[b] = f[a]
    BY <1>4, <1>12, <1>13, <2>1, <2>2
  <2>7. \A b \in m + 1..Len(r) : r[b].tag = h =>
          "endof" \notin Enders[h] /\ \E a \in m + 1..Len(cs) : cs[a].tag = h /\ g[b] = f[a]
    BY <1>4, <1>12, <1>13, <2>1, <2>2
  <2> QED BY <2>1, <2>3, <2>4, <2>5, <2>6, <2>7 DEF Turns
<1>15. Solved(prog', addr', d, f[L])
  <2>1. "endof" \in Enders["of"] /\ Turns(Len(prog), "endof", cs, f, r, g, m, "of")
    BY <1>14 DEF Kinds, Enders, n
  <2>2. /\ Stays(cs, f, r, g, m) /\ "of" \in {"orig", "of"}
        /\ L \in m + 1..Len(cs) /\ cs[L].tag = "of" /\ d[cs[L].at] = Arg(Here(d) - cs[L].at)
    BY <1>4, <1>10, <1>12, <1>13
  <2>3. /\ Grown(prog, addr, code, prog', addr', d, "endof") /\ cs \in Seq(Items)
        /\ Built(prog, addr, code, cs, f)
    BY <1>1, <1>11
  <2> QED BY <2>1, <2>2, <2>3, ForwardSolved
<1>16. ItemOK(prog', addr', d, r, g, m + 1)
  <2>1. /\ r[m + 1].tag = "fix" /\ r[m + 1].at = addr'[n + 1] + 1 /\ g[m + 1] = n + 1
        /\ n + 1 \in 1..Len(prog') /\ prog'[n + 1] \in Wide /\ prog'[n + 1] = "endof"
    BY <1>1, <1>7, <1>8, <1>11, <1>12
  <2> QED BY <2>1 DEF ItemOK, Branching
<1>17. ItemOK(prog', addr', d, r, g, m + 2)
  <2>1. r[m + 2].tag = "case" /\ r[m + 2].at = N + 1 /\ N + 1 < m + 2
    BY <1>5, <1>6, <1>7, <1>8
  <2>2. Within(prog', n + 1, f[k])
    <3>1. /\ Nested(prog, "case") /\ Listed(prog, cs, f, "case") /\ f \in [1..Len(cs) -> Nat]
          /\ \A b \in k + 1..Len(cs) : cs[b].tag # "case"
      BY <1>1, <1>4, <1>13 DEF Built, Kinds, L
    <3>2. "endof" \notin {"case", "endcase"}
      OBVIOUS
    <3> QED BY <1>1, <1>4, <1>11, <1>13, <3>1, <3>2, WithinTop DEF n
  <2>3. ASSUME NEW b \in (m + 2) - (N + 1)..(m + 2) - 1
        PROVE  r[b].tag = "fix" /\ Within(prog', g[b], f[k])
    <3>1. b = m + 1 \/ (b \in k - N..k - 1 /\ b \in 1..m /\ b \in 1..Len(cs))
      BY <1>5, <1>6, <1>13 DEF L
    <3>2. CASE b = m + 1
      BY <1>7, <1>8, <1>12, <2>2, <3>2
    <3>3. CASE b \in k - N..k - 1 /\ b \in 1..m /\ b \in 1..Len(cs)
      <4>1. cs[b].tag = "fix" /\ Within(prog, f[b], f[k])
        <5>1. ItemOK(prog, addr, code, cs, f, k)
          BY <1>1, <1>13 DEF Built
        <5> QED BY <1>4, <3>3, <5>1 DEF ItemOK, N
      <4>2. f[b] \in 1..n
        BY <1>1, <3>3, <4>1, Known DEF n, Branching
      <4>3. Within(prog', f[b], f[k])
        BY <1>11, <4>1, <4>2, Steady DEF n
      <4> QED BY <1>8, <1>12, <3>3, <4>1, <4>3 DEF Stays
    <3> QED BY <3>1, <3>2, <3>3
  <2> QED BY <1>12, <2>1, <2>3 DEF ItemOK, Branching
<1>18. Waits(r, g, n + 1)
  <2>1. r[m + 1].tag \in Branching
    BY <1>7, <1>8 DEF Branching
  <2> QED BY <1>12, <1>13, <2>1 DEF Waits
<1>19. /\ \A b \in m + 1..Len(r) : r[b].tag # "colon"
       /\ \A b \in m + 1..Len(r) : ItemOK(prog', addr', d, r, g, b)
       /\ \A a \in m + 1..Len(cs) : cs[a].tag \in Branching => Solved(prog', addr', d, f[a])
  BY <1>4, <1>7, <1>8, <1>13, <1>15, <1>16, <1>17 DEF Branching
<1>20. \A i \in 1..Len(code) : \/ d[i] = code[i]
                               \/ \E a \in m + 1..Len(cs) :
                                    cs[a].tag \in Branching /\ i = addr[f[a]] + 1
  BY <1>4, <1>10, <1>13 DEF Branching
<1>21. Does(prog, addr, code, prog', addr', d, "endof", cs, f, r, g, m)
  BY <1>1, <1>5, <1>11, <1>12, <1>14, <1>18, <1>19, <1>20 DEF Does, n
<1>22. Built(prog', addr', d, r, g)
  BY <1>21, BuiltStep
<1> QED BY <1>11, <1>22

(* The operands of several branches are made to lead to HERE.              *)
LEMMA PatchAll ==
  ASSUME NEW c \in Seq(Cells), NEW S
  PROVE  LET d == [a \in DOMAIN c |-> IF a \in S THEN Arg(Here(c) - a) ELSE c[a]] IN
         /\ d \in Seq(Cells) /\ Len(d) = Len(c)
         /\ \A a \in 1..Len(c) : d[a] = IF a \in S THEN Arg(Here(c) - a) ELSE c[a]
<1> DEFINE d == [a \in DOMAIN c |-> IF a \in S THEN Arg(Here(c) - a) ELSE c[a]]
<1>1. DOMAIN c = 1..Len(c) /\ Len(c) \in Nat
  OBVIOUS
<1>2. \A a \in 1..Len(c) : Here(c) - a \in Int
  BY <1>1 DEF Here
<1>3. \A a \in 1..Len(c) : (IF a \in S THEN Arg(Here(c) - a) ELSE c[a]) \in Cells
  BY <1>2, CellTypes
<1>4. d \in [1..Len(c) -> Cells]
  BY <1>1, <1>3
<1>5. d \in Seq(Cells)
  BY <1>1, <1>4
<1>6. \A a \in 1..Len(c) : d[a] = IF a \in S THEN Arg(Here(c) - a) ELSE c[a]
  BY <1>1
<1>7. Len(d) = Len(c)
  <2> HIDE DEF d
  <2> QED BY <1>1, <1>4, <1>5
<1> QED BY <1>5, <1>6, <1>7

(* ENDCASE resolves the ENDOFs of its CASE and the FALLTHROUGH on top.     *)
LEMMA BuiltEndCase ==
  ASSUME NEW f, Now(f), EndCase PROVE \E g : Built(prog', addr', code', cs', g)
<1> DEFINE n    == Len(prog)
           L    == Len(cs)
           more == IF Top(cs).tag = "fallthrough" THEN 1 ELSE 0
           k    == L - more
           N    == cs[k].at
           m    == k - 1 - N
           c    == Append(code, I("drop"))
           s    == Pop(cs, 1 + more)
           fix  == {s[i].at : i \in Len(s) - N + 1..Len(s)}
                     \cup (IF more = 1 THEN {Top(cs).at} ELSE {})
           d    == [a \in DOMAIN c |-> IF a \in fix THEN Arg(Here(c) - a) ELSE c[a]]
           r    == Pop(s, N)
<1>1. /\ prog \in Seq(Words) /\ addr \in Seq(Nat) /\ code \in Seq(Cells) /\ cs \in Seq(Items)
      /\ Built(prog, addr, code, cs, f) /\ f \in [1..L -> Nat] /\ L \in Nat /\ L > 0
      /\ "endcase" \in Words /\ "endcase" \notin Wide
      /\ Len(code) \in Nat /\ Here(code) = Len(code) + 1
  BY DEF Now, Built, Words, Wide, Here
<1>2. c \in Seq(Cells) /\ Len(c) = Len(code) + 1 /\ \A i \in 1..Len(code) : c[i] = code[i]
  <2>1. I("drop") \in Cells
    BY CellTypes DEF Ops
  <2> QED BY <1>1, <2>1, AppendProperties
<1>3. Compile("endcase", d, r)
  BY DEF EndCase
<1>4. /\ more \in {0, 1} /\ k > 1 /\ cs[k].tag = "case"
      /\ more = 1 <=> cs[L].tag = "fallthrough"
  <2>1. Matches("endcase")
    BY <1>3 DEF Compile
  <2>2. CASE Top(cs).tag = "fallthrough"
    <3>1. Wants("endcase") = <<"fallthrough", "case">>
      BY <2>2 DEF Wants
    <3>2. cs[L - 1].tag = "case" /\ L > 2
      BY <2>1, <3>1, TopTags
    <3>3. more = 1
      BY <2>2
    <3> HIDE DEF more
    <3> QED BY <1>1, <2>2, <3>2, <3>3 DEF Top
  <2>3. CASE Top(cs).tag # "fallthrough"
    <3>1. Wants("endcase") = <<"case">>
      BY <2>3 DEF Wants
    <3>2. cs[L].tag = "case" /\ L > 1
      BY <2>1, <3>1, TopTags
    <3>3. more = 0 /\ L - 0 = L
      BY <1>1, <2>3
    <3> HIDE DEF more
    <3> QED BY <1>1, <2>3, <3>2, <3>3 DEF Top
  <2> QED BY <2>2, <2>3
<1>5. (more = 1 => Top(cs).at = cs[L].at)
  BY DEF Top
<1> HIDE DEF more, c, d
<1>6. k \in 1..Len(cs) /\ k \in Nat /\ L = k + more /\ more \in Nat
  BY <1>1, <1>4
<1>7. /\ N \in Nat /\ N < k /\ f[k] \in 1..n
      /\ \A b \in k - N..k - 1 : cs[b].tag = "fix" /\ Within(prog, f[b], f[k])
  <2> HIDE DEF k
  <2>1. cs[k].at \in Nat /\ f[k] \in 1..Len(prog)
    <3>1. /\ k \in 1..Len(cs) /\ cs[k].tag = "case" /\ "case" \in Kinds
          /\ prog \in Seq(Words) /\ addr \in Seq(Nat) /\ code \in Seq(Cells) /\ cs \in Seq(Items)
          /\ Built(prog, addr, code, cs, f)
      BY <1>1, <1>4, <1>6 DEF Kinds
    <3>2. cs[k].at \in Nat
      <4>1. cs[k] \in Items
        BY <3>1
      <4> QED BY <4>1 DEF Items
    <3>3. f[k] \in 1..Len(prog)
      <4>1. f[k] \in Pending(prog, "case")
        BY <3>1 DEF Built, Listed
      <4> QED BY <4>1 DEF Pending
    <3> QED BY <3>2, <3>3
  <2>2. ItemOK(prog, addr, code, cs, f, k)
    BY <1>1, <1>6 DEF Built
  <2> QED BY <1>4, <2>1, <2>2 DEF ItemOK
<1> HIDE DEF N
<1>8. m \in Nat /\ m > 0 /\ m < k /\ k = m + N + 1
  <2>1. m \in Int /\ m >= 0 /\ m < k /\ k = m + N + 1
    <3> HIDE DEF k
    <3> QED BY <1>6, <1>7
  <2>2. ASSUME m = 0 PROVE FALSE
    <3>1. 1 \in k - N..k - 1
      <4> HIDE DEF m, k
      <4> QED BY <1>4, <1>6, <1>7, <2>1, <2>2
    <3>2. cs[1].tag = "fix"
      BY <1>7, <3>1
    <3>3. cs[1].tag = "colon"
      BY <1>1 DEF Built
    <3> QED BY <3>2, <3>3
  <2> HIDE DEF m
  <2> QED BY <2>1, <2>2
<1> HIDE DEF k, L
<1>9. s \in Seq(Items) /\ Len(s) = k - 1 /\ \A a \in 1..k - 1 : s[a] = cs[a]
  <2> DEFINE e == 1 + more
  <2>1. e \in Nat /\ e <= Len(cs) /\ Len(cs) - e = k - 1
    BY <1>4, <1>6 DEF L
  <2> HIDE DEF e
  <2>2. Pop(cs, e) \in Seq(Items) /\ Len(Pop(cs, e)) = Len(cs) - e
        /\ \A a \in 1..Len(cs) - e : Pop(cs, e)[a] = cs[a]
    BY <1>1, <2>1, PopType
  <2> QED BY <2>1, <2>2 DEF e
<1> HIDE DEF s
<1>10. r \in Seq(Items) /\ Len(r) = m /\ \A a \in 1..m : r[a] = cs[a]
  <2>1. N \in Nat /\ N <= Len(s) /\ Len(s) - N = m
    BY <1>6, <1>7, <1>9
  <2> HIDE DEF m
  <2>2. Pop(s, N) \in Seq(Items) /\ Len(Pop(s, N)) = Len(s) - N
        /\ \A a \in 1..Len(s) - N : Pop(s, N)[a] = s[a]
    BY <1>9, <2>1, PopType
  <2>3. \A a \in 1..m : a \in 1..k - 1
    BY <1>6, <1>8
  <2> QED BY <1>9, <2>1, <2>2, <2>3
<1> HIDE DEF r
<1>11. /\ \A b \in m + 1..k - 1 : cs[b].tag = "fix" /\ Within(prog, f[b], f[k]) /\ b \in 1..Len(cs)
       /\ \A a \in m + 1..Len(cs) : \/ a \in m + 1..k - 1 \/ a = k
                                    \/ more = 1 /\ a = L /\ L = k + 1
       /\ k \in m + 1..Len(cs) /\ L \in 1..Len(cs)
       /\ \A a \in k + 1..Len(cs) : more = 1 /\ a = L /\ L = k + 1
       /\ \A b \in m + 1..Len(r) : FALSE
  <2>0. /\ L = Len(cs) /\ L \in Nat /\ L = k + more /\ k \in Nat /\ m \in Nat /\ m < k
        /\ k - N = m + 1 /\ Len(r) = m
    BY <1>1, <1>6, <1>7, <1>8, <1>10 DEF L
  <2> HIDE DEF m
  <2>1. \A b \in m + 1..k - 1 : b \in 1..Len(cs)
    BY <1>4, <2>0
  <2>2. \A a \in m + 1..Len(cs) : a \in m + 1..k - 1 \/ a = k \/ (more = 1 /\ a = L /\ L = k + 1)
    BY <1>4, <2>0
  <2>3. k \in m + 1..Len(cs) /\ L \in 1..Len(cs)
    BY <1>4, <2>0
  <2>4. \A a \in k + 1..Len(cs) : more = 1 /\ a = L /\ L = k + 1
    BY <1>4, <2>0
  <2>5. \A b \in m + 1..Len(r) : FALSE
    BY <2>0
  <2> QED BY <1>7, <2>0, <2>1, <2>2, <2>3, <2>4, <2>5
<1>12. fix = {cs[b].at : b \in m + 1..k - 1} \cup (IF more = 1 THEN {cs[L].at} ELSE {})
  <2>1. Len(s) - N + 1 = m + 1 /\ Len(s) = k - 1
    BY <1>6, <1>7, <1>8, <1>9
  <2>2. \A b \in m + 1..k - 1 : s[b] = cs[b]
    <3>1. \A b \in m + 1..k - 1 : b \in 1..k - 1
      BY <1>6, <1>8
    <3> QED BY <1>9, <3>1
  <2> HIDE DEF m
  <2> QED BY <1>5, <2>1, <2>2
<1> HIDE DEF fix, m
<1>13. /\ d \in Seq(Cells) /\ Len(d) = Len(code) + 1 /\ Here(d) = Here(c)
       /\ \A x \in 1..Len(c) : d[x] = IF x \in fix THEN Arg(Here(d) - x) ELSE c[x]
  <2>1. /\ d \in Seq(Cells) /\ Len(d) = Len(c)
        /\ \A x \in 1..Len(c) : d[x] = IF x \in fix THEN Arg(Here(c) - x) ELSE c[x]
    BY <1>2, PatchAll DEF d
  <2>2. Here(d) = Here(c)
    BY <2>1 DEF Here
  <2> QED BY <1>2, <2>1, <2>2
<1>14. /\ Grown(prog, addr, code, prog', addr', d, "endcase") /\ code' = d /\ cs' = r
       /\ n \in Nat /\ Len(prog') = n + 1 /\ prog'[n + 1] = "endcase"
       /\ Extended(prog, prog', "endcase")
       /\ \A i \in 1..n : prog'[i] = prog[i]
  <2>1. Len(d) >= Len(code)
    BY <1>1, <1>13
  <2> QED BY <1>1, <1>3, <1>13, <2>1, Growing
<1>15. PICK g : Stays(cs, f, r, g, m)
  <2>1. m \in Nat /\ m <= Len(cs) /\ m <= Len(r) /\ 0 \in Nat /\ f \in [1..Len(cs) -> Nat]
    BY <1>1, <1>6, <1>8, <1>10 DEF L
  <2>2. Renewed(cs, f, r, m, 0)
    BY <1>1, <1>10, <2>1, GhostNew
  <2> QED BY <2>2 DEF Renewed
<1> HIDE DEF n
<1>16. ASSUME NEW h \in Kinds PROVE Turns(n, "endcase", cs, f, r, g, m, h)
  <2>1. /\ "endcase" \notin Openers[h] /\ ("endcase" \in Enders[h] <=> h = "case")
        /\ h # "fix" /\ h # "fallthrough"
    BY Roles DEF Kinds
  <2>2. \A a \in m + 1..Len(cs) : cs[a].tag = h <=> (a = k /\ h = "case")
    BY <1>4, <1>11, <2>1
  <2> QED BY <1>11, <2>1, <2>2 DEF Turns
<1>17. Matched(prog', "case", f[k], n + 1)
  <2>1. Nested(prog, "case") /\ Listed(prog, cs, f, "case") /\ "case" \in Kinds
    BY <1>1 DEF Built, Kinds
  <2>2. "endcase" \in Enders["case"] /\ Turns(Len(prog), "endcase", cs, f, r, g, m, "case")
    BY <1>16, <2>1 DEF Enders, n
  <2>3. Matched(prog', "case", f[k], Len(prog) + 1)
    BY <1>4, <1>11, <1>14, <1>15, <2>1, <2>2, ListedStep
  <2> QED BY <2>3 DEF n
<1>18. ASSUME NEW a \in m + 1..Len(cs), a # k
       PROVE  /\ a \in 1..Len(cs) /\ cs[a].tag \in {"fix", "fallthrough"}
              /\ f[a] \in 1..n /\ addr[f[a]] \in Nat /\ cs[a].at = addr[f[a]] + 1
              /\ cs[a].at \in fix /\ cs[a].at \in 1..Len(c)
  <2>1. a \in 1..Len(cs) /\ cs[a].tag \in {"fix", "fallthrough"} /\ cs[a].at \in fix
    BY <1>4, <1>11, <1>12, <1>18
  <2>2. cs[a].tag \in Branching /\ cs[a].tag \in Branching \ {"do"}
    BY <2>1 DEF Branching
  <2>3. f[a] \in 1..Len(prog) /\ addr[f[a]] \in Nat /\ addr[f[a]] + 1 \in 1..Len(code)
    BY <1>1, <2>1, <2>2, Known
  <2>4. ItemOK(prog, addr, code, cs, f, a)
    BY <1>1, <2>1 DEF Built
  <2>5. cs[a].at = addr[f[a]] + 1
    BY <2>2, <2>4 DEF ItemOK
  <2>6. cs[a].at \in 1..Len(c)
    BY <1>1, <1>2, <2>3, <2>5
  <2> QED BY <2>1, <2>3, <2>5, <2>6 DEF n
<1>19. ASSUME NEW a \in m + 1..Len(cs), a # k PROVE Solved(prog', addr', d, f[a])
  <2> DEFINE t == f[a]
             u == f[k]
             e == n + 1
  <2>1. t \in 1..n /\ u \in 1..n /\ e \in 1..Len(prog') /\ t \in 1..Len(prog') /\ u \in 1..Len(prog')
    BY <1>7, <1>14, <1>18, <1>19 DEF n
  <2>2. Lands(prog', addr', d, t, e)
    <3>1. d[addr[t] + 1] = Arg(Here(d) - (addr[t] + 1))
      BY <1>13, <1>18, <1>19
    <3> QED BY <1>14, <2>1, <3>1, LandsHere DEF n
  <2>3. \A i \in 1..n : \A y : Within(prog', i, y) <=> Within(prog, i, y)
    BY <1>14, Steady DEF n
  <2>4. Matched(prog', "case", u, e)
    BY <1>17
  <2>5. CASE a \in m + 1..k - 1
    <3>1. Within(prog', t, u)
      BY <1>11, <2>1, <2>3, <2>5
    <3>2. prog'[t] = "endof"
      <4>1. ItemOK(prog, addr, code, cs, f, a) /\ cs[a].tag = "fix"
        BY <1>1, <1>11, <2>5 DEF Built
      <4> QED BY <1>14, <2>1, <4>1 DEF ItemOK
    <3> HIDE DEF t, u, e
    <3>3. Solved(prog', addr', d, t)
      BY <2>1, <2>2, <2>4, <3>1, <3>2, SolvedEndOf
    <3> QED BY <3>3 DEF t
  <2>6. CASE more = 1 /\ a = L /\ L = k + 1
    <3>1. ItemOK(prog, addr, code, cs, f, a) /\ cs[a].tag = "fallthrough" /\ a - 1 = k
      BY <1>1, <1>4, <1>6, <1>11, <2>6 DEF Built
    <3>2. /\ prog[t] = "fallthrough" /\ Within(prog, t, u) /\ NoOf(prog, u, t + 1, Len(prog))
      BY <3>1 DEF ItemOK
    <3>3. prog'[t] = "fallthrough" /\ Within(prog', t, u)
      BY <1>14, <2>1, <2>3, <3>2
    <3>4. NoOf(prog', u, t + 1, Len(prog'))
      <4>1. \A i \in t + 1..Len(prog') : i = n + 1 \/ (i \in 1..n /\ i \in t + 1..n)
        BY <1>14, <2>1
      <4> QED BY <1>14, <2>3, <3>2, <4>1 DEF NoOf, n
    <3> HIDE DEF t, u, e
    <3>5. Solved(prog', addr', d, t)
      BY <2>1, <2>2, <2>4, <3>3, <3>4, SolvedFallthrough
    <3> QED BY <3>5 DEF t
  <2> QED BY <1>11, <1>19, <2>5, <2>6
<1>20. Solved(prog', addr', d, n + 1)
  BY <1>1, <1>14, SolvedPlain
<1>21. \A x \in 1..Len(code) : \/ d[x] = code[x]
                               \/ \E a \in m + 1..Len(cs) :
                                    cs[a].tag \in Branching /\ x = addr[f[a]] + 1
  <2>1. SUFFICES ASSUME NEW x \in 1..Len(code), d[x] # code[x]
                 PROVE  \E a \in m + 1..Len(cs) : cs[a].tag \in Branching /\ x = addr[f[a]] + 1
    OBVIOUS
  <2>2. x \in 1..Len(c)
    BY <1>1, <1>2
  <2>3. x \in fix
    BY <1>2, <1>13, <2>1, <2>2
  <2>4. PICK a \in m + 1..Len(cs) : a # k /\ x = cs[a].at
    <3>1. \A b \in m + 1..k - 1 : b \in m + 1..Len(cs) /\ b # k
      BY <1>1, <1>6, <1>8 DEF L
    <3>2. more = 1 => L \in m + 1..Len(cs) /\ L # k
      BY <1>1, <1>6, <1>8 DEF L
    <3> QED BY <1>12, <2>3, <3>1, <3>2
  <2> QED BY <1>18, <2>4 DEF Branching
<1>22. /\ \A b \in m + 1..Len(r) : r[b].tag # "colon"
       /\ \A b \in m + 1..Len(r) : ItemOK(prog', addr', d, r, g, b)
       /\ \A a \in m + 1..Len(cs) : cs[a].tag \in Branching => Solved(prog', addr', d, f[a])
  BY <1>4, <1>11, <1>19 DEF Branching
<1>23. Does(prog, addr, code, prog', addr', d, "endcase", cs, f, r, g, m)
  BY <1>1, <1>8, <1>14, <1>15, <1>16, <1>20, <1>21, <1>22 DEF Does, n
<1>24. Built(prog', addr', d, r, g)
  BY <1>23, BuiltStep
<1> QED BY <1>14, <1>24

(* Every control word keeps what is known of the branches.                 *)
LEMMA BuiltWord ==
  ASSUME NEW f, Now(f), Word, Structured' PROVE \E g : Built(prog', addr', code', cs', g)
<1>1. CASE Other
  BY <1>1, BuiltOther
<1>2. CASE If \/ Ahead \/ Begin \/ Case
  BY <1>2, BuiltPushes
<1>3. CASE Then \/ Else \/ Fallthrough
  BY <1>3, BuiltResolves
<1>4. CASE Until \/ Again \/ Repeat \/ Loop
  BY <1>4, BuiltTakes
<1>5. CASE While
  BY <1>5, BuiltWhile
<1>6. CASE Do
  BY <1>6, BuiltDo
<1>7. CASE Of
  BY <1>7, BuiltOf
<1>8. CASE EndOf
  BY <1>8, BuiltEndOf
<1>9. CASE EndCase
  BY <1>9, BuiltEndCase
<1> QED BY <1>1, <1>2, <1>3, <1>4, <1>5, <1>6, <1>7, <1>8, <1>9 DEF Word

(* A word is directly inside a CASE that has been ended.                   *)
LEMMA InsideWithin ==
  ASSUME prog \in Seq(Words), Nested(prog, "case"), Pending(prog, "case") = {},
         NEW i \in 1..Len(prog), NEW c \in 1..Len(prog)
  PROVE  Inside(i, c) <=> Within(prog, i, c)
<1> DEFINE n == Len(prog)
<1>1. n \in Nat /\ i \in Nat /\ c \in Nat
  OBVIOUS
<1>2. ASSUME NEW d \in 1..i
      PROVE  /\ \A e \in i + 1..n : Ends("case", d, e) <=> Matched(prog, "case", d, e)
             /\ (\E e \in i + 1..n : Ends("case", d, e)) <=>
                  prog[d] = "case" /\ OpenAt(prog, "case", d, i)
  <2>1. d \in 1..n /\ \A e \in i + 1..n : e \in 1..n /\ i <= e - 1 /\ e \in Nat
    OBVIOUS
  <2>2. \A e \in i + 1..n : Ends("case", d, e) <=> Matched(prog, "case", d, e)
    BY <2>1, EndsMatched
  <2>3. ASSUME NEW e \in i + 1..n, Matched(prog, "case", d, e)
        PROVE  prog[d] = "case" /\ OpenAt(prog, "case", d, i)
    <3>1. \A l \in d + 1..i : l \in d + 1..e - 1
      BY <2>1
    <3> QED BY <2>3, <3>1 DEF Matched, OpenAt, Openers
  <2>4. ASSUME prog[d] = "case", OpenAt(prog, "case", d, i)
        PROVE  \E e \in i + 1..n : Matched(prog, "case", d, e)
    <3>1. prog[d] \in Openers["case"]
      BY <2>4 DEF Openers
    <3>2. PICK e \in 1..n : Matched(prog, "case", d, e)
      BY <2>1, <3>1 DEF Nested
    <3>3. e \notin d + 1..i
      <4>1. Depth(prog, "case", d) \in Int
        BY DepthType
      <4> QED BY <2>4, <3>2, <4>1 DEF Matched, OpenAt
    <3>4. e \in i + 1..n
      BY <3>2, <3>3 DEF Matched
    <3> QED BY <3>2, <3>4
  <2> QED BY <2>2, <2>3, <2>4
<1>3. c < i => c \in 1..i
  OBVIOUS
<1>4. \A d \in c + 1..i : d \in 1..i
  OBVIOUS
<1>5. ASSUME Inside(i, c) PROVE Within(prog, i, c)
  <2>1. c < i /\ c \in 1..i - 1
    BY <1>5 DEF Inside
  <2>2. prog[c] = "case" /\ OpenAt(prog, "case", c, i)
    BY <1>2, <1>3, <1>5, <2>1 DEF Inside
  <2>3. \A d \in c + 1..i : prog[d] = "case" => ~OpenAt(prog, "case", d, i)
    BY <1>2, <1>4, <1>5 DEF Inside
  <2> QED BY <2>1, <2>2, <2>3 DEF Within
<1>6. ASSUME Within(prog, i, c) PROVE Inside(i, c)
  <2>1. c < i
    BY <1>6 DEF Within
  <2>2. \E e \in i + 1..Len(prog) : Ends("case", c, e)
    BY <1>2, <1>3, <1>6, <2>1 DEF Within
  <2>3. \A d \in c + 1..i : ~\E e \in i + 1..Len(prog) : Ends("case", d, e)
    BY <1>2, <1>4, <1>6 DEF Within
  <2> QED BY <2>1, <2>2, <2>3 DEF Inside
<1> QED BY <1>5, <1>6

(* The semicolon finds every structure ended, and so every branch leads    *)
(* where it should.                                                        *)
LEMMA Shut ==
  ASSUME prog \in Seq(Words), addr \in Seq(Nat), code \in Seq(Cells), cs \in Seq(Items),
         NEW f, Built(prog, addr, code, cs, f), Semicolon, Structured,
         Len(cs) = 1
  PROVE  TargetsExact'
<1> DEFINE n == Len(prog)
           c == Append(code, I("exit"))
<1>1. /\ prog' = prog /\ addr' = addr /\ first' = c /\ phase' = "done" /\ Structured'
      /\ n \in Nat /\ Len(addr) = n
  <2>1. prog' = prog /\ addr' = addr /\ first' = c /\ phase' = "done"
    BY DEF Semicolon
  <2>2. Structured'
    BY <2>1 DEF Structured
  <2>3. n \in Nat /\ Len(addr) = n
    BY DEF Built
  <2> QED BY <2>1, <2>2, <2>3
<1>2. /\ c \in Seq(Cells) /\ Len(c) = Len(code) + 1 /\ \A a \in 1..Len(code) : c[a] = code[a]
      /\ Len(code) \in Nat /\ Here(code) = Len(c) /\ Here(code) = Len(code) + 1
  <2>1. I("exit") \in Cells
    BY CellTypes DEF Ops
  <2> QED BY <2>1, AppendProperties DEF Here
<1> HIDE DEF c
<1>3. \A a \in 1..Len(cs) : cs[a].tag = "colon"
  BY DEF Built
<1>4. \A i \in 1..n : Solved(prog, addr, code, i)
  <2>1. \A i : ~Waits(cs, f, i)
    BY <1>3 DEF Waits, Branching
  <2> QED BY <2>1 DEF Built
<1>5. Nested(prog, "case") /\ Pending(prog, "case") = {}
  <2>1. "case" \in Kinds /\ \A a \in 1..Len(cs) : cs[a].tag # "case"
    BY <1>3 DEF Kinds
  <2> QED BY <2>1 DEF Built, Listed
<1>6. \A i \in 1..n : Behind(i)' = After(prog, addr, code, i)
  BY <1>1, <1>2 DEF Behind, After
<1>7. ASSUME NEW i \in 1..n, NEW j \in 1..n, prog[i] \in Wide
      PROVE  /\ Leads(i, j)' <=> Lands(prog, addr, code, i, j)
             /\ c[addr[i] + 1] = code[addr[i] + 1]
  <2>1. addr[i] \in Nat /\ addr[i] + 2 <= Here(code)
    BY <1>1, <1>7 DEF Built, Spaced
  <2>2. addr[i] + 1 \in 1..Len(code)
    BY <1>2, <2>1
  <2>3. c[addr[i] + 1] = code[addr[i] + 1]
    BY <1>2, <2>2
  <2>4. Target(c, addr[i]) = Target(code, addr[i])
    BY <2>3 DEF Target
  <2> QED BY <1>1, <1>6, <2>3, <2>4 DEF Leads, Lands
<1>8. /\ \A i, j \in 1..n : \A k : Ends(k, i, j)' <=> Matched(prog, k, i, j)
      /\ \A i, j \in 1..n : Inside(i, j)' <=> Within(prog, i, j)
  <2>1. \A i, j \in 1..n : \A k : Ends(k, i, j)' <=> Ends(k, i, j)
    BY <1>1 DEF Ends
  <2>2. \A i, j \in 1..n : Inside(i, j)' <=> Inside(i, j)
    BY <1>1 DEF Inside, Ends
  <2> QED BY <1>5, <2>1, <2>2, EndsMatched, InsideWithin
<1> DEFINE w(i) == prog[i]
           EndCases(i) == {e \in 1..n : \E d \in 1..n : Within(prog, i, d) /\ Matched(prog, "case", d, e)}
           NextOfs(i) == {j \in i + 1..n : prog[j] = "of" /\
                            \E d \in 1..n : Within(prog, i, d) /\ Within(prog, j, d)}
<1>9. ASSUME NEW i \in 1..n
      PROVE  /\ \A k \in {"orig", "of"} : prog[i] \in Openers[k] =>
                  \E j \in 1..n : Matched(prog, k, i, j) /\ Leads(i, j)'
             /\ \A k \in {"dest", "do"} : prog[i] \in Enders[k] =>
                  \E j \in 1..n : Matched(prog, k, j, i) /\ Leads(i, j)'
             /\ prog[i] = "do" => \E j \in 1..n : Matched(prog, "do", i, j)
                                                  /\ c[addr[i] + 1].arg = Behind(j)'
             /\ prog[i] = "endof" => \E j \in EndCases(i) : Leads(i, j)'
  <2>1. Solved(prog, addr, code, i)
    BY <1>4
  <2>2. ASSUME NEW k \in {"orig", "of"}, prog[i] \in Openers[k]
        PROVE  \E j \in 1..n : Matched(prog, k, i, j) /\ Leads(i, j)'
    <3>1. prog[i] \in Wide
      BY <2>2 DEF Openers, Wide
    <3> QED BY <1>7, <2>1, <2>2, <3>1 DEF Solved
  <2>3. ASSUME NEW k \in {"dest", "do"}, prog[i] \in Enders[k]
        PROVE  \E j \in 1..n : Matched(prog, k, j, i) /\ Leads(i, j)'
    <3>1. prog[i] \in Wide
      BY <2>3 DEF Enders, Wide
    <3> QED BY <1>7, <2>1, <2>3, <3>1 DEF Solved
  <2>4. ASSUME prog[i] = "do"
        PROVE  \E j \in 1..n : Matched(prog, "do", i, j) /\ c[addr[i] + 1].arg = Behind(j)'
    <3>1. prog[i] \in Wide
      BY <2>4 DEF Wide
    <3>2. PICK j \in 1..n : Matched(prog, "do", i, j) /\ code[addr[i] + 1].arg = After(prog, addr, code, j)
      BY <2>1, <2>4 DEF Solved
    <3> QED BY <1>6, <1>7, <3>1, <3>2
  <2>5. ASSUME prog[i] = "endof" PROVE \E j \in EndCases(i) : Leads(i, j)'
    <3>1. prog[i] \in Wide
      BY <2>5 DEF Wide
    <3>2. PICK d, e \in 1..n : /\ Within(prog, i, d) /\ Matched(prog, "case", d, e)
                               /\ Lands(prog, addr, code, i, e)
      BY <2>1, <2>5 DEF Solved
    <3>3. Leads(i, e)' /\ e \in EndCases(i)
      BY <1>7, <3>1, <3>2
    <3> QED BY <3>3
  <2> QED BY <2>2, <2>3, <2>4, <2>5
<1>10. ASSUME NEW i \in 1..n, prog[i] = "fallthrough"
       PROVE  IF NextOfs(i) = {} THEN \E j \in EndCases(i) : Leads(i, j)'
              ELSE \E j \in NextOfs(i) : Leads(i, j)' /\ \A l \in NextOfs(i) : j <= l
  <2>1. prog[i] \in Wide /\ Solved(prog, addr, code, i)
    BY <1>4, <1>10 DEF Wide
  <2>2. PICK d, e \in 1..n :
          /\ Within(prog, i, d) /\ Lands(prog, addr, code, i, e)
          /\ \/ e > i /\ prog[e] = "of" /\ Within(prog, e, d) /\ NoOf(prog, d, i + 1, e - 1)
             \/ Matched(prog, "case", d, e) /\ NoOf(prog, d, i + 1, n)
    BY <1>10, <2>1 DEF Solved
  <2>3. Leads(i, e)'
    BY <1>7, <2>1, <2>2
  <2>4. ASSUME NEW l \in NextOfs(i) PROVE l \in i + 1..n /\ prog[l] = "of" /\ Within(prog, l, d)
    <3>1. PICK b \in 1..n : Within(prog, i, b) /\ Within(prog, l, b)
      BY <2>4
    <3>2. b = d
      BY <2>2, <3>1, WithinOne
    <3> QED BY <2>4, <3>1, <3>2
  <2>5. CASE e > i /\ prog[e] = "of" /\ Within(prog, e, d) /\ NoOf(prog, d, i + 1, e - 1)
    <3>1. e \in i + 1..n
      BY <2>5
    <3>2. e \in NextOfs(i)
      BY <2>2, <2>5, <3>1
    <3>3. ASSUME NEW l \in NextOfs(i) PROVE e <= l
      <4>1. l \in i + 1..n /\ prog[l] = "of" /\ Within(prog, l, d)
        BY <2>4, <3>3
      <4>2. l \notin i + 1..e - 1
        BY <2>5, <4>1 DEF NoOf
      <4> QED BY <4>1, <4>2
    <3> QED BY <2>3, <3>2, <3>3
  <2>6. CASE Matched(prog, "case", d, e) /\ NoOf(prog, d, i + 1, n)
    <3>1. NextOfs(i) = {}
      BY <2>4, <2>6 DEF NoOf
    <3>2. e \in EndCases(i)
      BY <2>2, <2>6
    <3> QED BY <2>3, <3>1, <3>2
  <2> QED BY <2>2, <2>5, <2>6
<1> HIDE DEF EndCases, NextOfs
<1>11. ASSUME NEW i \in DOMAIN prog'
       PROVE  LET v == prog'[i]
                  EE == {e \in DOMAIN prog' : \E d \in DOMAIN prog' :
                           Inside(i, d)' /\ Ends("case", d, e)'}
                  NN == {j \in i + 1..Len(prog') : prog'[j] = "of" /\
                           \E d \in DOMAIN prog' : Inside(i, d)' /\ Inside(j, d)'} IN
              /\ \A k \in {"orig", "of"} : v \in Openers[k] =>
                   \E j \in DOMAIN prog' : Ends(k, i, j)' /\ Leads(i, j)'
              /\ \A k \in {"dest", "do"} : v \in Enders[k] =>
                   \E j \in DOMAIN prog' : Ends(k, j, i)' /\ Leads(i, j)'
              /\ v = "do" => \E j \in DOMAIN prog' : Ends("do", i, j)'
                                                      /\ first'[addr'[i] + 1].arg = Behind(j)'
              /\ v = "endof" => \E j \in EE : Leads(i, j)'
              /\ v = "fallthrough" =>
                   IF NN = {} THEN \E j \in EE : Leads(i, j)'
                   ELSE \E j \in NN : Leads(i, j)' /\ \A l \in NN : j <= l
  <2> DEFINE v == prog'[i]
             EE == {e \in DOMAIN prog' : \E d \in DOMAIN prog' :
                      Inside(i, d)' /\ Ends("case", d, e)'}
             NN == {j \in i + 1..Len(prog') : prog'[j] = "of" /\
                      \E d \in DOMAIN prog' : Inside(i, d)' /\ Inside(j, d)'}
  <2>0. /\ DOMAIN prog' = 1..n /\ Len(prog') = n /\ i \in 1..n /\ v = prog[i]
        /\ \A j \in i + 1..n : j \in 1..n /\ prog'[j] = prog[j]
        /\ first'[addr'[i] + 1] = c[addr[i] + 1]
    BY <1>1
  <2>1. EE = EndCases(i)
    BY <1>8, <2>0 DEF EndCases
  <2>2. NN = NextOfs(i)
    BY <1>8, <2>0 DEF NextOfs
  <2> HIDE DEF EE, NN, v, n
  <2>3. \A k \in {"orig", "of"} : v \in Openers[k] =>
          \E j \in DOMAIN prog' : Ends(k, i, j)' /\ Leads(i, j)'
    BY <1>8, <1>9, <2>0
  <2>4. \A k \in {"dest", "do"} : v \in Enders[k] =>
          \E j \in DOMAIN prog' : Ends(k, j, i)' /\ Leads(i, j)'
    BY <1>8, <1>9, <2>0
  <2>5. v = "do" => \E j \in DOMAIN prog' : Ends("do", i, j)'
                                            /\ first'[addr'[i] + 1].arg = Behind(j)'
    BY <1>8, <1>9, <2>0
  <2>6. v = "endof" => \E j \in EE : Leads(i, j)'
    BY <1>9, <2>0, <2>1
  <2>7. v = "fallthrough" =>
          IF NN = {} THEN \E j \in EE : Leads(i, j)'
          ELSE \E j \in NN : Leads(i, j)' /\ \A l \in NN : j <= l
    BY <1>10, <2>0, <2>1, <2>2
  <2> QED BY <2>3, <2>4, <2>5, <2>6, <2>7 DEF EE, NN, v
<1> QED BY <1>11 DEF TargetsExact

(* The steps of the specification.                                         *)
LEMMA TargetsWord == IInv /\ TargetsInv /\ Word => TargetsInv'
<1> SUFFICES ASSUME IInv, TargetsInv, Word
             PROVE  TargetsInv'
  OBVIOUS
<1>1. /\ prog \in Seq(Words) /\ addr \in Seq(Nat) /\ code \in Seq(Cells) /\ cs \in Seq(Items)
      /\ phase = "open"
  BY DEF IInv, TypeOK, Items, Word
<1>2. PICK w \in Words : prog' = Append(prog, w) /\ phase' = phase
  BY DEF Word, Other, If, Ahead, Origin, Else, Then, Begin, Until, Again, Backward, While,
         Repeat, Do, Loop, Case, Of, EndOf, Fallthrough, EndCase, Compile, Words
<1>3. Structured' => Structured
  <2>1. /\ Len(prog') = Len(prog) + 1 /\ prog' \in Seq(Words)
        /\ \A i \in 1..Len(prog) : prog'[i] = prog[i]
    BY <1>1, <1>2, AppendProperties
  <2>2. DOMAIN prog = 1..Len(prog) /\ \A i \in 1..Len(prog) : i \in DOMAIN prog'
    BY <1>1, <2>1
  <2>3. ASSUME Structured', NEW i \in DOMAIN prog PROVE prog[i] # "misplaced"
    BY <2>1, <2>2, <2>3 DEF Structured
  <2> QED BY <2>3 DEF Structured
<1>4. ASSUME Structured' PROVE \E g : Built(prog', addr', code', cs', g)
  <2>1. PICK f : Built(prog, addr, code, cs, f)
    BY <1>1, <1>3, <1>4 DEF TargetsInv
  <2>2. Now(f)
    BY <1>1, <2>1 DEF Now
  <2> QED BY <1>4, <2>2, BuiltWord
<1>5. TargetsExact'
  BY <1>1, <1>2 DEF TargetsExact
<1> QED BY <1>4, <1>5 DEF TargetsInv

(* The semicolon needs every structure to be ended.                        *)
LEMMA TargetsSemicolon == IInv /\ TargetsInv /\ Semicolon => TargetsInv'
<1> SUFFICES ASSUME IInv, TargetsInv, Semicolon
             PROVE  TargetsInv'
  OBVIOUS
<1>1. /\ prog \in Seq(Words) /\ addr \in Seq(Nat) /\ code \in Seq(Cells) /\ cs \in Seq(Items)
      /\ phase = "open" /\ phase' = "done" /\ prog' = prog /\ Matches(";")
  BY DEF IInv, TypeOK, Items, Semicolon
<1>2. CASE Structured
  <2>1. PICK f : Built(prog, addr, code, cs, f)
    BY <1>1, <1>2 DEF TargetsInv
  <2>2. Now(f) /\ Wants(";") = <<"colon">>
    BY <1>1, <2>1 DEF Now, Wants
  <2>3. cs[Len(cs)].tag = "colon" /\ Len(cs) \in Nat /\ Len(cs) > 0
    BY <1>1, <2>2, TopTags
  <2>4. Len(cs) = 1
    <3>1. Len(cs) \in 1..Len(cs)
      BY <2>3
    <3> QED BY <2>1, <2>3, <3>1 DEF Built
  <2>5. TargetsExact'
    BY <1>1, <1>2, <2>1, <2>4, Shut
  <2> QED BY <1>1, <2>5 DEF TargetsInv
<1>3. CASE ~Structured
  <2>1. ~Structured'
    BY <1>1, <1>3 DEF Structured
  <2> QED BY <1>1, <2>1 DEF TargetsInv, TargetsExact
<1> QED BY <1>2, <1>3

(* Nothing that happens to a finished definition changes what it is.       *)
LEMMA TargetsKept ==
  ASSUME TargetsInv, UNCHANGED <<prog, addr, first, phase>>,
         phase = "done" \/ UNCHANGED <<code, cs>>
  PROVE  TargetsInv'
<1>1. prog' = prog /\ addr' = addr /\ first' = first /\ phase' = phase /\ (Structured' <=> Structured)
  BY DEF Structured
<1>2. /\ \A k, i, j : Ends(k, i, j)' <=> Ends(k, i, j)
      /\ \A j : Behind(j)' = Behind(j)
  BY <1>1 DEF Ends, Behind
<1>3. /\ \A i, d : Inside(i, d)' <=> Inside(i, d)
      /\ \A i, j : Leads(i, j)' <=> Leads(i, j)
  BY <1>1, <1>2 DEF Inside, Leads
<1>4. ASSUME phase = "done", Structured, NEW i \in DOMAIN prog'
      PROVE  LET v == prog'[i]
                 EE == {e \in DOMAIN prog' : \E d \in DOMAIN prog' :
                          Inside(i, d)' /\ Ends("case", d, e)'}
                 NN == {j \in i + 1..Len(prog') : prog'[j] = "of" /\
                          \E d \in DOMAIN prog' : Inside(i, d)' /\ Inside(j, d)'} IN
             /\ \A k \in {"orig", "of"} : v \in Openers[k] =>
                  \E j \in DOMAIN prog' : Ends(k, i, j)' /\ Leads(i, j)'
             /\ \A k \in {"dest", "do"} : v \in Enders[k] =>
                  \E j \in DOMAIN prog' : Ends(k, j, i)' /\ Leads(i, j)'
             /\ v = "do" => \E j \in DOMAIN prog' : Ends("do", i, j)'
                                                     /\ first'[addr'[i] + 1].arg = Behind(j)'
             /\ v = "endof" => \E j \in EE : Leads(i, j)'
             /\ v = "fallthrough" =>
                  IF NN = {} THEN \E j \in EE : Leads(i, j)'
                  ELSE \E j \in NN : Leads(i, j)' /\ \A l \in NN : j <= l
  <2> DEFINE v == prog[i]
             E0 == {e \in DOMAIN prog : \E d \in DOMAIN prog : Inside(i, d) /\ Ends("case", d, e)}
             N0 == {j \in i + 1..Len(prog) : prog[j] = "of" /\
                      \E d \in DOMAIN prog : Inside(i, d) /\ Inside(j, d)}
             EE == {e \in DOMAIN prog' : \E d \in DOMAIN prog' :
                      Inside(i, d)' /\ Ends("case", d, e)'}
             NN == {j \in i + 1..Len(prog') : prog'[j] = "of" /\
                      \E d \in DOMAIN prog' : Inside(i, d)' /\ Inside(j, d)'}
  <2>1. /\ \A k \in {"orig", "of"} : v \in Openers[k] =>
             \E j \in DOMAIN prog : Ends(k, i, j) /\ Leads(i, j)
        /\ \A k \in {"dest", "do"} : v \in Enders[k] =>
             \E j \in DOMAIN prog : Ends(k, j, i) /\ Leads(i, j)
        /\ v = "do" => \E j \in DOMAIN prog : Ends("do", i, j)
                                               /\ first[addr[i] + 1].arg = Behind(j)
        /\ v = "endof" => \E j \in E0 : Leads(i, j)
        /\ v = "fallthrough" =>
             IF N0 = {} THEN \E j \in E0 : Leads(i, j)
             ELSE \E j \in N0 : Leads(i, j) /\ \A l \in N0 : j <= l
    <3>1. i \in DOMAIN prog /\ TargetsExact
      BY <1>1, <1>4 DEF TargetsInv
    <3> QED BY <1>4, <3>1 DEF TargetsExact
  <2>2. EE = E0
    BY <1>1, <1>2, <1>3
  <2>3. NN = N0
    BY <1>1, <1>2, <1>3
  <2> HIDE DEF EE, NN, E0, N0
  <2>4. /\ \A k \in {"orig", "of"} : v \in Openers[k] =>
             \E j \in DOMAIN prog : Ends(k, i, j)' /\ Leads(i, j)'
        /\ \A k \in {"dest", "do"} : v \in Enders[k] =>
             \E j \in DOMAIN prog : Ends(k, j, i)' /\ Leads(i, j)'
        /\ v = "do" => \E j \in DOMAIN prog : Ends("do", i, j)'
                                               /\ first[addr[i] + 1].arg = Behind(j)'
    BY <1>2, <1>3, <2>1
  <2>5. v = "endof" => \E j \in EE : Leads(i, j)'
    BY <1>3, <2>1, <2>2
  <2>6. v = "fallthrough" =>
          IF NN = {} THEN \E j \in EE : Leads(i, j)'
          ELSE \E j \in NN : Leads(i, j)' /\ \A l \in NN : j <= l
    BY <1>3, <2>1, <2>2, <2>3
  <2>7. prog'[i] = v /\ DOMAIN prog' = DOMAIN prog /\ first' = first /\ addr' = addr
    BY <1>1
  <2> HIDE DEF v
  <2> QED BY <2>4, <2>5, <2>6, <2>7 DEF EE, NN
<1>5. TargetsExact'
  BY <1>1, <1>4 DEF TargetsExact
<1>6. phase = "open" /\ Structured => \E f : Built(prog', addr', code', cs', f)
  BY <1>1 DEF TargetsInv
<1> QED BY <1>1, <1>5, <1>6 DEF TargetsInv

(* Every step keeps the invariant.                                         *)
LEMMA TargetsNext == IInv /\ TargetsInv /\ [Next]_vars => TargetsInv'
<1> SUFFICES ASSUME IInv, TargetsInv, [Next]_vars
             PROVE  TargetsInv'
  OBVIOUS
<1>1. CASE Word
  BY <1>1, TargetsWord
<1>2. CASE Unmatched
  BY <1>2 DEF Unmatched, TargetsInv, TargetsExact
<1>3. CASE Semicolon
  BY <1>3, TargetsSemicolon
<1>4. ASSUME NEW t \in Threads, Meet(t) PROVE TargetsInv'
  BY <1>4, TargetsKept DEF Meet
<1>5. ASSUME NEW t \in Threads, Optimize(t) PROVE TargetsInv'
  <2>1. UNCHANGED <<prog, addr, first, phase>> /\ work[t] # <<>>
    BY <1>5 DEF Optimize
  <2>2. phase = "done"
    <3>1. SUFFICES ASSUME phase # "done" PROVE FALSE
      OBVIOUS
    <3>2. Branches(first) = {}
      BY <3>1, NoneRun DEF IInv
    <3>3. 1 \in 1..Len(work[t])
      BY <2>1 DEF IInv, TypeOK
    <3> QED BY <3>2, <3>3 DEF IInv, FramesInv, FrameOK
  <2> QED BY <2>1, <2>2, TargetsKept
<1>6. CASE UNCHANGED vars
  BY <1>6, TargetsKept DEF vars
<1> QED BY <1>1, <1>2, <1>3, <1>4, <1>5, <1>6 DEF Next

(* The invariant holds of an empty definition.                             *)
LEMMA TargetsInit == Init => TargetsInv
<1> SUFFICES ASSUME Init
             PROVE  TargetsInv
  OBVIOUS
<1>1. /\ prog = <<>> /\ addr = <<>> /\ code = <<>> /\ Len(prog) = 0 /\ Len(addr) = 0
      /\ cs = <<[tag |-> "colon", at |-> 0]>> /\ phase = "open"
  BY DEF Init
<1>2. Len(cs) = 1 /\ \A a \in 1..Len(cs) : a = 1 /\ cs[a].tag = "colon"
  BY <1>1
<1> DEFINE f == [a \in 1..Len(cs) |-> 0]
<1>3. f \in [1..Len(cs) -> Nat]
  OBVIOUS
<1> HIDE DEF f
<1>4. \A i \in 1..Len(prog) : FALSE
  BY <1>1
<1>5. ASSUME NEW k \in Kinds PROVE Nested(prog, k) /\ Listed(prog, cs, f, k)
  <2>1. Pending(prog, k) = {}
    BY <1>4 DEF Pending
  <2>2. \A a \in 1..Len(cs) : cs[a].tag # k
    BY <1>2 DEF Kinds
  <2> QED BY <1>4, <2>1, <2>2 DEF Nested, Listed
<1>6. \A a \in 1..Len(cs) : ItemOK(prog, addr, code, cs, f, a)
  BY <1>2 DEF ItemOK, Branching
<1>7. Spaced(prog, addr, code)
  BY <1>4 DEF Spaced
<1>8. Built(prog, addr, code, cs, f)
  BY <1>1, <1>2, <1>3, <1>4, <1>5, <1>6, <1>7 DEF Built
<1> QED BY <1>1, <1>8 DEF TargetsInv, TargetsExact

(* Every branch of a definition that the semicolon accepts leads where the *)
(* structure says, whatever the words, their number and their nesting.     *)
THEOREM TargetsAreExact == Spec => []TargetsExact
<1>1. IInv /\ TargetsInv /\ [Next]_vars => TargetsInv'
  BY TargetsNext
<1>2. Spec => []TargetsInv
  BY Invariance, TargetsInit, <1>1, PTL DEF Spec
<1> QED BY <1>2, PTL DEF TargetsInv

================================================================================
