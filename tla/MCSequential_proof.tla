--------------------------- MODULE MCSequential_proof ---------------------------
(***************************************************************************)
(* Theorems about the programs of MCSequential, for every value of the     *)
(* constants.  Memory, Debugger, Arithmetic and Lz stand in MCSequential   *)
(* as instances; ControlFlow_proof has the theorems about ControlFlow,     *)
(* Text_proof those about Numbers.                                         *)
(***************************************************************************)
EXTENDS MCSequential, FiniteSetTheorems, WellFoundedInduction, SequenceTheorems, TLAPS

(* The least number of a set. *)
LEMMA Least ==
  ASSUME NEW Nums \in SUBSET Nat, Nums # {} PROVE \E x \in Nums : \A y \in Nums : x <= y
<1> DEFINE U == {0..n : n \in Nums}
<1>1. U \subseteq FiniteSubsetsOf(Nat)
  <2>1. ASSUME NEW n \in Nums PROVE IsFiniteSet(0..n)
    BY FS_Interval
  <2>2. ASSUME NEW n \in Nums PROVE 0..n \subseteq Nat
    OBVIOUS
  <2> QED BY <2>1, <2>2 DEF FiniteSubsetsOf
<1>2. U # {}
  OBVIOUS
<1> HIDE DEF U
<1>3. PICK u \in U : \A v \in U : <<v, u>> \notin StrictSubsetOrdering(Nat)
  BY <1>1, <1>2, FS_StrictSubsetOrderingWellFounded, WFMin
<1>4. PICK m \in Nums : u = 0..m
  BY DEF U
<1>5. ASSUME NEW n \in Nums, n < m PROVE FALSE
  <2>1. 0..n \in U
    BY DEF U
  <2>2. 0..n \in SUBSET Nat /\ u \in SUBSET Nat
    BY <1>4
  <2>3. 0..n \subseteq u /\ 0..n # u
    <3>1. m \in 0..m /\ m \notin 0..n
      BY <1>5
    <3> QED BY <1>4, <1>5, <3>1
  <2>4. <<0..n, u>> \in StrictSubsetOrdering(Nat)
    BY <2>2, <2>3 DEF StrictSubsetOrdering
  <2> QED BY <1>3, <2>1, <2>4
<1> QED BY <1>5

--------------------------------------------------------------------------------
(* The debugger.                                                           *)

Walks(F, C, next, stop) ==
  \A a \in C : F[a] = IF a \in stop THEN {a} ELSE {a} \cup F[next[a]]

(* A walk over cells goes from each to the next until it stops: there is a *)
(* function with the cells it comes to, the least sets that are closed.    *)
LEMMA WalkExists ==
  ASSUME NEW C, NEW next \in [C -> C], NEW stop
  PROVE  \E F \in [C -> SUBSET C] : Walks(F, C, next, stop)
<1> DEFINE Shut(E) == \A b \in E : b \notin stop => next[b] \in E
           F == [a \in C |-> {b \in C : \A E \in SUBSET C : a \in E /\ Shut(E) => b \in E}]
<1>1. F \in [C -> SUBSET C]
  OBVIOUS
<1>2. ASSUME NEW a \in C, NEW b
      PROVE  b \in F[a] <=> b \in C /\ \A E \in SUBSET C : a \in E /\ Shut(E) => b \in E
  OBVIOUS
<1>3. ASSUME NEW a \in C PROVE a \in F[a] /\ Shut(F[a]) /\ F[a] \in SUBSET C
  <2>1. a \in F[a] /\ F[a] \in SUBSET C
    OBVIOUS
  <2>2. ASSUME NEW b \in F[a], b \notin stop PROVE next[b] \in F[a]
    <3>1. b \in C /\ next[b] \in C
      BY <2>1
    <3>2. ASSUME NEW E \in SUBSET C, a \in E, Shut(E) PROVE next[b] \in E
      <4>1. b \in E
        BY <3>2
      <4> QED BY <2>2, <3>2, <4>1
    <3> QED BY <1>2, <3>1, <3>2
  <2> QED BY <2>1, <2>2
<1>4. ASSUME NEW a \in C, NEW E \in SUBSET C, a \in E, Shut(E) PROVE F[a] \subseteq E
  BY <1>2, <1>4
<1> HIDE DEF F
<1>5. ASSUME NEW a \in C, a \in stop PROVE F[a] = {a}
  <2>1. Shut({a})
    BY <1>5
  <2>2. F[a] \subseteq {a}
    BY <1>4, <2>1
  <2> QED BY <1>3, <2>2
<1>6. ASSUME NEW a \in C, a \notin stop PROVE F[a] = {a} \cup F[next[a]]
  <2>1. next[a] \in F[a] /\ next[a] \in C
    BY <1>3, <1>6
  <2>2. F[next[a]] \subseteq F[a]
    BY <1>3, <1>4, <2>1
  <2>3. Shut({a} \cup F[next[a]]) /\ {a} \cup F[next[a]] \in SUBSET C
    BY <1>3, <2>1
  <2>4. F[a] \subseteq {a} \cup F[next[a]]
    BY <1>4, <2>3
  <2> QED BY <1>3, <2>2, <2>4
<1>7. Walks(F, C, next, stop)
  BY <1>5, <1>6 DEF Walks
<1> QED BY <1>1, <1>7

(* The walks of the compiler and of SEE, as the definitions have them.     *)
Walked(F, Step(_)) ==
  F = [a \in D!Cells |->
        IF DebugCode[a] = D!SemiParen \/ a + Step(a) \notin D!Cells THEN {a}
        ELSE {a} \cup F[a + Step(a)]]

LaidWalk == CHOOSE F : Walked(F, D!Taken)

SeenWalk == CHOOSE F : Walked(F, D!SeeSkip)

LEMMA WalksNamed ==
  /\ \A w : D!Laid(w) = LaidWalk[w]
  /\ \A w : D!Seen(w) = SeenWalk[w]
BY Zenon DEF LaidWalk, SeenWalk, Walked, D!Laid, D!Seen

LEMMA LaidIsWalk == Walked(LaidWalk, D!Taken)
<1> DEFINE C == D!Cells
           stop == {a \in C : DebugCode[a] = D!SemiParen \/ a + D!Taken(a) \notin C}
           next == [a \in C |-> IF a + D!Taken(a) \in C THEN a + D!Taken(a) ELSE a]
<1>1. next \in [C -> C]
  OBVIOUS
<1> HIDE DEF C, stop, next
<1>2. PICK F \in [C -> SUBSET C] : Walks(F, C, next, stop)
  BY <1>1, WalkExists, Zenon
<1> USE DEF C, stop, next
<1>3. \A a \in C : F[a] = IF DebugCode[a] = D!SemiParen \/ a + D!Taken(a) \notin C THEN {a}
                          ELSE {a} \cup F[a + D!Taken(a)]
  BY <1>2 DEF Walks
<1>4. F = [a \in C |-> F[a]]
  BY <1>2
<1>5. Walked(F, D!Taken)
  BY <1>3, <1>4, Zenon DEF Walked
<1> QED BY <1>5, Zenon DEF LaidWalk

LEMMA SeenIsWalk == Walked(SeenWalk, D!SeeSkip)
<1> DEFINE C == D!Cells
           stop == {a \in C : DebugCode[a] = D!SemiParen \/ a + D!SeeSkip(a) \notin C}
           next == [a \in C |-> IF a + D!SeeSkip(a) \in C THEN a + D!SeeSkip(a) ELSE a]
<1>1. next \in [C -> C]
  OBVIOUS
<1> HIDE DEF C, stop, next
<1>2. PICK F \in [C -> SUBSET C] : Walks(F, C, next, stop)
  BY <1>1, WalkExists, Zenon
<1> USE DEF C, stop, next
<1>3. \A a \in C : F[a] = IF DebugCode[a] = D!SemiParen \/ a + D!SeeSkip(a) \notin C THEN {a}
                          ELSE {a} \cup F[a + D!SeeSkip(a)]
  BY <1>2 DEF Walks
<1>4. F = [a \in C |-> F[a]]
  BY <1>2
<1>5. Walked(F, D!SeeSkip)
  BY <1>3, <1>4, Zenon DEF Walked
<1> QED BY <1>5, Zenon DEF SeenWalk

(* The program of the debugger, and where its instructions are.            *)
LEMMA DebugFacts ==
  /\ DebugCode \in [D!Cells -> Int] /\ D!Cells = 1..Len(DebugCode) /\ Len(DebugCode) \in Nat
  /\ \A a \in D!Cells : DebugCode[a] # D!StepBreak
  /\ D!Starts \subseteq D!Cells /\ DebugWords \subseteq D!Cells
  /\ 1 \in D!Starts /\ 2 \in D!Starts
  /\ \A w \in DebugWords : LaidWalk[w] \subseteq D!Starts
  /\ CharsOf \in Nat \ {0}
BY DebugAssumption, WalksNamed
DEF D!DebuggerAssumption, D!CodeAssumption, D!Cells, D!Starts

LEMMA WalkSteps ==
  ASSUME NEW a \in D!Cells
  PROVE  /\ LaidWalk[a] =
              IF DebugCode[a] = D!SemiParen \/ a + D!Taken(a) \notin D!Cells THEN {a}
              ELSE {a} \cup LaidWalk[a + D!Taken(a)]
         /\ SeenWalk[a] =
              IF DebugCode[a] = D!SemiParen \/ a + D!SeeSkip(a) \notin D!Cells THEN {a}
              ELSE {a} \cup SeenWalk[a + D!SeeSkip(a)]
<1>1. ASSUME NEW F, NEW g, F = g, NEW b \in DOMAIN g PROVE F[b] = g[b]
  BY <1>1
<1> QED BY LaidIsWalk, SeenIsWalk DEF Walked

LEMMA WordsAreStarts == DebugWords \subseteq D!Starts
<1>1. ASSUME NEW w \in DebugWords PROVE w \in D!Starts
  <2>1. w \in D!Cells /\ LaidWalk[w] \subseteq D!Starts
    BY DebugFacts
  <2>2. w \in LaidWalk[w]
    BY <2>1, WalkSteps
  <2> QED BY <2>1, <2>2
<1> QED BY <1>1

(* The characters of a text fill whole cells. *)
LEMMA Whole == ASSUME NEW n \in Nat, NEW c \in Nat \ {0} PROVE n \div c \in Nat
OBVIOUS

(* What SEE passes over is what the inner loop takes, but for LINK and the *)
(* fetches of locals, whose argument is one cell.                          *)
LEMMA Passed ==
  ASSUME NEW a \in D!Starts
  PROVE  /\ D!Taken(a) \in Nat \ {0}
         /\ DebugCode[a] \notin {D!Link, D!GetLocal} => D!SeeSkip(a) = D!Taken(a)
         /\ DebugCode[a] \in {D!Link, D!GetLocal} =>
              /\ D!Taken(a) = 2 /\ D!SeeSkip(a) = 1
              /\ a + 1 \in D!Cells => D!SeeSkip(a + 1) = 1 /\ DebugCode[a + 1] # D!SemiParen
<1> USE DEF D!Link, D!GetLocal, D!SemiParen, D!ExitParen, D!Branch, D!Branch0, D!Literal,
        D!TwoLiteral, D!DoParen, D!Loop, D!StringLit, D!CStringLit, D!ToLocal, D!Unlink,
        D!Simple, D!Argument
<1>1. /\ DebugCode[a] \in {11, 12} => DebugCode[a + 1] \in Nat
      /\ DebugCode[a] \in {13, 14} => DebugCode[a + 1] \in {1, 2, 3, 16}
      /\ CharsOf \in Nat \ {0}
  BY DebugAssumption DEF D!CodeAssumption
<1>2. ASSUME DebugCode[a] \in {11, 12}
      PROVE  D!Text(DebugCode[a + 1]) \in Nat /\ D!Counted(DebugCode[a + 1]) \in Nat
  <2>1. /\ DebugCode[a + 1] + CharsOf \in Nat
        /\ DebugCode[a + 1] + 1 + CharsOf \in Nat
    BY <1>1, <1>2
  <2> QED BY <1>1, <2>1, Whole DEF D!Text, D!Counted
<1>3. D!Taken(a) \in Nat \ {0}
  BY <1>1, <1>2 DEF D!Taken
<1>4. DebugCode[a] \notin {13, 14} => D!SeeSkip(a) = D!Taken(a)
  BY DEF D!SeeSkip, D!Taken, D!Classified
<1>5. DebugCode[a] \in {13, 14} => D!Taken(a) = 2 /\ D!SeeSkip(a) = 1
  BY DEF D!SeeSkip, D!Taken, D!Classified
<1>6. DebugCode[a] \in {13, 14} => D!SeeSkip(a + 1) = 1 /\ DebugCode[a + 1] # 4
  BY <1>1 DEF D!SeeSkip, D!Classified
<1> QED BY <1>3, <1>4, <1>5, <1>6

(* Behind an argument that it does not know SEE is in step again: what is  *)
(* laid out from a cell on, it shows.                                      *)
LEMMA LaidIsSeen ==
  ASSUME NEW a \in D!Cells, LaidWalk[a] \subseteq D!Starts
  PROVE  LaidWalk[a] \subseteq SeenWalk[a]
<1> DEFINE Bad(b) == LaidWalk[b] \subseteq D!Starts /\ ~(LaidWalk[b] \subseteq SeenWalk[b])
           Nums == {Len(DebugCode) - b : b \in {c \in D!Cells : Bad(c)}}
<1>1. SUFFICES ASSUME Bad(a) PROVE FALSE
  OBVIOUS
<1>2. Nums \in SUBSET Nat /\ Nums # {}
  BY <1>1, DebugFacts
<1>3. PICK b \in D!Cells : Bad(b) /\ \A c \in D!Cells : Bad(c) => b >= c
  <2>1. PICK m \in Nums : \A n \in Nums : m <= n
    BY <1>2, Least
  <2>2. PICK b \in D!Cells : Bad(b) /\ m = Len(DebugCode) - b
    OBVIOUS
  <2>3. ASSUME NEW c \in D!Cells, Bad(c) PROVE b >= c
    <3>1. Len(DebugCode) - c \in Nums
      BY <2>3
    <3>2. m <= Len(DebugCode) - c
      BY <2>1, <3>1
    <3> HIDE DEF Nums, Bad
    <3> QED BY <2>2, <3>2, DebugFacts
  <2> QED BY <2>2, <2>3
<1> HIDE DEF Nums
<1>4. b \in LaidWalk[b] /\ b \in SeenWalk[b] /\ b \in D!Starts
  BY <1>3, WalkSteps
<1>5. DebugCode[b] # D!SemiParen /\ b + D!Taken(b) \in D!Cells
  BY <1>3, <1>4, WalkSteps
<1>6. LaidWalk[b] = {b} \cup LaidWalk[b + D!Taken(b)]
  BY <1>5, WalkSteps
<1>7. b + D!Taken(b) > b
  BY <1>4, Passed, DebugFacts
<1>8. LaidWalk[b + D!Taken(b)] \subseteq SeenWalk[b + D!Taken(b)]
  <2>1. ~ Bad(b + D!Taken(b))
    BY <1>3, <1>5, <1>7, DebugFacts
  <2> QED BY <1>3, <1>6, <2>1
<1>9. SeenWalk[b + D!Taken(b)] \subseteq SeenWalk[b]
  <2>1. CASE DebugCode[b] \notin {D!Link, D!GetLocal}
    BY <1>4, <1>5, <2>1, Passed, WalkSteps
  <2>2. CASE DebugCode[b] \in {D!Link, D!GetLocal}
    <3>1. D!Taken(b) = 2 /\ D!SeeSkip(b) = 1
      BY <1>4, <2>2, Passed
    <3>2. b + 1 \in D!Cells
      BY <1>5, <3>1, DebugFacts
    <3>3. D!SeeSkip(b + 1) = 1 /\ DebugCode[b + 1] # D!SemiParen
      BY <1>4, <2>2, <3>2, Passed
    <3>4. b + 1 + 1 = b + 2 /\ b + 2 \in D!Cells
      BY <1>5, <3>1, DebugFacts
    <3>5. SeenWalk[b + 1] = {b + 1} \cup SeenWalk[b + 2]
      <4>1. ASSUME NEW c \in D!Cells, D!SeeSkip(c) = 1, DebugCode[c] # D!SemiParen,
                   c + 1 \in D!Cells
            PROVE  SeenWalk[c] = {c} \cup SeenWalk[c + 1]
        BY <4>1, WalkSteps
      <4>2. SeenWalk[b + 1] = {b + 1} \cup SeenWalk[b + 1 + 1]
        BY <3>2, <3>3, <3>4, <4>1
      <4> QED BY <3>4, <4>2
    <3>6. SeenWalk[b] = {b} \cup SeenWalk[b + 1]
      BY <1>5, <3>1, <3>2, WalkSteps
    <3> QED BY <3>1, <3>5, <3>6
  <2> QED BY <2>1, <2>2
<1> QED BY <1>3, <1>4, <1>6, <1>8, <1>9

LEMMA StartsAreSeen == D!Starts \subseteq D!Instructions
<1>1. ASSUME NEW w \in DebugWords PROVE D!Laid(w) \subseteq D!Seen(w)
  BY DebugFacts, LaidIsSeen, WalksNamed
<1> QED BY <1>1 DEF D!Starts, D!Instructions

(* The cells of code and breakpoint that are related at every step, and    *)
(* where the inner loop and its calls may be.                              *)
DebugInv ==
  /\ cells \in [D!Cells -> Int]
  /\ D!CodeKept /\ D!PromptClean
  /\ ip \in D!Starts /\ returns \in Seq(D!Starts)
  /\ at \in {"run", "prompt"}
  /\ \A a \in D!Cells : cells[a] = D!StepBreak => a \in D!Starts
  /\ at = "prompt" => bp.address \in D!Cells

LEMMA Breaks ==
  /\ D!StepBreak \in Int
  /\ D!StepBreak = -1001
BY DEF D!StepBreak

(* A breakpoint in code as it was compiled is the only change of it        *)
(* (ficlVmSetBreak of tools.c).                                            *)
LEMMA SetBreakKeeps ==
  ASSUME cells = DebugCode, NEW a, D!SetBreak(a)
  PROVE  /\ cells' \in [D!Cells -> Int] /\ D!CodeKept'
         /\ \A b \in D!Cells : cells'[b] = D!StepBreak => b = a
<1>1. cells \in [D!Cells -> Int] /\ \A b \in D!Cells : DebugCode[b] # D!StepBreak
  BY DebugFacts
<1>2. cells' \in [D!Cells -> Int]
  BY <1>1, Breaks DEF D!SetBreak
<1>3. ASSUME NEW b \in D!Cells
      PROVE  /\ \/ cells'[b] = DebugCode[b]
                \/ cells'[b] = D!StepBreak /\ bp' = [address |-> b, oldXT |-> DebugCode[b]]
             /\ cells'[b] = D!StepBreak => b = a
  <2>1. CASE a = b
    BY <1>1, <1>3, <2>1 DEF D!SetBreak
  <2>2. CASE a # b
    BY <1>1, <1>3, <2>2 DEF D!SetBreak
  <2> QED BY <2>1, <2>2
<1> QED BY <1>2, <1>3 DEF D!CodeKept

(* The prompt comes with the instruction back in its place, at the         *)
(* instruction that was to be executed (step-break of tools.c).            *)
LEMMA RestoreClean ==
  ASSUME DebugInv, D!Break
  PROVE  cells' = DebugCode /\ ip' = ip
<1>1. cells \in [D!Cells -> Int] /\ ip \in D!Cells /\ cells[ip] = D!StepBreak
  BY DEF DebugInv, D!Break
<1>2. DebugCode[ip] # D!StepBreak
  BY <1>1, DebugFacts
<1>3. bp = [address |-> ip, oldXT |-> DebugCode[ip]]
  BY <1>1, <1>2 DEF DebugInv, D!CodeKept
<1>4. cells' = [cells EXCEPT ![ip] = DebugCode[ip]]
  BY <1>3 DEF D!Break, D!Restore
<1>5. ASSUME NEW b \in D!Cells PROVE cells'[b] = DebugCode[b]
  <2>1. CASE b = ip
    BY <1>1, <1>4, <2>1
  <2>2. CASE b # ip
    <3>1. bp.address # b
      BY <1>3, <2>2
    <3>2. cells[b] = DebugCode[b]
      BY <1>5, <3>1 DEF DebugInv, D!CodeKept
    <3> QED BY <1>1, <1>4, <2>2, <3>2
  <2> QED BY <2>1, <2>2
<1>6. cells' \in [D!Cells -> Int] /\ DebugCode \in [D!Cells -> Int]
  BY <1>1, <1>2, <1>4, DebugFacts
<1>7. ip' = ip
  BY <1>3 DEF D!Break
<1> QED BY <1>5, <1>6, <1>7

(* What an instruction leads to, in code where a breakpoint may be.        *)
LEMMA Leading ==
  ASSUME DebugInv, cells[ip] # D!StepBreak, ip \in D!Cells,
         D!Execute(cells[ip], ip + 1)
  PROVE  ip' \in D!Starts /\ returns' \in Seq(D!Starts)
<1>1. cells[ip] = DebugCode[ip]
  BY DEF DebugInv, D!CodeKept
<1>2. ip \in D!Starts /\ returns \in Seq(D!Starts)
  BY DEF DebugInv
<1>3. D!Leads(ip) \subseteq D!Starts /\ DebugWords \subseteq D!Starts
  BY <1>2, DebugAssumption, WordsAreStarts DEF D!CodeAssumption
<1>4. CASE ip' \in D!Jumps(cells[ip], ip + 1, cells[ip + 1]) /\ UNCHANGED returns
  <2>1. ip' \in D!Jumps(DebugCode[ip], ip + 1, DebugCode[ip + 1])
    <3>1. CASE DebugCode[ip] \in {D!StringLit, D!CStringLit, D!Branch, D!Branch0, D!Loop}
      <4>1. ip + 1 \in D!Cells \ D!Starts
        BY <1>2, <3>1, DebugAssumption DEF D!CodeAssumption
      <4>2. cells[ip + 1] = DebugCode[ip + 1]
        BY <4>1 DEF DebugInv, D!CodeKept
      <4> QED BY <1>1, <1>4, <4>2
    <3>2. CASE DebugCode[ip] \notin {D!StringLit, D!CStringLit, D!Branch, D!Branch0, D!Loop}
      BY <1>1, <1>4, <3>2 DEF D!Jumps
    <3> QED BY <3>1, <3>2
  <2> QED BY <1>2, <1>3, <1>4, <2>1 DEF D!Leads
<1>5. CASE /\ returns # <<>> /\ ip' = returns[Len(returns)]
           /\ returns' = SubSeq(returns, 1, Len(returns) - 1)
  BY <1>2, <1>5
<1>6. CASE /\ cells[ip] \in D!Called \cup {D!Interpret}
           /\ ip' \in DebugWords /\ returns' = Append(returns, ip + 1)
  <2>1. ip + 1 \in D!Leads(ip)
    BY <1>1, <1>6 DEF D!Leads
  <2> QED BY <1>2, <1>3, <1>6, <2>1
<1> QED BY <1>4, <1>5, <1>6 DEF D!Execute

LEMMA DebugInitially == D!Init => DebugInv
BY DebugFacts, EmptySeq
DEF D!Init, DebugInv, D!CodeKept, D!PromptClean

LEMMA DebugInductive == DebugInv /\ [D!Next]_debugVars => DebugInv'
<1> SUFFICES ASSUME DebugInv, [D!Next]_debugVars PROVE DebugInv'
  OBVIOUS
<1> DEFINE Lands == ip' \in D!Starts /\ returns' \in Seq(D!Starts)
<1>0. /\ cells \in [D!Cells -> Int] /\ D!CodeKept /\ D!PromptClean
      /\ ip \in D!Starts /\ returns \in Seq(D!Starts) /\ D!Starts \subseteq D!Cells
      /\ 1 \in D!Starts /\ DebugWords \subseteq D!Starts
      /\ \A a \in D!Cells : cells[a] = D!StepBreak => a \in D!Starts
      /\ at = "prompt" => bp.address \in D!Cells
      /\ \A a \in D!Cells : DebugCode[a] # D!StepBreak
  BY DebugFacts, WordsAreStarts DEF DebugInv
<1>1. ASSUME UNCHANGED <<cells, bp>>, at' = "run", Lands PROVE DebugInv'
  BY <1>0, <1>1 DEF DebugInv, D!CodeKept, D!PromptClean
<1>2. ASSUME NEW a \in D!Starts, D!SetBreak(a), cells = DebugCode, at' = "run", Lands
      PROVE  DebugInv'
  <2>1. /\ cells' \in [D!Cells -> Int] /\ D!CodeKept'
        /\ \A b \in D!Cells : cells'[b] = D!StepBreak => b = a
    BY <1>2, SetBreakKeeps
  <2> QED BY <1>2, <2>1 DEF DebugInv, D!PromptClean
<1>3. CASE D!Run
  <2>1. cells[ip] # D!StepBreak /\ ip \in D!Cells /\ D!Execute(cells[ip], ip + 1)
    BY <1>3 DEF D!Run
  <2> QED BY <1>1, <1>3, <2>1, Leading DEF D!Run
<1>4. CASE (at = "run" /\ D!Abort) \/ D!Quit
  <2>1. ip' = 1 /\ returns' = <<>> /\ at' = "run" /\ UNCHANGED <<cells, bp>>
    BY <1>4 DEF D!Abort, D!Quit
  <2>2. <<>> \in Seq(D!Starts)
    OBVIOUS
  <2> QED BY <1>0, <1>1, <2>1, <2>2
<1>5. CASE D!Go
  BY <1>0, <1>1, <1>5 DEF D!Go
<1>6. ASSUME NEW w \in DebugWords, D!DebugXT(w) PROVE DebugInv'
  <2>1. ip + 1 \in D!Starts
    <3>1. DebugCode[ip] = D!Interpret
      BY <1>6 DEF D!DebugXT
    <3>2. ip + 1 \in D!Leads(ip)
      BY <3>1 DEF D!Leads
    <3> QED BY <1>0, <3>2, DebugAssumption DEF D!CodeAssumption
  <2>2. Lands /\ w \in D!Starts
    BY <1>0, <1>6, <2>1 DEF D!DebugXT
  <2>3. cells = DebugCode /\ at' = "run" /\ D!SetBreak(w)
    BY <1>6 DEF D!DebugXT, D!SetBreak
  <2> QED BY <1>2, <2>2, <2>3
<1>7. CASE D!Break
  <2>1. cells' = DebugCode /\ ip' = ip
    BY <1>7, RestoreClean
  <2>2. returns' = returns /\ at' = "prompt" /\ bp' = bp
    BY <1>7 DEF D!Break
  <2>3. bp.address = ip
    BY <1>0, <1>7 DEF D!Break, D!CodeKept
  <2>4. cells' \in [D!Cells -> Int]
    BY <2>1, DebugFacts
  <2>5. D!CodeKept' /\ D!PromptClean'
    BY <2>1 DEF D!CodeKept, D!PromptClean
  <2> QED BY <1>0, <2>1, <2>2, <2>3, <2>4, <2>5 DEF DebugInv
<1>8. CASE D!StepIn
  <2>1. cells = DebugCode /\ at' = "run" /\ D!Execute(cells[ip], ip + 1) /\ D!SetBreak(ip')
    BY <1>0, <1>8 DEF D!StepIn, D!PromptClean
  <2>2. Lands
    BY <1>0, <2>1, Leading
  <2> QED BY <1>2, <2>1, <2>2
<1>9. CASE D!StepOver
  <2>1. cells = DebugCode /\ at' = "run" /\ D!SetBreak(ip + 1) /\ UNCHANGED <<ip, returns>>
        /\ cells[ip] \in D!Called
    BY <1>0, <1>9 DEF D!StepOver, D!PromptClean, D!Over
  <2>2. ip + 1 \in D!Starts
    <3>1. ip + 1 \in D!Leads(ip)
      BY <2>1 DEF D!Leads
    <3> QED BY <1>0, <3>1, DebugAssumption DEF D!CodeAssumption
  <2> QED BY <1>0, <1>2, <2>1, <2>2
<1>10. CASE UNCHANGED debugVars
  BY <1>0, <1>10 DEF debugVars, DebugInv, D!CodeKept, D!PromptClean
<1> QED
  BY <1>3, <1>4, <1>5, <1>6, <1>7, <1>8, <1>9, <1>10 DEF D!Next

LEMMA DebugVars == [D!Next]_(D!vars) => [D!Next]_debugVars
BY DEF D!vars, debugVars

LEMMA DebugInvariance == D!Spec => []DebugInv
<1>1. DebugInv /\ [D!Next]_(D!vars) => DebugInv'
  BY DebugInductive, DebugVars
<1> QED BY <1>1, DebugInitially, PTL DEF D!Spec

(* Whatever the code and wherever an error comes, no cell but one differs  *)
(* from what was compiled, and its instruction is kept (SetBreak and       *)
(* step-break of tools.c).                                                 *)
THEOREM BreakpointsKeepCode == D!Spec => []D!CodeKept
<1>1. DebugInv => D!CodeKept
  BY DEF DebugInv
<1> QED BY <1>1, DebugInvariance, PTL

(* At the prompt of the debugger the code is what was compiled (step-break *)
(* of tools.c).                                                            *)
THEOREM PromptShowsProgram == D!Spec => []D!PromptClean
<1>1. DebugInv => D!PromptClean
  BY DEF DebugInv
<1> QED BY <1>1, DebugInvariance, PTL

(* The inner loop is only at cells which SEE shows as instructions, and    *)
(* only such cells have a breakpoint, through calls, returns, errors and   *)
(* every command of the debugger (vm.c, tools.c, dictionary.c).            *)
THEOREM SeeShowsExecuted == D!Spec => []D!SeeInStep
<1>1. DebugInv => D!SeeInStep
  BY StartsAreSeen DEF DebugInv, D!SeeInStep
<1> QED BY <1>1, DebugInvariance, PTL

(* The debugger as MCSequential runs it: a breakpoint keeps the code, the  *)
(* prompt shows it, and SEE shows what is executed (tools.c).              *)
THEOREM DebuggerIsSound == MCSpec => []DebuggerSound
<1>1. MCInit => DebugInv
  BY DebugInitially DEF MCInit
<1>2. DebugInv /\ [MCNext]_mcVars => DebugInv'
  <2>1. [MCNext]_mcVars => [D!Next]_debugVars
    BY DEF MCNext, mcVars
  <2> QED BY <2>1, DebugInductive
<1>3. DebugInv => DebuggerSound
  BY StartsAreSeen DEF DebugInv, DebuggerSound, D!SeeInStep
<1> QED BY <1>1, <1>2, <1>3, PTL DEF MCSpec

--------------------------------------------------------------------------------
(* The memory of the dictionary.                                           *)

(* A header as the dictionary keeps it, and one of a word that has a name. *)
HeaderSet ==
  [name : Seq(Nat), length : Nat, at : Nat, head : Nat, body : Nat, to : Nat,
   kind : {"create", "variable", "constant", "2constant", "colon"}]

Known(h) == \E n \in WordNames : h.name = M!Stored(n) /\ h.length = Len(n)

Linked(h) ==
  /\ h \in HeaderSet /\ Known(h)
  /\ h.at < h.to /\ M!Align(h.head) = h.head
  /\ h.to >= h.body + Cell \/ M!HeaderFills(h)
  /\ h.kind = "2constant" => h.to = h.body + 2 * Cell

(* Words and data that lie apart from each other and below an address.     *)
Kept(ws, ds, top) ==
  /\ ws \in Seq(HeaderSet)
  /\ \A i \in DOMAIN ws : Linked(ws[i]) /\ ws[i].to <= top
  /\ \A i, j \in DOMAIN ws : i < j => ws[i].to <= ws[j].at
  /\ ds \subseteq [from : Nat, to : Nat]
  /\ \A d \in ds : d.from < d.to /\ d.to <= top
  /\ \A d, e \in ds : d # e => d.to <= e.from \/ e.to <= d.from
  /\ \A d \in ds, i \in DOMAIN ws : d.to <= ws[i].at \/ ws[i].to <= d.from

(* The header that waits for ; and where HERE goes back to.                *)
Pending ==
  /\ smudge \in HeaderSet /\ smudge.kind = "colon"
  /\ smudge.length > 0 => Known(smudge)
  /\ M!Align(smudge.head) = smudge.head
  /\ smudge.at <= here /\ smudge.body <= here
  /\ \A i \in DOMAIN words : words[i].to <= smudge.at
  /\ IF smudge.name = <<>> THEN smudge.at = M!Align(open.started)
     ELSE smudge.at = open.started
  /\ (open.started \div Cell) <= Size

MemInv ==
  /\ here \in Nat /\ runs \in Nat /\ mode \in {"interpret", "compile"}
  /\ open \in [started : Nat, inside : BOOLEAN] \cup {M!None}
  /\ Kept(words, held, here)
  /\ mode = "compile" => open # M!None
  /\ open # M!None => Pending
  /\ M!Threaded /\ M!OverrunBounded

LEMMA Division ==
  ASSUME NEW a \in Nat, NEW c \in Nat \ {0}
  PROVE  a \div c \in Nat /\ (a \div c) * c <= a /\ a < (a \div c) * c + c
OBVIOUS

LEMMA Quotient ==
  ASSUME NEW a \in Nat, NEW c \in Nat \ {0}, NEW q \in Nat, q * c <= a, a < q * c + c
  PROVE  a \div c = q
<1>1. /\ a \div c \in Nat /\ (a \div c) * c <= a /\ a < (a \div c) * c + c
  BY Division
<1> DEFINE p == a \div c
<1> HIDE DEF p
<1>2. p \in Nat /\ p * c <= a /\ a < p * c + c
  BY <1>1 DEF p
<1>3. ASSUME p < q PROVE FALSE
  <2>1. (p + 1) * c <= q * c
    BY <1>2, <1>3
  <2> QED BY <1>2, <2>1
<1>4. ASSUME q < p PROVE FALSE
  <2>1. (q + 1) * c <= p * c
    BY <1>2, <1>4
  <2> QED BY <1>2, <2>1
<1> QED BY <1>2, <1>3, <1>4 DEF p

(* What ficlAlignPointer of utility.c does with an address.                *)
LEMMA Aligned ==
  ASSUME NEW a \in Nat
  PROVE  /\ M!Align(a) \in Nat /\ a <= M!Align(a) /\ M!Align(a) < a + Cell
         /\ M!Align(M!Align(a)) = M!Align(a)
         /\ \A n \in Nat : a <= n * Cell => M!Align(a) <= n * Cell
<1> DEFINE q == (a + Cell - 1) \div Cell
<1>1. Cell \in Nat \ {0} /\ a + Cell - 1 \in Nat
  BY MemoryAssumption DEF M!MemoryAssumption
<1>2. q \in Nat /\ q * Cell <= a + Cell - 1 /\ a + Cell - 1 < q * Cell + Cell
  BY <1>1, Division
<1>3. M!Align(a) = q * Cell
  BY DEF M!Align
<1> HIDE DEF q
<1>4. q * Cell \in Nat
  BY <1>1, <1>2
<1>5. (q * Cell + Cell - 1) \div Cell = q
  <2>1. q * Cell + Cell - 1 \in Nat
    BY <1>1, <1>4
  <2> QED BY <1>1, <1>2, <1>4, <2>1, Quotient
<1>6. M!Align(q * Cell) = q * Cell
  BY <1>5 DEF M!Align
<1>7. ASSUME NEW n \in Nat, a <= n * Cell PROVE q * Cell <= n * Cell
  <2>1. SUFFICES ASSUME n < q PROVE FALSE
    BY <1>1, <1>2
  <2>2. (n + 1) * Cell <= q * Cell
    BY <1>1, <1>2, <2>1
  <2>3. (n + 1) * Cell = n * Cell + Cell /\ n * Cell \in Nat
    BY <1>1
  <2> QED BY <1>1, <1>2, <1>4, <1>7, <2>2, <2>3
<1> QED BY <1>1, <1>2, <1>3, <1>4, <1>6, <1>7

LEMMA MemoryConstants ==
  /\ Cell \in Nat \ {0} /\ Size \in Nat /\ HeaderSize \in Nat \ {0}
  /\ NameLength \in Nat \ {0} /\ NameSpan \in Nat \ {0}
  /\ \A n \in WordNames : n \in Seq(Nat) /\ n # <<>> /\ Len(n) < NameSpan
  /\ Lengths \subseteq Nat \ {NameSpan} /\ Size * Cell \in Nat
<1>1. /\ Cell \in Nat \ {0} /\ Size \in Nat /\ HeaderSize \in Nat \ {0}
      /\ NameLength \in Nat \ {0} /\ NameSpan \in Nat \ {0}
      /\ \A n \in WordNames : n \in Seq(Nat) /\ n # <<>> /\ Len(n) < NameSpan
      /\ Lengths \subseteq Nat \ {NameSpan}
  BY MemoryAssumption DEF M!MemoryAssumption
<1> QED BY <1>1

(* A finite set of naturals has a bound.                                   *)
LEMMA Bounded ==
  ASSUME NEW S \in SUBSET Nat, IsFiniteSet(S) PROVE \E b \in Nat : \A x \in S : x <= b
<1> DEFINE Loose == {E \in FiniteSubsetsOf(Nat) : \A b \in Nat : \E x \in E : x > b}
<1>1. SUFFICES ASSUME S \in Loose PROVE FALSE
  BY DEF FiniteSubsetsOf
<1>2. PICK u \in Loose : \A v \in Loose : <<v, u>> \notin StrictSubsetOrdering(Nat)
  BY <1>1, FS_StrictSubsetOrderingWellFounded, WFMin
<1>3. u \in SUBSET Nat /\ IsFiniteSet(u)
  BY DEF FiniteSubsetsOf
<1>4. PICK x \in u : x > 0
  OBVIOUS
<1>5. u \ {x} \in FiniteSubsetsOf(Nat)
  BY <1>3, FS_RemoveElement DEF FiniteSubsetsOf
<1>6. <<u \ {x}, u>> \in StrictSubsetOrdering(Nat)
  BY <1>3, <1>4 DEF StrictSubsetOrdering
<1>7. PICK b \in Nat : \A y \in u \ {x} : y <= b
  BY <1>2, <1>3, <1>5, <1>6
<1>8. b + x \in Nat /\ x \in Nat
  BY <1>3, <1>4
<1>9. \A y \in u : y <= b + x
  BY <1>3, <1>7, <1>8
<1> QED BY <1>3, <1>8, <1>9

LEMMA Greatest ==
  ASSUME NEW S \in SUBSET Nat, NEW b \in Nat, S # {}, \A x \in S : x <= b
  PROVE  M!Max(S) \in S /\ \A y \in S : M!Max(S) >= y
<1> DEFINE Nums == {b - x : x \in S}
<1>0. \A x \in S : b - x \in Nat
  OBVIOUS
<1>1. Nums \in SUBSET Nat /\ Nums # {}
  BY <1>0
<1>2. PICK m \in Nums : \A n \in Nums : m <= n
  BY <1>1, Least
<1>3. PICK x \in S : m = b - x
  OBVIOUS
<1>4. ASSUME NEW y \in S PROVE x >= y
  <2>1. b - y \in Nums
    OBVIOUS
  <2>2. b - x <= b - y
    BY <1>2, <1>3, <2>1
  <2> QED BY <2>2
<1> QED BY <1>4 DEF M!Max

LEMMA Smallest ==
  ASSUME NEW S \in SUBSET Nat, S # {}
  PROVE  M!Min(S) \in S /\ \A y \in S : M!Min(S) <= y
<1>1. \E x \in S : \A y \in S : x <= y
  BY Least
<1> QED BY <1>1 DEF M!Min

(* A token appends no more than Largest says (ParseWord of vm.c).          *)
LEMMA LargestCovers ==
  /\ M!Largest \in Nat
  /\ M!Largest >= NameLength + 1 + HeaderSize + 3 * Cell
  /\ \A length \in Lengths : M!Largest >= 4 * Cell + length + 1
<1> DEFINE fixed == NameLength + 1 + HeaderSize + 3 * Cell
           S == {fixed} \cup {4 * Cell + length + 1 : length \in Lengths}
<1>1. Lengths \in SUBSET Nat /\ IsFiniteSet(Lengths)
  BY MemoryAssumption DEF M!MemoryAssumption, M!IsFiniteSet, IsFiniteSet
<1>2. PICK b \in Nat : \A l \in Lengths : l <= b
  BY <1>1, Bounded
<1>3. fixed \in Nat /\ \A l \in Lengths : 4 * Cell + l + 1 \in Nat
  BY <1>1, MemoryConstants
<1> HIDE DEF fixed
<1>4. S \in SUBSET Nat /\ S # {}
  BY <1>3
<1>5. fixed + 4 * Cell + b + 1 \in Nat
  BY <1>2, <1>3, MemoryConstants
<1>6. \A x \in S : x <= fixed + 4 * Cell + b + 1
  BY <1>1, <1>2, <1>3, MemoryConstants
<1>7. M!Max(S) \in S /\ \A y \in S : M!Max(S) >= y
  BY <1>4, <1>5, <1>6, Greatest
<1>8. M!Largest = M!Max(S)
  BY DEF M!Largest, fixed
<1> QED BY <1>4, <1>7, <1>8 DEF fixed

LEMMA StoredName ==
  ASSUME NEW n \in Seq(Nat)
  PROVE  /\ M!Stored(n) \in Seq(Nat) /\ Len(M!Stored(n)) <= NameLength
         /\ n # <<>> => M!Stored(n) # <<>>
         /\ Len(n) <= NameLength => M!Stored(n) = n
         /\ M!Stored(<<>>) = <<>>
<1> DEFINE k == M!Smaller(Len(n), NameLength)
<1>1. k \in 0..Len(n) /\ k <= NameLength /\ (n # <<>> => k > 0)
      /\ (Len(n) <= NameLength => k = Len(n))
  BY MemoryConstants DEF M!Smaller
<1> HIDE DEF k
<1>2. M!Stored(n) = SubSeq(n, 1, k)
  BY DEF M!Stored, k
<1>3. SubSeq(n, 1, k) \in Seq(Nat) /\ Len(SubSeq(n, 1, k)) = k
  BY <1>1
<1>4. SubSeq(n, 1, Len(n)) = n
  OBVIOUS
<1>5. M!Stored(<<>>) = <<>>
  BY MemoryConstants DEF M!Stored, M!Smaller
<1>6. k > 0 => SubSeq(n, 1, k) # <<>>
  BY <1>1, <1>3
<1> QED BY <1>1, <1>2, <1>3, <1>4, <1>5, <1>6, MemoryConstants

(* What ficlDictionaryAppendWord lays out from HERE on.                    *)
LaidOut(h, n, count, kind) ==
  /\ h \in HeaderSet /\ h.kind = kind
  /\ M!Align(h.head) = h.head /\ here <= h.at /\ h.at <= h.head
  /\ h.body = h.head + HeaderSize /\ h.to = h.body + count * Cell
  /\ h.body <= here + NameLength + Cell + HeaderSize
  /\ n # <<>> => h.at = here /\ h.length > 0 /\ Known(h) /\ h.name # <<>>
  /\ n = <<>> => h.at = M!Align(here) /\ h.length = 0 /\ h.name = <<>>

LEMMA HeaderLaid ==
  ASSUME here \in Nat, NEW n \in WordNames \cup {<<>>}, NEW count \in 0..2,
         NEW kind \in {"create", "variable", "constant", "2constant", "colon"}
  PROVE  LaidOut(M!Header(n, count, kind), n, count, kind)
<1> DEFINE h == M!Header(n, count, kind)
<1> USE MemoryConstants
<1>1. n \in Seq(Nat) /\ (n # <<>> => Len(n) > 0 /\ n \in WordNames) /\ Len(n) < NameSpan
  <2>1. CASE n = <<>>
    <3>1. <<>> \in Seq(Nat) /\ Len(<<>>) = 0
      OBVIOUS
    <3> QED BY <2>1, <3>1
  <2>2. CASE n # <<>>
    <3>1. n \in WordNames
      BY <2>2
    <3> QED BY <2>2, <3>1
  <2> QED BY <2>1, <2>2
<1>2. /\ M!Stored(n) \in Seq(Nat) /\ Len(M!Stored(n)) <= NameLength
      /\ Len(M!Stored(n)) \in Nat
      /\ n # <<>> => M!Stored(n) # <<>>
      /\ n = <<>> => M!Stored(n) = <<>>
  BY <1>1, StoredName
<1> DEFINE head == M!AppendString(n)
<1>3. /\ head \in Nat /\ here <= head /\ M!Align(head) = head
      /\ head <= here + NameLength + Cell
      /\ n = <<>> => head = M!Align(here)
  <2>1. CASE n = <<>>
    <3>1. head = M!Align(here)
      BY <1>2, <2>1 DEF M!AppendString, M!AppendData
    <3> QED BY <3>1, Aligned
  <2>2. CASE n # <<>>
    <3> DEFINE end == here + Len(M!Stored(n)) + 1
    <3>1. Len(M!Stored(n)) # 0
      BY <1>1, <1>2, <2>2
    <3>2. head = M!Align(end)
      BY <3>1 DEF M!AppendString, M!AppendData
    <3>3. end \in Nat /\ here <= end /\ end <= here + NameLength + 1
      BY <1>2
    <3> HIDE DEF end
    <3>4. head \in Nat /\ end <= head /\ head < end + Cell /\ M!Align(head) = head
      BY <3>2, <3>3, Aligned
    <3> QED BY <2>2, <3>3, <3>4
  <2> QED BY <2>1, <2>2
<1> HIDE DEF head
<1>4. h = [name |-> M!Stored(n), length |-> Len(n) % NameSpan, kind |-> kind,
           at |-> IF n = <<>> THEN M!Align(here) ELSE here,
           head |-> head, body |-> head + HeaderSize, to |-> head + HeaderSize + count * Cell]
  BY DEF M!Header, M!Body, head
<1> HIDE DEF h
<1>5. Len(n) % NameSpan = Len(n)
  BY <1>1
<1>6. count * Cell \in Nat
  OBVIOUS
<1>7. n # <<>> => Known(h)
  BY <1>1, <1>4, <1>5 DEF Known
<1>8. M!Align(here) \in Nat /\ here <= M!Align(here)
  BY Aligned
<1>9. h \in HeaderSet
  BY <1>1, <1>2, <1>3, <1>4, <1>5, <1>6, <1>8 DEF HeaderSet
<1>10. LaidOut(h, n, count, kind)
  BY <1>1, <1>2, <1>3, <1>4, <1>5, <1>7, <1>8, <1>9 DEF LaidOut
<1> QED BY <1>10 DEF h

LEMMA KeptMore ==
  ASSUME NEW ws, NEW ds, NEW a \in Nat, NEW b \in Nat, Kept(ws, ds, a), a <= b
  PROVE  Kept(ws, ds, b)
<1>1. \A i \in DOMAIN ws : Linked(ws[i]) /\ ws[i].to <= b
  <2>1. \A i \in DOMAIN ws : Linked(ws[i]) /\ ws[i].to <= a /\ ws[i].to \in Nat
    BY DEF Kept, Linked, HeaderSet
  <2> QED BY <2>1
<1>2. \A d \in ds : d.from < d.to /\ d.to <= b
  <2>1. \A d \in ds : d.from < d.to /\ d.to <= a /\ d.to \in Nat
    BY DEF Kept
  <2> QED BY <2>1
<1> QED BY <1>1, <1>2 DEF Kept

(* A word that is linked lies behind all others.                           *)
LEMMA KeptAppend ==
  ASSUME NEW ws, NEW ds, NEW top \in Nat, Kept(ws, ds, top),
         NEW h, Linked(h), top <= h.at
  PROVE  Kept(Append(ws, h), ds, h.to)
<1> DEFINE n == Len(ws)
           vs == Append(ws, h)
<1>1. /\ h \in HeaderSet /\ h.at \in Nat /\ h.to \in Nat /\ h.at < h.to
      /\ ws \in Seq(HeaderSet) /\ n \in Nat /\ DOMAIN ws = 1..n
  BY DEF Kept, Linked, HeaderSet
<1>2. /\ vs \in Seq(HeaderSet) /\ DOMAIN vs = 1..(n + 1) /\ vs[n + 1] = h
      /\ \A i \in 1..n : vs[i] = ws[i]
  BY <1>1
<1> HIDE DEF vs, n
<1>3. \A i \in 1..n : Linked(ws[i]) /\ ws[i].to \in Nat /\ ws[i].to <= top
  BY <1>1 DEF Kept, Linked, HeaderSet
<1>4. \A i \in DOMAIN vs : Linked(vs[i]) /\ vs[i].to <= h.to
  <2> SUFFICES ASSUME NEW i \in DOMAIN vs PROVE Linked(vs[i]) /\ vs[i].to <= h.to
    OBVIOUS
  <2>1. CASE i = n + 1
    BY <1>1, <1>2, <2>1
  <2>2. CASE i \in 1..n
    BY <1>1, <1>2, <1>3, <2>2
  <2> QED BY <1>1, <1>2, <2>1, <2>2
<1>5. \A i, j \in DOMAIN vs : i < j => vs[i].to <= vs[j].at
  <2> SUFFICES ASSUME NEW i \in DOMAIN vs, NEW j \in DOMAIN vs, i < j
               PROVE  vs[i].to <= vs[j].at
    OBVIOUS
  <2>1. i \in 1..n
    BY <1>1, <1>2
  <2>2. CASE j = n + 1
    BY <1>1, <1>2, <1>3, <2>1, <2>2
  <2>3. CASE j \in 1..n
    BY <1>1, <1>2, <2>1, <2>3 DEF Kept
  <2> QED BY <1>1, <1>2, <2>2, <2>3
<1>6. \A d \in ds : d.from \in Nat /\ d.to \in Nat /\ d.from < d.to /\ d.to <= top
  BY DEF Kept
<1>7. \A d \in ds : d.from < d.to /\ d.to <= h.to
  BY <1>1, <1>6
<1>8. \A d \in ds, i \in DOMAIN vs : d.to <= vs[i].at \/ vs[i].to <= d.from
  <2> SUFFICES ASSUME NEW d \in ds, NEW i \in DOMAIN vs
               PROVE  d.to <= vs[i].at \/ vs[i].to <= d.from
    OBVIOUS
  <2>1. CASE i = n + 1
    BY <1>1, <1>2, <1>6, <2>1
  <2>2. CASE i \in 1..n
    BY <1>1, <1>2, <2>2 DEF Kept
  <2> QED BY <1>1, <1>2, <2>1, <2>2
<1> QED BY <1>2, <1>4, <1>5, <1>7, <1>8 DEF Kept, vs

(* Data space is cut where HERE goes back to.                              *)
LEMMA KeptBelow ==
  ASSUME here \in Nat, Kept(words, held, here), NEW a \in Nat,
         \A i \in DOMAIN words : words[i].to <= a
  PROVE  Kept(words, M!Below(a), a)
<1>1. \A d \in held : d.from \in Nat /\ d.to \in Nat /\ d.from < d.to
                      /\ d = [from |-> d.from, to |-> d.to]
  BY DEF Kept
<1>2. \A i \in DOMAIN words : Linked(words[i]) /\ words[i].at \in Nat /\ words[i].to \in Nat
  BY DEF Kept, Linked, HeaderSet
<1>3. ASSUME NEW d \in M!Below(a)
      PROVE  \E c \in held : /\ c.from < a /\ d.from = c.from /\ d.to <= c.to /\ d.to <= a
                             /\ d.from < d.to /\ d.to \in Nat
                             /\ d = [from |-> c.from, to |-> M!Smaller(c.to, a)]
  <2>1. PICK c \in held : c.from < a /\ d = [from |-> c.from, to |-> M!Smaller(c.to, a)]
    BY DEF M!Below
  <2> QED BY <1>1, <2>1 DEF M!Smaller
<1>4. \A d \in M!Below(a) : d.from \in Nat /\ d.to \in Nat /\ d.from < d.to /\ d.to <= a
  BY <1>1, <1>3
<1>5. M!Below(a) \subseteq [from : Nat, to : Nat]
  BY <1>1, <1>3 DEF M!Smaller
<1>6. ASSUME NEW d \in M!Below(a), NEW e \in M!Below(a), d # e
      PROVE  d.to <= e.from \/ e.to <= d.from
  <2>1. PICK c \in held : d.from = c.from /\ d.to <= c.to
                          /\ d = [from |-> c.from, to |-> M!Smaller(c.to, a)]
    BY <1>3
  <2>2. PICK b \in held : e.from = b.from /\ e.to <= b.to
                          /\ e = [from |-> b.from, to |-> M!Smaller(b.to, a)]
    BY <1>3
  <2>3. c # b
    BY <1>6, <2>1, <2>2
  <2>4. c.to <= b.from \/ b.to <= c.from
    BY <2>3 DEF Kept
  <2> QED BY <1>1, <1>4, <2>1, <2>2, <2>4
<1>7. ASSUME NEW d \in M!Below(a), NEW i \in DOMAIN words
      PROVE  d.to <= words[i].at \/ words[i].to <= d.from
  <2>1. PICK c \in held : d.from = c.from /\ d.to <= c.to
    BY <1>3
  <2>2. c.to <= words[i].at \/ words[i].to <= c.from
    BY DEF Kept
  <2> QED BY <1>1, <1>2, <1>4, <2>1, <2>2
<1>8. \A i \in DOMAIN words : Linked(words[i]) /\ words[i].to <= a
  BY <1>2
<1> QED BY <1>4, <1>5, <1>6, <1>7, <1>8 DEF Kept

(* A piece of data space that grows from HERE on, with the one behind it.  *)
LEMMA KeptHold ==
  ASSUME here \in Nat, Kept(words, held, here), NEW to \in Nat, to > here
  PROVE  Kept(words, M!Hold(to), to)
<1> DEFINE behind == {d \in held : d.to = here}
           S      == {here} \cup {d.from : d \in behind}
           new    == [from |-> M!Min(S), to |-> to]
<1>1. \A d \in held : d.from \in Nat /\ d.to \in Nat /\ d.from < d.to /\ d.to <= here
  BY DEF Kept
<1>2. \A i \in DOMAIN words : /\ Linked(words[i]) /\ words[i].at \in Nat /\ words[i].to \in Nat
                              /\ words[i].at < words[i].to /\ words[i].to <= here
  BY DEF Kept, Linked, HeaderSet
<1>3. S \in SUBSET Nat /\ S # {}
  BY <1>1
<1>4. M!Min(S) \in S /\ \A y \in S : M!Min(S) <= y
  BY <1>3, Smallest
<1>5. M!Hold(to) = (held \ behind) \cup {new}
  BY DEF M!Hold
<1>6. M!Min(S) = here \/ \E d \in behind : M!Min(S) = d.from
  BY <1>4
<1> HIDE DEF S
<1>7. new.from \in Nat /\ new.to = to /\ new.from = M!Min(S) /\ new.from <= here
      /\ new \in [from : Nat, to : Nat]
  BY <1>1, <1>6
<1> HIDE DEF new
<1>8. ASSUME NEW d \in held \ behind PROVE d.to <= new.from
  <2>1. CASE M!Min(S) = here
    BY <1>1, <1>7, <2>1
  <2>2. ASSUME NEW e \in behind, M!Min(S) = e.from PROVE d.to <= new.from
    <3>1. d # e /\ (d.to <= e.from \/ e.to <= d.from)
      BY DEF Kept
    <3> QED BY <1>1, <1>7, <2>2, <3>1
  <2> QED BY <1>6, <2>1, <2>2
<1>9. ASSUME NEW i \in DOMAIN words PROVE words[i].to <= new.from
  <2>1. CASE M!Min(S) = here
    BY <1>2, <1>7, <2>1
  <2>2. ASSUME NEW e \in behind, M!Min(S) = e.from PROVE words[i].to <= new.from
    <3>1. e.to <= words[i].at \/ words[i].to <= e.from
      BY DEF Kept
    <3> QED BY <1>1, <1>2, <1>7, <2>2, <3>1
  <2> QED BY <1>6, <2>1, <2>2
<1>10. \A d \in M!Hold(to) : d.from < d.to /\ d.to <= to
  BY <1>1, <1>5, <1>7
<1>11. M!Hold(to) \subseteq [from : Nat, to : Nat]
  BY <1>5, <1>7 DEF Kept
<1>12. \A d, e \in M!Hold(to) : d # e => d.to <= e.from \/ e.to <= d.from
  BY <1>5, <1>8 DEF Kept
<1>13. \A d \in M!Hold(to), i \in DOMAIN words : d.to <= words[i].at \/ words[i].to <= d.from
  BY <1>5, <1>9 DEF Kept
<1>14. \A i \in DOMAIN words : Linked(words[i]) /\ words[i].to <= to
  BY <1>2
<1> QED BY <1>10, <1>11, <1>12, <1>13, <1>14 DEF Kept

(* A value that is set again in the body of an older word.                 *)
LEMMA KeptKind ==
  ASSUME NEW top, Kept(words, held, top), NEW i, NEW kind \in {"constant", "2constant"},
         i \in DOMAIN words /\ kind = "2constant" => words[i].kind = "2constant"
  PROVE  Kept([words EXCEPT ![i].kind = kind], held, top)
<1> DEFINE vs == [words EXCEPT ![i].kind = kind]
<1>1. words \in Seq(HeaderSet)
  BY DEF Kept
<1>2. Len(words) \in Nat /\ DOMAIN words = 1..Len(words) /\ words \in [1..Len(words) -> HeaderSet]
  BY <1>1
<1>3. ASSUME NEW j \in DOMAIN words
      PROVE  /\ vs[j] \in HeaderSet /\ Linked(vs[j])
             /\ vs[j].at = words[j].at /\ vs[j].to = words[j].to
  <2>0. /\ words[j] \in HeaderSet /\ Linked(words[j])
        /\ Cell \in Nat \ {0} /\ words[j].body \in Nat
    BY <1>2, MemoryConstants DEF Kept, HeaderSet
  <2>1. CASE j = i
    <3>1. vs[j] = [words[j] EXCEPT !.kind = kind]
      BY <1>2, <2>1
    <3>2. /\ vs[j] \in HeaderSet /\ vs[j].kind = kind
          /\ vs[j].at = words[j].at /\ vs[j].to = words[j].to /\ vs[j].body = words[j].body
          /\ vs[j].head = words[j].head /\ vs[j].name = words[j].name
          /\ vs[j].length = words[j].length
      BY <2>0, <3>1 DEF HeaderSet
    <3> QED BY <2>0, <2>1, <3>2 DEF Linked, Known, M!HeaderFills
  <2>2. CASE j # i
    BY <1>2, <2>0, <2>2
  <2> QED BY <2>1, <2>2
<1>4. DOMAIN vs = DOMAIN words
  OBVIOUS
<1>5. vs \in Seq(HeaderSet)
  <2>1. vs \in [1..Len(words) -> HeaderSet]
    BY <1>2, <1>3
  <2> QED BY <1>2, <2>1, SeqDef
<1> HIDE DEF vs
<1>6. Kept(vs, held, top)
  BY <1>3, <1>4, <1>5 DEF Kept
<1> QED BY <1>6 DEF vs

(* What the check of HERE lets pass (ficlVmDictionarySimpleCheck of vm.c). *)
LEMMA Checked ==
  ASSUME NEW a \in Nat, NEW n \in Nat, M!SimpleCheck(a, n)
  PROVE  a + n < Size * Cell + Cell /\ (a \div Cell) <= Size
<1> DEFINE q == a \div Cell
<1>1. Cell \in Nat \ {0} /\ Size \in Nat
  BY MemoryConstants
<1>2. q \in Nat /\ q * Cell <= a /\ a < q * Cell + Cell
  BY <1>1, Division
<1>3. (Size - q) * Cell >= n
  BY DEF M!SimpleCheck
<1> HIDE DEF q
<1>4. (Size - q) * Cell = Size * Cell - q * Cell /\ q * Cell \in Nat /\ Size * Cell \in Nat
  BY <1>1, <1>2
<1>5. a + n < Size * Cell + Cell
  BY <1>1, <1>2, <1>3, <1>4
<1>6. ASSUME q > Size PROVE FALSE
  <2>1. (Size + 1) * Cell <= q * Cell
    BY <1>1, <1>2, <1>6
  <2>2. (Size + 1) * Cell = Size * Cell + Cell
    BY <1>1
  <2> QED BY <1>1, <1>3, <1>4, <2>1, <2>2
<1>7. q <= Size
  BY <1>1, <1>2, <1>6
<1> QED BY <1>5, <1>7 DEF q

LEMMA MemoryInitially == M!Init => MemInv
<1> SUFFICES ASSUME M!Init PROVE MemInv
  OBVIOUS
<1>1. Kept(words, held, here)
  BY DEF M!Init, Kept
<1>2. M!OverrunBounded
  BY MemoryConstants, LargestCovers DEF M!Init, M!OverrunBounded
<1> QED BY <1>1, <1>2 DEF M!Init, MemInv, M!Threaded

LEMMA MemoryFacts ==
  ASSUME MemInv
  PROVE  /\ here \in Nat /\ runs \in Nat /\ mode \in {"interpret", "compile"}
         /\ open \in [started : Nat, inside : BOOLEAN] \cup {M!None}
         /\ Kept(words, held, here) /\ M!Threaded
         /\ here < Size * Cell + Cell + M!Largest
         /\ M!Largest \in Nat /\ Size * Cell \in Nat /\ Cell \in Nat \ {0} /\ Size \in Nat
         /\ \A i \in DOMAIN words : words[i].to \in Nat /\ words[i].to <= here
         /\ mode = "compile" => open # M!None
         /\ open # M!None => /\ Pending /\ smudge.at \in Nat /\ smudge.at <= here
                             /\ open \in [started : Nat, inside : BOOLEAN]
<1>1. \A i \in DOMAIN words : words[i].to \in Nat /\ words[i].to <= here
  BY DEF MemInv, Kept, Linked, HeaderSet
<1>2. open # M!None => Pending /\ smudge.at \in Nat /\ smudge.at <= here
  BY DEF MemInv, Pending, HeaderSet
<1>3. here < Size * Cell + Cell + M!Largest
  BY DEF MemInv, M!OverrunBounded
<1> QED BY <1>1, <1>2, <1>3, MemoryConstants, LargestCovers DEF MemInv

(* A word with a name is appended and linked at once.                      *)
LEMMA Adds ==
  ASSUME MemInv, M!Token, open = M!None, NEW n \in WordNames, NEW count \in 0..2,
         NEW kind \in {"create", "variable", "constant", "2constant"},
         NEW h, h = M!Header(n, count, kind),
         count >= 1 \/ M!HeaderFills(h), kind = "2constant" => count = 2,
         words' = M!Unsmudge(h), here' = h.to, UNCHANGED <<mode, smudge, held, open, runs>>
  PROVE  MemInv'
<1>1. here \in Nat /\ Kept(words, held, here) /\ runs \in Nat /\ mode \in {"interpret", "compile"}
      /\ (mode = "compile" => open # M!None)
  BY MemoryFacts
<1>2. /\ h \in HeaderSet /\ h.kind = kind
      /\ M!Align(h.head) = h.head /\ here <= h.at /\ h.at <= h.head
      /\ h.body = h.head + HeaderSize /\ h.to = h.body + count * Cell
      /\ h.body <= here + NameLength + Cell + HeaderSize
      /\ h.length > 0 /\ Known(h)
  <2>1. n # <<>>
    BY MemoryConstants
  <2>2. LaidOut(h, n, count, kind)
    BY <1>1, HeaderLaid
  <2> QED BY <2>1, <2>2 DEF LaidOut
<1>3. /\ h.at \in Nat /\ h.to \in Nat /\ h.head \in Nat /\ h.body \in Nat
      /\ count * Cell \in Nat /\ count * Cell <= 2 * Cell /\ (count >= 1 => count * Cell >= Cell)
  BY <1>2, MemoryConstants DEF HeaderSet
<1>4. Linked(h)
  <2> DEFINE size == count * Cell
  <2>0. /\ size \in Nat /\ h.to = h.body + size /\ (count >= 1 => size >= Cell)
        /\ h.at \in Nat /\ h.head \in Nat /\ h.at <= h.head
        /\ h.body = h.head + HeaderSize /\ HeaderSize \in Nat \ {0} /\ Cell \in Nat
    BY <1>2, <1>3, MemoryConstants
  <2> HIDE DEF size
  <2>1. h.at < h.to
    BY <2>0
  <2>2. h.to >= h.body + Cell \/ M!HeaderFills(h)
    BY <2>0
  <2>3. kind = "2constant" => h.to = h.body + 2 * Cell
    BY <1>2
  <2> QED BY <1>2, <2>1, <2>2, <2>3 DEF Linked
<1>5. words' = Append(words, h)
  BY <1>2 DEF M!Unsmudge
<1>6. Kept(words', held', here')
  BY <1>1, <1>2, <1>4, <1>5, KeptAppend
<1>7. M!SimpleCheck(here, 0)
  BY DEF M!Token
<1>8. here + 0 < Size * Cell + Cell
  BY <1>1, <1>7, Checked
<1>9. here' < Size * Cell + Cell + M!Largest
  BY <1>1, <1>2, <1>3, <1>8, LargestCovers, MemoryConstants
<1>10. here' \in Nat
  BY <1>3
<1> QED BY <1>1, <1>6, <1>9, <1>10 DEF MemInv, M!Threaded, M!OverrunBounded

(* HERE moves in data space. *)
LEMMA Moves ==
  ASSUME MemInv, NEW to \in Nat, M!Data(to),
         to < here => open = M!None /\ \A i \in DOMAIN words : words[i].to <= to,
         to < Size * Cell + Cell + M!Largest
  PROVE  MemInv'
<1>1. /\ here \in Nat /\ runs \in Nat /\ mode \in {"interpret", "compile"}
      /\ open \in [started : Nat, inside : BOOLEAN] \cup {M!None}
      /\ Kept(words, held, here) /\ M!Threaded
      /\ \A i \in DOMAIN words : words[i].to \in Nat /\ words[i].to <= here
      /\ mode = "compile" => open # M!None
      /\ open # M!None => /\ Pending /\ smudge.at \in Nat /\ smudge.at <= here
                          /\ open \in [started : Nat, inside : BOOLEAN]
  BY MemoryFacts
<1>2. /\ here' = to /\ UNCHANGED <<mode, smudge, words, runs>>
      /\ held' = IF to > here THEN M!Hold(to) ELSE M!Below(to)
      /\ open' = IF open = M!None THEN M!None ELSE [open EXCEPT !.inside = TRUE]
  BY DEF M!Data
<1>3. Kept(words', held', here')
  <2>1. CASE to > here
    BY <1>1, <1>2, <2>1, KeptHold
  <2>2. CASE ~(to > here)
    <3>1. \A i \in DOMAIN words : words[i].to <= to
      BY <1>1, <2>2
    <3> QED BY <1>1, <1>2, <2>2, <3>1, KeptBelow
  <2> QED BY <2>1, <2>2
<1>4. CASE open = M!None
  BY <1>1, <1>2, <1>3, <1>4 DEF MemInv, M!Threaded, M!OverrunBounded
<1>5. CASE open # M!None
  <2>1. open' = [started |-> open.started, inside |-> TRUE] /\ open' \in [started : Nat, inside : BOOLEAN]
        /\ open'.started = open.started /\ open'.inside
    BY <1>1, <1>2, <1>5
  <2>2. smudge'.at <= here' /\ smudge'.body <= here'
    BY <1>1, <1>2, <1>5 DEF Pending, HeaderSet
  <2>3. Pending'
    BY <1>1, <1>2, <1>5, <2>1, <2>2 DEF Pending
  <2>4. here' \in Nat /\ runs' \in Nat /\ mode' \in {"interpret", "compile"} /\ open' # M!None
    BY <1>1, <1>2, <2>1 DEF M!None
  <2>5. M!Threaded' /\ M!OverrunBounded'
    BY <1>2, <2>1 DEF M!Threaded, M!OverrunBounded
  <2> QED BY <1>3, <2>1, <2>3, <2>4, <2>5 DEF MemInv
<1> QED BY <1>4, <1>5

(* Code is appended to the definition. *)
LEMMA Compiles ==
  ASSUME MemInv, mode = "compile", NEW to \in Nat, NEW next \in Nat, M!Code(to, next),
         here <= to, runs = here => next = to,
         to < Size * Cell + Cell + M!Largest
  PROVE  MemInv'
<1>1. /\ here \in Nat /\ runs \in Nat
      /\ open \in [started : Nat, inside : BOOLEAN]
      /\ Kept(words, held, here) /\ M!Threaded /\ open # M!None
      /\ Pending /\ smudge.at \in Nat /\ smudge.at <= here
  BY MemoryFacts
<1>2. here' = to /\ runs' = next /\ UNCHANGED <<mode, smudge, words, held, open>>
  BY DEF M!Code
<1>3. Kept(words', held', here')
  BY <1>1, <1>2, KeptMore
<1>4. smudge'.at <= here' /\ smudge'.body <= here'
  BY <1>1, <1>2 DEF Pending, HeaderSet
<1>5. Pending'
  BY <1>1, <1>2, <1>4 DEF Pending
<1> QED BY <1>1, <1>2, <1>3, <1>5 DEF MemInv, M!Threaded, M!OverrunBounded

(* An error gives back the definition (ficlDictionaryAbortDefinition).     *)
LEMMA Throws == ASSUME MemInv, M!Throw PROVE MemInv'
<1>1. /\ here \in Nat /\ Kept(words, held, here)
      /\ \A i \in DOMAIN words : words[i].to \in Nat /\ words[i].to <= here
      /\ mode = "compile" => open # M!None
      /\ open # M!None => /\ Pending /\ smudge.at \in Nat /\ smudge.at <= here
      /\ here < Size * Cell + Cell + M!Largest
      /\ M!Largest \in Nat /\ Size * Cell \in Nat /\ Cell \in Nat \ {0}
  BY MemoryFacts
<1>2. /\ here' = IF mode = "compile" THEN smudge.at ELSE here
      /\ held' = M!Below(here') /\ mode' = "interpret" /\ open' = M!None /\ runs' = 0
      /\ UNCHANGED words
  BY DEF M!Throw, M!AbortDefinition
<1>3. /\ here' \in Nat /\ here' <= here
      /\ \A i \in DOMAIN words : words[i].to <= here'
  BY <1>1, <1>2 DEF Pending
<1>4. Kept(words', held', here')
  BY <1>1, <1>2, <1>3, KeptBelow
<1>5. here' < Size * Cell + Cell + M!Largest
  BY <1>1, <1>3
<1> QED BY <1>2, <1>3, <1>4, <1>5 DEF MemInv, M!Threaded, M!OverrunBounded

(* A value is set again in its word (ficlDictionarySetConstantInstruction).*)
LEMMA SetsAgain ==
  ASSUME MemInv, NEW i, NEW kind \in {"constant", "2constant"},
         words' = [words EXCEPT ![i].kind = kind], open = M!None,
         kind = "2constant" => words[i].kind = "2constant",
         UNCHANGED <<here, mode, smudge, held, open, runs>>
  PROVE  MemInv'
<1>1. Kept(words, held, here)
  BY DEF MemInv
<1>2. Kept(words', held, here)
  BY <1>1, KeptKind
<1> QED BY <1>2 DEF MemInv, M!Threaded, M!OverrunBounded

LEMMA Defines ==
  ASSUME MemInv, NEW n \in WordNames,
         M!Create(n) \/ M!TwoVariable(n) \/ M!Variable(n) \/ M!SetConstant(n) \/ M!Set2Constant(n)
  PROVE  MemInv'
<1>1. ASSUME NEW kind \in {"create", "variable", "constant", "2constant"}, NEW count \in 0..2,
             count >= 1 \/ M!HeaderFills(M!Header(n, count, kind)),
             kind = "2constant" => count = 2, M!Token, open = M!None, M!AppendWord(n, count, kind),
             UNCHANGED <<mode, smudge, held, open, runs>>
      PROVE  MemInv'
  BY <1>1, Adds DEF M!AppendWord
<1>2. ASSUME NEW count \in {1, 2}, M!Allotting(n, count) PROVE MemInv'
  <2>0. Cell \in Nat \ {0} /\ Size \in Nat
    BY MemoryConstants
  <2>1. PICK k \in {0, count} : /\ M!AppendWord(n, k, "create")
                                /\ k >= 1 \/ M!HeaderFills(M!Header(n, k, "create"))
    <3>1. CASE M!SimpleCheck(M!Body(n), count)
      BY <1>2, <3>1 DEF M!Allotting, M!AppendWord
    <3>2. CASE ~M!SimpleCheck(M!Body(n), count)
      <4>1. M!AppendWord(n, 0, "create")
        BY <1>2, <3>2 DEF M!Allotting, M!AppendWord
      <4>2. M!Header(n, 0, "create").body = M!Body(n)
        BY DEF M!Header
      <4>3. ~M!SimpleCheck(M!Body(n), 2)
        <5> DEFINE free == (Size - M!Body(n) \div Cell) * Cell
        <5>1. ~(free >= count)
          BY <1>2, <3>2 DEF M!SimpleCheck
        <5>2. M!Body(n) \in Nat
          <6>1. here \in Nat
            BY MemoryFacts
          <6>2. LaidOut(M!Header(n, 0, "create"), n, 0, "create")
            BY <6>1, HeaderLaid
          <6>3. M!Header(n, 0, "create") \in HeaderSet
            BY <6>2 DEF LaidOut
          <6>4. M!Header(n, 0, "create").body \in Nat
            BY <6>3 DEF HeaderSet
          <6> QED BY <6>4, <4>2
        <5>3. M!Body(n) \div Cell \in Nat
          BY <2>0, <5>2, Division
        <5>4. free \in Int
          BY <2>0, <5>3
        <5>5. ~(free >= 2)
          BY <1>2, <5>1, <5>4
        <5> QED
          BY <5>5 DEF M!SimpleCheck
      <4> QED BY <4>1, <4>2, <4>3 DEF M!HeaderFills
    <3> QED BY <3>1, <3>2
  <2>2. k \in 0..2 /\ M!Token /\ open = M!None /\ UNCHANGED <<mode, smudge, held, open, runs>>
    BY <1>2 DEF M!Allotting, M!Defining
  <2> QED BY <1>1, <2>1, <2>2
<1>3. CASE M!Create(n) \/ M!TwoVariable(n)
  BY <1>2, <1>3 DEF M!Create, M!TwoVariable
<1>4. CASE M!Variable(n)
  <2>1. M!Token /\ open = M!None /\ M!AppendWord(n, 1, "variable")
        /\ UNCHANGED <<mode, smudge, held, open, runs>>
    BY <1>4 DEF M!Variable, M!Defining
  <2> QED BY <1>1, <2>1
<1>5. CASE M!SetConstant(n)
  <2>1. open = M!None /\ UNCHANGED <<mode, smudge, held, open, runs>>
    BY <1>5 DEF M!SetConstant
  <2>2. CASE M!Token /\ M!AppendWord(n, 1, "constant")
    BY <1>1, <2>1, <2>2
  <2>3. ASSUME NEW i,
               words' = [words EXCEPT ![i].kind = "constant"], UNCHANGED here
        PROVE  MemInv'
    BY <2>1, <2>3, SetsAgain
  <2> QED BY <1>5, <2>2, <2>3 DEF M!SetConstant
<1>6. CASE M!Set2Constant(n)
  <2>1. open = M!None /\ UNCHANGED <<mode, smudge, held, open, runs>>
    BY <1>6 DEF M!Set2Constant
  <2>2. CASE M!Token /\ M!AppendWord(n, 2, "2constant")
    BY <1>1, <2>1, <2>2
  <2>3. ASSUME NEW i, words[i].kind = "2constant",
               words' = [words EXCEPT ![i].kind = "2constant"], UNCHANGED here
        PROVE  MemInv'
    BY <2>1, <2>3, SetsAgain
  <2> QED BY <1>6, <2>2, <2>3 DEF M!Set2Constant, M!Reusable
<1> QED BY <1>3, <1>4, <1>5, <1>6

(* : and ; (ficlPrimitiveColon, ficlPrimitiveSemicolonCoIm).               *)
LEMMA BeginsColon ==
  ASSUME MemInv, NEW n \in WordNames \cup {<<>>}, M!Colon(n) PROVE MemInv'
<1> DEFINE h == M!Header(n, 0, "colon")
<1>1. /\ here \in Nat /\ Kept(words, held, here)
      /\ \A i \in DOMAIN words : words[i].to \in Nat /\ words[i].to <= here
      /\ Cell \in Nat \ {0} /\ HeaderSize \in Nat /\ NameLength \in Nat
      /\ Size * Cell \in Nat /\ Size \in Nat
  BY MemoryFacts, MemoryConstants
<1>2. LaidOut(h, n, 0, "colon")
  BY <1>1, HeaderLaid
<1>3. /\ M!Token /\ smudge' = h /\ here' = h.body /\ runs' = h.body /\ mode' = "compile"
      /\ open' = [started |-> here, inside |-> FALSE] /\ UNCHANGED <<words, held>>
  BY DEF M!Colon, M!Defining
<1> HIDE DEF h
<1>4. /\ h.at \in Nat /\ h.head \in Nat /\ h.body \in Nat /\ here <= h.at /\ h.at <= h.body
      /\ h.body <= here + NameLength + Cell + HeaderSize
  BY <1>1, <1>2 DEF LaidOut, HeaderSet
<1>5. here + 0 < Size * Cell + Cell /\ (here \div Cell) <= Size
  BY <1>1, <1>3, Checked DEF M!Token
<1>6. Kept(words', held', here')
  BY <1>1, <1>3, <1>4, KeptMore
<1>7. Pending'
  <2>1. /\ h \in HeaderSet /\ h.kind = "colon" /\ (h.length > 0 => Known(h))
        /\ M!Align(h.head) = h.head
        /\ IF h.name = <<>> THEN h.at = M!Align(here) ELSE h.at = here
    BY <1>2, MemoryConstants DEF LaidOut
  <2>2. h.at <= here' /\ h.body <= here' /\ \A i \in DOMAIN words : words[i].to <= h.at
    BY <1>1, <1>3, <1>4
  <2>3. open'.started = here
    BY <1>3
  <2> QED BY <1>3, <1>5, <2>1, <2>2, <2>3 DEF Pending
<1>8. here' < Size * Cell + Cell + M!Largest
  BY <1>1, <1>3, <1>4, <1>5, LargestCovers
<1>9. open' \in [started : Nat, inside : BOOLEAN]
  BY <1>1, <1>3
<1>10. open' # M!None /\ here' \in Nat /\ runs' \in Nat /\ mode' \in {"interpret", "compile"}
  BY <1>1, <1>3, <1>4 DEF M!None
<1>11. M!Threaded' /\ M!OverrunBounded'
  BY <1>3, <1>8 DEF M!Threaded, M!OverrunBounded
<1> QED BY <1>6, <1>7, <1>9, <1>10, <1>11 DEF MemInv

LEMMA EndsColon == ASSUME MemInv, M!Semicolon PROVE MemInv'
<1> DEFINE h == [smudge EXCEPT !.to = here']
<1>1. /\ here \in Nat /\ Kept(words, held, here) /\ open # M!None
      /\ Pending /\ smudge.at \in Nat /\ smudge.at <= here
      /\ \A i \in DOMAIN words : words[i].to \in Nat /\ words[i].to <= smudge.at
      /\ Cell \in Nat \ {0} /\ Size * Cell \in Nat
  BY MemoryFacts DEF M!Semicolon, Pending
<1>2. /\ M!Token /\ here' = here + Cell /\ words' = M!Unsmudge(h)
      /\ held' = M!Below(smudge.at)
      /\ mode' = "interpret" /\ open' = M!None /\ runs' = 0
  BY DEF M!Semicolon
<1>3. /\ h \in HeaderSet /\ h.at = smudge.at /\ h.to = here + Cell /\ h.head = smudge.head
      /\ h.kind = "colon" /\ h.name = smudge.name /\ h.length = smudge.length
  BY <1>1, <1>2 DEF Pending, HeaderSet
<1> HIDE DEF h
<1>4. Kept(words, held', smudge.at)
  BY <1>1, <1>2, KeptBelow
<1>5. Kept(words', held', here')
  <2>1. CASE h.length > 0
    <3>1. h.to >= h.body + Cell
      <4>1. smudge.body \in Nat /\ smudge.body <= here /\ h.body = smudge.body
        BY <1>1 DEF Pending, HeaderSet, h
      <4> QED BY <1>1, <1>3, <4>1
    <3>0. Linked(h)
      BY <1>1, <1>3, <2>1, <3>1 DEF Linked, Pending, Known
    <3>2. smudge.at <= h.at
      BY <1>1, <1>3
    <3>3. Kept(Append(words, h), held', h.to)
      BY <1>1, <1>4, <3>0, <3>2, KeptAppend
    <3> QED BY <1>2, <1>3, <2>1, <3>3 DEF M!Unsmudge
  <2>2. CASE ~(h.length > 0)
    BY <1>1, <1>2, <1>4, <2>2, KeptMore DEF M!Unsmudge
  <2> QED BY <2>1, <2>2
<1>6. here + 0 < Size * Cell + Cell
  BY <1>1, <1>2, Checked DEF M!Token
<1>7. here' \in Nat /\ here' < Size * Cell + Cell + M!Largest
  BY <1>1, <1>2, <1>6, LargestCovers, MemoryConstants
<1>8. /\ runs' \in Nat /\ mode' \in {"interpret", "compile"} /\ mode' # "compile"
      /\ open' \in [started : Nat, inside : BOOLEAN] \cup {M!None}
  BY <1>2
<1>9. M!Threaded' /\ M!OverrunBounded'
  BY <1>2, <1>7 DEF M!Threaded, M!OverrunBounded
<1>10. here' \in Nat /\ (open' # M!None => Pending')
  BY <1>2, <1>7
<1> QED BY <1>5, <1>8, <1>9, <1>10 DEF MemInv

LEMMA Brackets ==
  ASSUME MemInv, M!LeftBracket \/ M!RightBracket PROVE MemInv'
BY DEF M!LeftBracket, M!RightBracket, MemInv, Pending, M!Threaded, M!OverrunBounded

(* Data space and texts that are interpreted (ficlPrimitiveAllot and the   *)
(* words that append to data space).                                       *)
LEMMA DataMoves ==
  ASSUME MemInv, M!Token
  PROVE  /\ \A n \in Allots : M!Allot(n) => MemInv'
         /\ (M!Comma \/ M!CComma \/ M!AlignHere) => MemInv'
<1>1. /\ here \in Nat /\ Kept(words, held, here)
      /\ \A i \in DOMAIN words : words[i].to \in Nat /\ words[i].to <= here
      /\ Cell \in Nat \ {0} /\ Size * Cell \in Nat /\ M!Largest \in Nat
  BY MemoryFacts
<1>2. here + 0 < Size * Cell + Cell
  BY <1>1, Checked DEF M!Token
<1>3. M!Largest >= 3 * Cell
  BY LargestCovers, MemoryConstants
<1>4. ASSUME NEW to \in Nat, here <= to, to <= here + Cell, M!Data(to) PROVE MemInv'
  <2>1. to < Size * Cell + Cell + M!Largest
    BY <1>1, <1>2, <1>3, <1>4
  <2>2. ~(to < here)
    BY <1>1, <1>4
  <2> QED BY <1>4, <2>1, <2>2, Moves
<1>5. CASE M!Comma \/ M!CComma
  <2>1. PICK k \in {1, Cell} : M!Data(here + k)
    BY <1>5 DEF M!Comma, M!CComma
  <2>2. here + k \in Nat /\ here <= here + k /\ here + k <= here + Cell
    BY <1>1
  <2> QED BY <1>4, <2>1, <2>2
<1>6. CASE M!AlignHere
  <2>1. M!Data(M!Align(here))
    BY <1>6 DEF M!AlignHere
  <2>2. M!Align(here) \in Nat /\ here <= M!Align(here) /\ M!Align(here) < here + Cell
    BY <1>1, Aligned
  <2> QED BY <1>1, <1>4, <2>1, <2>2
<1>7. ASSUME NEW n \in Allots, M!Allot(n) PROVE MemInv'
  <2>1. n \in Int
    BY MemoryAssumption DEF M!MemoryAssumption
  <2>2. CASE M!Throw
    BY <2>2, Throws
  <2>3. CASE n >= 0 /\ M!SimpleCheck(here, n) /\ M!Data(here + n)
    <3>1. here + n < Size * Cell + Cell
      BY <1>1, <2>1, <2>3, Checked
    <3>2. here + n \in Nat /\ ~(here + n < here) /\ here + n < Size * Cell + Cell + M!Largest
      BY <1>1, <2>1, <2>3, <3>1
    <3> QED BY <2>3, <3>2, Moves
  <2>4. CASE n < 0 /\ M!Data(here + n)
    <3>1. open = M!None /\ here + n >= M!Floor
      BY <1>7, <2>4 DEF M!Allot
    <3> DEFINE S == {0} \cup {words[i].to : i \in DOMAIN words}
    <3>2. S \in SUBSET Nat /\ S # {} /\ \A x \in S : x <= here
      BY <1>1
    <3>3. \A y \in S : M!Max(S) >= y
      BY <1>1, <3>2, Greatest
    <3>4. M!Max(S) \in S
      BY <1>1, <3>2, Greatest
    <3>5. M!Floor = M!Max(S)
      BY DEF M!Floor
    <3>6. M!Floor \in Nat /\ \A i \in DOMAIN words : M!Floor >= words[i].to
      BY <3>2, <3>3, <3>4, <3>5
    <3> HIDE DEF S
    <3>7. here + n \in Nat /\ \A i \in DOMAIN words : words[i].to <= here + n
      BY <1>1, <2>1, <3>1, <3>6
    <3>8. here + n < Size * Cell + Cell + M!Largest
      BY <1>1, <1>2, <2>1, <2>4
    <3> QED BY <2>4, <3>1, <3>7, <3>8, Moves
  <2> QED BY <1>7, <2>1, <2>2, <2>3, <2>4 DEF M!Allot
<1> QED BY <1>5, <1>6, <1>7

LEMMA Quotes ==
  ASSUME MemInv, NEW length \in Lengths,
         M!StringQuote(length) \/ M!CountedStringQuote(length)
  PROVE  MemInv'
<1>1. /\ here \in Nat /\ Cell \in Nat \ {0} /\ Size * Cell \in Nat /\ M!Largest \in Nat
  BY MemoryFacts
<1>2. length \in Nat /\ length # NameSpan /\ NameSpan \in Nat \ {0}
  BY MemoryConstants
<1>3. ASSUME NEW size \in Nat, M!SimpleCheck(here, size), M!Data(here + size) PROVE MemInv'
  <2>1. here + size < Size * Cell + Cell
    BY <1>1, <1>3, Checked
  <2>2. here + size \in Nat /\ ~(here + size < here)
        /\ here + size < Size * Cell + Cell + M!Largest
    BY <1>1, <2>1
  <2> QED BY <1>3, <2>2, Moves
<1>4. CASE M!Throw
  BY <1>4, Throws
<1>5. CASE M!SimpleCheck(here, M!PairedSize(length)) /\ M!StringQuote(length)
  <2> DEFINE size == Cell + length
  <2>1. size \in Nat /\ M!PairedSize(length) = size /\ here + size > here
        /\ here + Cell + length = here + size
    BY <1>1, <1>2 DEF M!PairedSize
  <2>2. M!Data(here + size)
    BY <1>5, <2>1 DEF M!StringQuote, M!Data
  <2> HIDE DEF size
  <2> QED BY <1>3, <1>5, <2>1, <2>2
<1>6. CASE M!SimpleCheck(here, M!CountedSize(length)) /\ M!Data(here + M!CountedSize(length))
  <2>1. M!CountedSize(length) \in Nat
    BY <1>2 DEF M!CountedSize
  <2> QED BY <1>3, <1>6, <2>1
<1> QED BY <1>4, <1>5, <1>6 DEF M!StringQuote, M!CountedStringQuote

(* Texts in code, which the inner interpreter skips by their count.        *)
LEMMA Literals ==
  ASSUME MemInv, NEW length \in Lengths,
         M!CompileString(length) \/ M!DotQuote(length) \/ M!CompileCounted(length)
  PROVE  MemInv'
<1>1. /\ here \in Nat /\ runs \in Nat
      /\ Cell \in Nat \ {0} /\ Size * Cell \in Nat /\ M!Largest \in Nat
  BY MemoryFacts
<1>2. length \in Nat /\ length # NameSpan /\ NameSpan \in Nat \ {0}
      /\ M!Largest >= 4 * Cell + length + 1
  BY MemoryConstants, LargestCovers
<1>3. M!Token /\ mode = "compile"
  BY DEF M!CompileString, M!DotQuote, M!CompileCounted, M!Compiling
<1>4. here + 0 < Size * Cell + Cell
  BY <1>1, <1>3, Checked DEF M!Token
<1>5. CASE M!CompileString(length) \/ M!DotQuote(length)
  <2> DEFINE to   == M!Align(here + Cell + Cell + length + 1)
             next == M!Align(runs + Cell + Cell + length + 1)
  <2>1. /\ here + Cell + Cell + length + 1 \in Nat /\ runs + Cell + Cell + length + 1 \in Nat
    BY <1>1, <1>2
  <2>2. /\ to \in Nat /\ next \in Nat /\ here + Cell + Cell + length + 1 <= to
        /\ to < here + Cell + Cell + length + 1 + Cell
    BY <2>1, Aligned
  <2>3. runs = here => next = to
    OBVIOUS
  <2>4. PICK k \in {0, Cell} : M!Code(to + k, next + k)
    <3>1. CASE M!CompileString(length)
      <4>1. M!Code(to, next)
        BY <3>1 DEF M!CompileString, M!StringEnd, M!StringLiteralParen
      <4>2. to + 0 = to /\ next + 0 = next
        BY <2>2
      <4> QED BY <4>1, <4>2
    <3>2. CASE M!DotQuote(length)
      BY <3>2 DEF M!DotQuote, M!StringEnd, M!StringLiteralParen
    <3> QED BY <1>5, <3>1, <3>2
  <2> HIDE DEF to, next
  <2>5. /\ to + k \in Nat /\ next + k \in Nat /\ here <= to + k
        /\ to + k < Size * Cell + Cell + M!Largest
        /\ runs = here => next + k = to + k
    BY <1>1, <1>2, <1>4, <2>2, <2>3
  <2> QED BY <1>3, <2>4, <2>5, Compiles
<1>6. CASE M!CompileCounted(length)
  <2>1. CASE M!Throw
    BY <2>1, Throws
  <2>2. CASE length <= NameSpan /\ ~M!Throw
    <3> DEFINE to   == M!Align(here + Cell + 1 + length + 1)
               next == M!Align(runs + Cell + 2 + length)
    <3>1. length % NameSpan = length
      BY <1>2, <2>2
    <3>2. M!Code(to, next)
      BY <1>6, <2>2, <3>1 DEF M!CompileCounted, M!CStringLiteralParen
    <3>3. /\ here + Cell + 1 + length + 1 \in Nat /\ runs + Cell + 2 + length \in Nat
          /\ here + Cell + 1 + length + 1 = here + Cell + 2 + length
      BY <1>1, <1>2
    <3>4. /\ to \in Nat /\ next \in Nat /\ here + Cell + 1 + length + 1 <= to
          /\ to < here + Cell + 1 + length + 1 + Cell
      BY <3>3, Aligned
    <3>5. runs = here => next = to
      BY <3>3
    <3> HIDE DEF to, next
    <3>6. here <= to /\ to < Size * Cell + Cell + M!Largest
      BY <1>1, <1>2, <1>4, <3>4
    <3> QED BY <1>3, <3>2, <3>4, <3>5, <3>6, Compiles
  <2> QED BY <1>6, <2>1, <2>2 DEF M!CompileCounted
<1> QED BY <1>5, <1>6

LEMMA CompilesCells ==
  ASSUME MemInv, NEW count \in {1, 2}, M!Compile(count) PROVE MemInv'
<1>1. /\ here \in Nat /\ runs \in Nat
      /\ Cell \in Nat \ {0} /\ Size * Cell \in Nat /\ M!Largest \in Nat
  BY MemoryFacts
<1>2. M!Token /\ mode = "compile" /\ M!Code(here + count * Cell, runs + count * Cell)
  BY DEF M!Compile, M!Compiling
<1>3. here + 0 < Size * Cell + Cell /\ M!Largest >= 3 * Cell
  BY <1>1, <1>2, Checked, LargestCovers, MemoryConstants DEF M!Token
<1>4. /\ here + count * Cell \in Nat /\ runs + count * Cell \in Nat
      /\ here <= here + count * Cell
      /\ here + count * Cell < Size * Cell + Cell + M!Largest
  <2>1. count * Cell \in Nat /\ count * Cell <= 2 * Cell
    BY <1>1
  <2> QED BY <1>1, <1>3, <2>1
<1> QED BY <1>2, <1>4, Compiles

LEMMA MemoryInductive == MemInv /\ [M!Next]_memoryVars => MemInv'
<1> SUFFICES ASSUME MemInv, [M!Next]_memoryVars PROVE MemInv'
  OBVIOUS
<1>1. CASE M!TokenThrows
  BY <1>1, Throws DEF M!TokenThrows
<1>2. ASSUME NEW n \in WordNames,
             M!Create(n) \/ M!TwoVariable(n) \/ M!Variable(n) \/ M!SetConstant(n) \/ M!Set2Constant(n)
      PROVE  MemInv'
  BY <1>2, Defines
<1>3. ASSUME NEW n \in WordNames \cup {<<>>}, M!Colon(n) PROVE MemInv'
  BY <1>3, BeginsColon
<1>4. CASE M!Semicolon
  BY <1>4, EndsColon
<1>5. CASE M!LeftBracket \/ M!RightBracket
  BY <1>5, Brackets
<1>6. ASSUME NEW n \in Allots, M!Allot(n) PROVE MemInv'
  BY <1>6, DataMoves DEF M!Allot
<1>7. CASE M!Comma \/ M!CComma \/ M!AlignHere
  BY <1>7, DataMoves DEF M!Comma, M!CComma, M!AlignHere
<1>8. ASSUME NEW length \in Lengths,
             M!StringQuote(length) \/ M!CountedStringQuote(length)
      PROVE  MemInv'
  BY <1>8, Quotes
<1>9. ASSUME NEW length \in Lengths,
             M!CompileString(length) \/ M!DotQuote(length) \/ M!CompileCounted(length)
      PROVE  MemInv'
  BY <1>9, Literals
<1>10. ASSUME NEW count \in {1, 2}, M!Compile(count) PROVE MemInv'
  BY <1>10, CompilesCells
<1>11. CASE UNCHANGED memoryVars
  BY <1>11 DEF memoryVars, MemInv, Pending, M!Threaded, M!OverrunBounded
<1> QED
  BY <1>1, <1>2, <1>3, <1>4, <1>5, <1>6, <1>7, <1>8, <1>9, <1>10, <1>11 DEF M!Next

LEMMA MemInvariance == MCSpec => []MemInv
<1>1. MCInit => MemInv
  BY MemoryInitially DEF MCInit
<1>2. MemInv /\ [MCNext]_mcVars => MemInv'
  <2>1. [MCNext]_mcVars => [M!Next]_memoryVars
    BY DEF MCNext, mcVars
  <2> QED BY <2>1, MemoryInductive
<1> QED BY <1>1, <1>2, PTL DEF MCSpec

(* What ficlHashLookup finds under a name are the words that were given it.*)
LEMMA FoundByName == MemInv => M!NamesFound
<1> SUFFICES ASSUME MemInv, NEW n \in WordNames, Len(n) <= NameLength, NEW i \in DOMAIN words
             PROVE  M!Named(words[i], n) <=> words[i].length = Len(n) /\ words[i].name = n
  BY DEF M!NamesFound, M!Hits
<1>1. n \in Seq(Nat) /\ M!Stored(n) = n
  BY MemoryConstants, StoredName
<1>2. PICK m \in WordNames : words[i].name = M!Stored(m) /\ words[i].length = Len(m)
  BY DEF MemInv, Kept, Linked, Known
<1>3. m \in Seq(Nat)
  BY MemoryConstants
<1>4. Len(m) = Len(n) => words[i].name = m
  BY <1>2, <1>3, StoredName
<1>5. M!Smaller(Len(n), NameLength) = Len(n)
  BY <1>1, MemoryConstants DEF M!Smaller
<1>6. Len(m) = Len(n) => SubSeq(m, 1, Len(n)) = m
  BY <1>3
<1> QED BY <1>1, <1>2, <1>4, <1>5, <1>6 DEF M!Named

LEMMA LiesApart == MemInv => M!Apart
<1> SUFFICES ASSUME MemInv PROVE M!Apart
  OBVIOUS
<1>1. /\ words \in Seq(HeaderSet)
      /\ \A i \in DOMAIN words : Linked(words[i]) /\ words[i].to <= here
      /\ \A i, j \in DOMAIN words : i < j => words[i].to <= words[j].at
      /\ \A d \in held : d.to <= here
      /\ \A d, e \in held : d # e => d.to <= e.from \/ e.to <= d.from
      /\ \A d \in held, i \in DOMAIN words : d.to <= words[i].at \/ words[i].to <= d.from
  BY DEF MemInv, Kept
<1>2. DOMAIN words = 1..Len(words) /\ Len(words) \in Nat
  BY <1>1
<1>3. ASSUME NEW i \in DOMAIN words, NEW j \in DOMAIN words, i # j
      PROVE  words[i].to <= words[j].at \/ words[j].to <= words[i].at
  BY <1>1, <1>2, <1>3
<1>4. \A a, b \in M!Headers \cup held : a # b => a.to <= b.from \/ b.to <= a.from
  <2> SUFFICES ASSUME NEW a \in M!Headers \cup held, NEW b \in M!Headers \cup held, a # b
               PROVE  a.to <= b.from \/ b.to <= a.from
    OBVIOUS
  <2>1. CASE a \in held /\ b \in held
    BY <1>1, <2>1
  <2>2. ASSUME NEW i \in DOMAIN words, a = [from |-> words[i].at, to |-> words[i].to],
               b \in held
        PROVE  a.to <= b.from \/ b.to <= a.from
    BY <1>1, <2>2
  <2>3. ASSUME NEW i \in DOMAIN words, b = [from |-> words[i].at, to |-> words[i].to],
               a \in held
        PROVE  a.to <= b.from \/ b.to <= a.from
    BY <1>1, <2>3
  <2>4. ASSUME NEW i \in DOMAIN words, a = [from |-> words[i].at, to |-> words[i].to],
               NEW j \in DOMAIN words, b = [from |-> words[j].at, to |-> words[j].to]
        PROVE  a.to <= b.from \/ b.to <= a.from
    BY <1>3, <2>4
  <2> QED BY <2>1, <2>2, <2>3, <2>4 DEF M!Headers
<1>5. \A a \in M!Headers \cup held : a.to <= here
  BY <1>1 DEF M!Headers
<1> QED BY <1>1, <1>4, <1>5 DEF M!Apart, Linked

(* Whatever words a program defines and whatever it allots, with an error  *)
(* at any token: what the dictionary holds lies apart, code is gone over   *)
(* as it was compiled, HERE overruns its end by one token at most, a name  *)
(* finds its words, and values fit their bodies (dictionary.c, vm.c).      *)
THEOREM DictionaryIsSound == MCSpec => []DictionarySound
<1>1. MemInv => DictionarySound
  <2> SUFFICES ASSUME MemInv PROVE DictionarySound
    OBVIOUS
  <2>1. M!BodyHolds
    BY DEF MemInv, Kept, Linked, M!BodyHolds
  <2> QED BY <2>1, LiesApart, FoundByName DEF DictionarySound, MemInv
<1> QED BY <1>1, MemInvariance, PTL

LEMMA AbortGivesBack ==
  ASSUME MemInv, M!Throw, mode = "compile"
  PROVE  /\ here' - open.started \in IF smudge.name = <<>> THEN 0..(Cell - 1) ELSE {0}
         /\ M!CellsAvailable' >= 0 \/ (smudge.name = <<>> /\ open.started > Size * Cell)
<1>1. /\ Pending /\ open.started \in Nat /\ Cell \in Nat \ {0} /\ Size \in Nat
      /\ Size * Cell \in Nat
  BY MemoryFacts
<1>2. here' = smudge.at
  BY DEF M!Throw, M!AbortDefinition
<1>3. M!CellsAvailable' = Size - (here' \div Cell)
  BY DEF M!CellsAvailable, M!CellsUsed
<1>4. CASE smudge.name # <<>>
  <2>1. here' = open.started /\ (open.started \div Cell) <= Size
    BY <1>1, <1>2, <1>4 DEF Pending
  <2>2. (open.started \div Cell) \in Nat
    BY <1>1, Division
  <2> QED BY <1>1, <1>3, <1>4, <2>1, <2>2
<1>5. CASE smudge.name = <<>>
  <2> DEFINE a == M!Align(open.started)
  <2>1. /\ a \in Nat /\ open.started <= a /\ a < open.started + Cell
        /\ open.started <= Size * Cell => a <= Size * Cell
    BY <1>1, Aligned
  <2>2. here' = a
    BY <1>1, <1>2, <1>5 DEF Pending
  <2> HIDE DEF a
  <2>3. here' - open.started \in 0..(Cell - 1)
    BY <1>1, <2>1, <2>2
  <2>4. ASSUME open.started <= Size * Cell PROVE Size - (a \div Cell) >= 0
    <3> DEFINE q == a \div Cell
    <3>1. q \in Nat /\ q * Cell <= a
      BY <1>1, <2>1, Division
    <3> HIDE DEF q
    <3>2. ASSUME q > Size PROVE FALSE
      <4>1. (Size + 1) * Cell <= q * Cell
        BY <1>1, <3>1, <3>2
      <4>2. (Size + 1) * Cell = Size * Cell + Cell /\ q * Cell \in Nat
        BY <1>1, <3>1
      <4> QED BY <1>1, <2>1, <2>4, <3>1, <4>1, <4>2
    <3>3. Size - q >= 0
      BY <1>1, <3>1, <3>2
    <3> QED BY <3>3 DEF q
  <2> QED BY <1>1, <1>3, <1>5, <2>2, <2>3, <2>4
<1> QED BY <1>4, <1>5

(* A prefix puts BASE back behind the number (softcore/prefix.fr).         *)
LEMMA BasePutBack ==
  ASSUME [N!Next]_numberVars, base' # base
  PROVE  (\E b \in Bases : N!StoreBase(b)) \/ got' = N!Nothing
<1>1. N!Next
  BY DEF numberVars
<1>2. ASSUME NEW t, N!Interpret(t) PROVE got' = N!Nothing
  <2>1. PICK p \in N!Begun(t) :
          LET number == N!ParseNumber(SubSeq(t, Len(p.name) + 1, Len(t)), p.base)
          IN  got' = number /\ base' = IF number.accepted THEN base ELSE p.base
    BY <1>2 DEF N!Interpret, N!ReadNumber, N!TempBase
  <2> DEFINE number == N!ParseNumber(SubSeq(t, Len(p.name) + 1, Len(t)), p.base)
  <2>2. number = N!Nothing \/ number.accepted
    BY DEF N!ParseNumber
  <2> HIDE DEF number
  <2>3. got' = number /\ base' = IF number.accepted THEN base ELSE p.base
    BY <2>1 DEF number
  <2> QED BY <2>2, <2>3
<1>3. CASE (\E x \in N!Double : N!LessNumberSign(x)) \/ N!NumberSign \/ N!NumberSignS
           \/ N!NumberSignGreater \/ N!ToNumber \/ N!Forgotten
           \/ (\E u \in N!CellValues : N!Dot(u) \/ N!UDot(u))
  BY <1>3 DEF N!LessNumberSign, N!NumberSign, N!NumberSignS, N!NumberSignGreater, N!ToNumber,
              N!Forgotten, N!Dot, N!UDot, N!Show
<1> QED BY <1>1, <1>2, <1>3 DEF N!Next

(* After any error in any definition, its memory is given back and the     *)
(* next token passes the check of HERE; no number changes BASE unless it   *)
(* was refused (ficlVmExecuteString of vm.c, dictionary.c, prefix.c).      *)
THEOREM ErrorsAreRecovered == MCSpec => ErrorsRecover
<1>1. MemInv /\ [MCNext]_mcVars =>
        [M!Throw /\ mode = "compile" => here' - open.started \in
           IF smudge.name = <<>> THEN 0..(Cell - 1) ELSE {0}]_(M!vars)
  BY AbortGivesBack
<1>2. MemInv /\ [MCNext]_mcVars =>
        [M!Throw /\ mode = "compile" =>
           \/ M!CellsAvailable' >= 0
           \/ smudge.name = <<>> /\ open.started > Size * Cell]_(M!vars)
  BY AbortGivesBack
<1>3. [MCNext]_mcVars =>
        [base' # base => (\E b \in Bases : N!StoreBase(b)) \/ got' = N!Nothing]_(N!vars)
  <2>1. [MCNext]_mcVars => [N!Next]_numberVars
    BY DEF MCNext, mcVars
  <2> QED BY <2>1, BasePutBack
<1> QED
  BY <1>1, <1>2, <1>3, MemInvariance, PTL
  DEF MCSpec, ErrorsRecover, M!AbortRestores, M!FullRecovers, N!BaseKept

--------------------------------------------------------------------------------
(* Induction and recursion.                                                *)

(* Induction over the natural numbers, about a set.                        *)
LEMMA Induction ==
  ASSUME NEW Nums \in SUBSET Nat, 0 \in Nums, \A n \in Nums : n + 1 \in Nums
  PROVE  Nums = Nat
<1> SUFFICES ASSUME Nat \ Nums # {} PROVE FALSE
  OBVIOUS
<1>1. PICK m \in Nat \ Nums : \A n \in Nat \ Nums : m <= n
  BY Least
<1>2. m # 0 /\ m - 1 \in Nat
  BY <1>1
<1>3. m - 1 \in Nums
  BY <1>1, <1>2
<1>4. (m - 1) + 1 = m
  BY <1>1
<1> QED BY <1>1, <1>3, <1>4

LEMMA UpTo ==
  ASSUME NEW n \in Nat, NEW Nums, 0 \in Nums, \A i \in 1..n : i - 1 \in Nums => i \in Nums
  PROVE  \A i \in 0..n : i \in Nums
<1> DEFINE All == {i \in Nat : i <= n => i \in Nums}
<1>1. 0 \in All
  OBVIOUS
<1>2. ASSUME NEW i \in All PROVE i + 1 \in All
  <2>1. CASE i + 1 <= n
    <3>1. i + 1 \in 1..n /\ (i + 1) - 1 = i /\ i <= n
      BY <2>1
    <3> QED BY <3>1, <2>1
  <2> QED BY <2>1
<1> HIDE DEF All
<1>3. All \subseteq Nat
  BY DEF All
<1>4. All = Nat
  BY <1>1, <1>2, <1>3, Induction
<1> QED BY <1>4 DEF All

(* A function over the natural numbers that is given by its start value    *)
(* and by the steps to the next ones.                                      *)
Follows(f, start, step) ==
  f[0] = start /\ \A i \in Nat \ {0} : f[i] = step[i][f[i - 1]]

LEMMA Recursion ==
  ASSUME NEW S, NEW start \in S, NEW step \in [Nat -> [S -> S]]
  PROVE  \E f \in [Nat -> S] : Follows(f, start, step)
<1> DEFINE Upto(n, g) == g[0] = start /\ \A i \in 1..n : g[i] = step[i][g[i - 1]]
           Some == {n \in Nat : \E g \in [0..n -> S] : Upto(n, g)}
<1>1. 0 \in Some
  <2>1. [i \in 0..0 |-> start] \in [0..0 -> S] /\ Upto(0, [i \in 0..0 |-> start])
    OBVIOUS
  <2> QED BY <2>1
<1>2. ASSUME NEW n \in Some PROVE n + 1 \in Some
  <2>1. PICK g \in [0..n -> S] : Upto(n, g)
    OBVIOUS
  <2> DEFINE h == [i \in 0..n + 1 |-> IF i = n + 1 THEN step[n + 1][g[n]] ELSE g[i]]
  <2>2. step[n + 1][g[n]] \in S
    OBVIOUS
  <2>3. h \in [0..n + 1 -> S]
    <3>1. \A i \in 0..n + 1 : i # n + 1 => i \in 0..n
      OBVIOUS
    <3> QED BY <2>2, <3>1
  <2>4. h[0] = start
    BY <2>1
  <2>5. ASSUME NEW i \in 1..n + 1 PROVE h[i] = step[i][h[i - 1]]
    <3>1. i - 1 \in 0..n /\ i - 1 # n + 1 /\ h[i - 1] = g[i - 1]
      OBVIOUS
    <3>2. CASE i = n + 1
      BY <3>1, <3>2
    <3>3. CASE i # n + 1
      <4>1. i \in 1..n /\ i \in 0..n + 1 /\ h[i] = g[i]
        BY <3>3
      <4> QED BY <2>1, <3>1, <4>1
    <3> QED BY <3>2, <3>3
  <2> HIDE DEF h
  <2>6. Upto(n + 1, h)
    BY <2>4, <2>5
  <2>7. n + 1 \in Nat
    OBVIOUS
  <2> HIDE DEF Upto
  <2> QED BY <2>3, <2>6, <2>7
<1> HIDE DEF Some
<1>3. Some = Nat
  BY <1>1, <1>2, Induction DEF Some
<1>4. \A n \in Nat : \E g \in [0..n -> S] : Upto(n, g)
  BY <1>3 DEF Some
<1> DEFINE G(n) == CHOOSE g \in [0..n -> S] : Upto(n, g)
           f == [n \in Nat |-> G(n)[n]]
<1>5. ASSUME NEW n \in Nat PROVE G(n) \in [0..n -> S] /\ Upto(n, G(n))
  BY <1>4
<1> HIDE DEF G
<1>6. ASSUME NEW n \in Nat PROVE \A i \in 0..n : G(n)[i] = G(n + 1)[i]
  <2> DEFINE Same == {i \in 0..n : G(n)[i] = G(n + 1)[i]}
  <2>1. 0 \in Same
    BY <1>5
  <2>2. ASSUME NEW i \in 1..n, i - 1 \in Same PROVE i \in Same
    <3>1. G(n)[i] = step[i][G(n)[i - 1]]
      BY <1>5
    <3>2. G(n + 1)[i] = step[i][G(n + 1)[i - 1]]
      BY <1>5
    <3> QED BY <2>2, <3>1, <3>2
  <2> HIDE DEF Same
  <2>3. \A i \in 0..n : i \in Same
    BY <2>1, <2>2, UpTo
  <2> QED BY <2>3 DEF Same
<1>7. f \in [Nat -> S]
  BY <1>5
<1>8. f[0] = start
  BY <1>5
<1>9. ASSUME NEW i \in Nat \ {0} PROVE f[i] = step[i][f[i - 1]]
  <2>1. i - 1 \in Nat /\ (i - 1) + 1 = i /\ i \in 1..i /\ i - 1 \in 0..i - 1
    OBVIOUS
  <2>2. G(i)[i] = step[i][G(i)[i - 1]]
    BY <1>5, <2>1
  <2>3. G(i - 1)[i - 1] = G(i)[i - 1]
    BY <1>6, <2>1
  <2> QED BY <2>1, <2>2, <2>3
<1> HIDE DEF f
<1>10. Follows(f, start, step)
  BY <1>8, <1>9 DEF Follows
<1> QED BY <1>7, <1>10
(* Powers of two.                                                          *)
LEMMA Powers ==
  /\ A!Pow2 \in [Nat -> Nat] /\ A!Pow2[0] = 1
  /\ \A n \in Nat : A!Pow2[n + 1] = 2 * A!Pow2[n]
<1> DEFINE step == [i \in Nat |-> [r \in Nat |-> 2 * r]]
           Eq(f) == f = [n \in Nat |-> IF n = 0 THEN 1 ELSE 2 * f[n - 1]]
<1>1. step \in [Nat -> [Nat -> Nat]]
  OBVIOUS
<1> HIDE DEF step
<1>0. PICK one \in Nat : one = 1
  OBVIOUS
<1>2. PICK f \in [Nat -> Nat] : Follows(f, one, step)
  BY <1>1, Recursion
<1>3. ASSUME NEW i \in Nat PROVE f[i] = IF i = 0 THEN 1 ELSE 2 * f[i - 1]
  <2>1. CASE i # 0
    <3>1. i \in Nat \ {0} /\ i - 1 \in Nat /\ f[i - 1] \in Nat
      BY <1>2, <2>1
    <3>2. step[i][f[i - 1]] = 2 * f[i - 1]
      BY <3>1 DEF step
    <3> QED BY <1>2, <2>1, <3>1, <3>2 DEF Follows
  <2> QED BY <1>0, <1>2, <2>1 DEF Follows
<1>4. Eq(f)
  BY <1>3
<1>5. A!Pow2 = CHOOSE g : Eq(g)
  BY DEF A!Pow2
<1>6. Eq(A!Pow2)
  BY <1>4, <1>5
<1> HIDE DEF Eq
<1>7. A!Pow2 = [n \in Nat |-> IF n = 0 THEN 1 ELSE 2 * A!Pow2[n - 1]]
  BY <1>6 DEF Eq
<1>8. A!Pow2[0] = 1
  BY <1>7
<1>9. ASSUME NEW n \in Nat PROVE A!Pow2[n + 1] = 2 * A!Pow2[n]
  <2>1. n + 1 \in Nat /\ n + 1 # 0 /\ (n + 1) - 1 = n
    OBVIOUS
  <2> QED BY <1>7, <2>1
<1> DEFINE Natural == {n \in Nat : A!Pow2[n] \in Nat}
<1>10. 0 \in Natural
  BY <1>8
<1>11. ASSUME NEW n \in Natural PROVE n + 1 \in Natural
  BY <1>9
<1>12. Natural \subseteq Nat
  OBVIOUS
<1> HIDE DEF Natural
<1>13. Natural = Nat
  BY <1>10, <1>11, <1>12, Induction
<1>14. \A n \in Nat : A!Pow2[n] \in Nat
  BY <1>13 DEF Natural
<1>15. A!Pow2 = [n \in Nat |-> A!Pow2[n]]
  BY <1>7
<1> QED BY <1>8, <1>9, <1>14, <1>15

LEMMA Pow2Nat == ASSUME NEW n \in Nat PROVE A!Pow2[n] \in Nat \ {0}
<1> DEFINE Some == {m \in Nat : A!Pow2[m] \in Nat \ {0}}
<1>1. 0 \in Some
  BY Powers
<1>2. ASSUME NEW m \in Some PROVE m + 1 \in Some
  BY Powers
<1>3. Some \subseteq Nat
  OBVIOUS
<1> HIDE DEF Some
<1>4. Some = Nat
  BY <1>1, <1>2, <1>3, Induction
<1> QED BY <1>4 DEF Some

LEMMA Times ==
  ASSUME NEW a \in Int, NEW b \in Int, NEW c \in Nat, a <= b
  PROVE  a * c <= b * c
OBVIOUS

LEMMA PowAdd ==
  ASSUME NEW m \in Nat, NEW n \in Nat
  PROVE  A!Pow2[m + n] = A!Pow2[m] * A!Pow2[n]
<1> DEFINE Some == {k \in Nat : A!Pow2[m + k] = A!Pow2[m] * A!Pow2[k]}
<1>1. 0 \in Some
  BY Powers, Pow2Nat
<1>2. ASSUME NEW k \in Some PROVE k + 1 \in Some
  <2>1. A!Pow2[k + 1] = 2 * A!Pow2[k]
    BY Powers
  <2>2. A!Pow2[(m + k) + 1] = 2 * A!Pow2[m + k]
    BY Powers
  <2>3. m + (k + 1) = (m + k) + 1
    OBVIOUS
  <2>4. A!Pow2[m] \in Nat /\ A!Pow2[k] \in Nat /\ A!Pow2[m + k] = A!Pow2[m] * A!Pow2[k]
    BY Pow2Nat
  <2>5. A!Pow2[m + (k + 1)] = A!Pow2[m] * A!Pow2[k + 1]
    BY <2>1, <2>2, <2>3, <2>4
  <2> QED BY <2>5
<1>3. Some \subseteq Nat
  OBVIOUS
<1> HIDE DEF Some
<1>4. Some = Nat
  BY <1>1, <1>2, <1>3, Induction
<1> QED BY <1>4 DEF Some

LEMMA PowMore ==
  ASSUME NEW m \in Nat, NEW n \in Nat, m <= n
  PROVE  A!Pow2[n] = A!Pow2[m] * A!Pow2[n - m] /\ A!Pow2[m] <= A!Pow2[n]
<1>1. n - m \in Nat /\ m + (n - m) = n
  OBVIOUS
<1>2. A!Pow2[n] = A!Pow2[m] * A!Pow2[n - m]
  BY <1>1, PowAdd
<1>3. A!Pow2[m] \in Nat /\ A!Pow2[n - m] \in Nat /\ 1 <= A!Pow2[n - m]
  BY <1>1, Pow2Nat
<1>4. 1 * A!Pow2[m] <= A!Pow2[n - m] * A!Pow2[m]
  BY <1>3, Times
<1> QED BY <1>2, <1>3, <1>4

(* Quotients and remainders.                                               *)
LEMMA DivMod ==
  ASSUME NEW a \in Int, NEW c \in Nat \ {0}
  PROVE  \E q \in Int, r \in 0..c - 1 : q = a \div c /\ r = a % c /\ a = q * c + r
<1>1. PICK q \in Int, r \in 0..c - 1 : q = a \div c /\ r = a % c
  OBVIOUS
<1>2. a % c = a - c * (a \div c)
  OBVIOUS
<1>3. a = q * c + r
  <2>1. r = a - c * q
    BY <1>1, <1>2
  <2> QED BY <2>1
<1> QED BY <1>1, <1>3

LEMMA Uniquely ==
  ASSUME NEW c \in Nat \ {0}, NEW p \in Int, NEW q \in Int, NEW r \in 0..c - 1,
         NEW s \in 0..c - 1, p * c + r = q * c + s
  PROVE  p = q /\ r = s
<1>1. ASSUME p < q PROVE FALSE
  <2>1. (p + 1) * c <= q * c
    BY <1>1, Times
  <2>2. (p + 1) * c = p * c + c
    OBVIOUS
  <2> QED BY <2>1, <2>2
<1>2. ASSUME q < p PROVE FALSE
  <2>1. (q + 1) * c <= p * c
    BY <1>2, Times
  <2>2. (q + 1) * c = q * c + c
    OBVIOUS
  <2> QED BY <2>1, <2>2
<1>3. p = q
  BY <1>1, <1>2
<1> QED BY <1>3

LEMMA DivModIs ==
  ASSUME NEW a \in Int, NEW c \in Nat \ {0}, NEW q \in Int, NEW r \in 0..c - 1, a = q * c + r
  PROVE  a \div c = q /\ a % c = r
<1>1. PICK p \in Int, s \in 0..c - 1 : p = a \div c /\ s = a % c /\ a = p * c + s
  BY DivMod
<1>2. p = q /\ s = r
  BY <1>1, Uniquely
<1> QED BY <1>1, <1>2
--------------------------------------------------------------------------------
(* Cells and doubles as numbers.                                           *)
Square == A!Span * A!Span

LEMMA PowerSpan ==
  /\ Bits \in Nat /\ Bits >= 2
  /\ A!HighBit \in Nat \ {0} /\ A!Span = 2 * A!HighBit /\ A!Span \in Nat \ {0}
  /\ A!CellValues = 0..A!Span - 1
  /\ A!HighBit = A!Pow2[Bits - 1] /\ A!Span = A!Pow2[Bits]
<1>1. Bits \in Nat /\ Bits >= 2
  BY DoublesAssumption DEF A!DoublesAssumption
<1>2. Bits - 1 \in Nat /\ (Bits - 1) + 1 = Bits
  BY <1>1
<1>3. A!Pow2[Bits] = 2 * A!Pow2[Bits - 1] /\ A!Pow2[Bits - 1] \in Nat \ {0}
  BY <1>2, Powers, Pow2Nat
<1> QED BY <1>1, <1>3 DEF A!HighBit, A!Span, A!CellValues

LEMMA SpanNat == A!Span \in Nat \ {0}
BY PowerSpan

LEMMA CellsAre == A!CellValues = 0..A!Span - 1
BY PowerSpan

LEMMA HalfSpan == A!HighBit \in Nat \ {0} /\ A!Span = 2 * A!HighBit
BY PowerSpan

LEMMA SquareFacts ==
  /\ Square \in Nat \ {0} /\ A!Span <= Square
  /\ Square = A!Pow2[2 * Bits]
<1>1. A!Span \in Nat \ {0}
  BY PowerSpan
<1>2. Bits + Bits = 2 * Bits
  BY PowerSpan
<1>3. Square = A!Pow2[2 * Bits]
  BY <1>2, PowAdd, PowerSpan DEF Square
<1>4. 1 * A!Span <= A!Span * A!Span
  BY <1>1, Times
<1>5. A!Span * A!Span \in Nat \ {0}
  BY <1>1, <1>4
<1> QED BY <1>1, <1>3, <1>4, <1>5 DEF Square

LEMMA WrapIs ==
  ASSUME NEW n \in Int, NEW q \in Int, NEW r \in A!CellValues, n = q * A!Span + r
  PROVE  A!Wrap(n) = r
BY SpanNat, CellsAre, DivModIs DEF A!Wrap

LEMMA WrapSome ==
  ASSUME NEW n \in Int
  PROVE  A!Wrap(n) \in A!CellValues /\ \E q \in Int : n = q * A!Span + A!Wrap(n)
<1>1. PICK q \in Int, r \in 0..A!Span - 1 : r = n % A!Span /\ n = q * A!Span + r
  BY SpanNat, CellsAre, DivMod
<1> QED BY <1>1, SpanNat, CellsAre DEF A!Wrap

LEMMA WrapSmall ==
  ASSUME NEW n \in A!CellValues
  PROVE  A!Wrap(n) = n
<1>1. n \in Int /\ n = 0 * A!Span + n
  BY SpanNat, CellsAre
<1> QED BY <1>1, WrapIs

LEMMA DoubleFacts ==
  ASSUME NEW x \in A!Double
  PROVE  /\ x.high \in 0..A!Span - 1 /\ x.low \in 0..A!Span - 1
         /\ x = A!Pair(x.high, x.low)
         /\ A!Natural(x) = x.high * A!Span + x.low
         /\ A!Natural(x) \in 0..Square - 1
<1>1. x.high \in 0..A!Span - 1 /\ x.low \in 0..A!Span - 1 /\ x = A!Pair(x.high, x.low)
  BY SpanNat, CellsAre DEF A!Double, A!Pair
<1>2. (x.high + 1) * A!Span <= A!Span * A!Span
  BY <1>1, SpanNat, CellsAre, Times
<1>3. 0 * A!Span <= x.high * A!Span
  BY <1>1, SpanNat, CellsAre, Times
<1>4. (x.high + 1) * A!Span = x.high * A!Span + A!Span
  BY <1>1, SpanNat, CellsAre
<1>5. x.high * A!Span \in Int /\ Square \in Nat
  BY <1>1, SpanNat, CellsAre, SquareFacts
<1> QED BY <1>1, <1>2, <1>3, <1>4, <1>5, SpanNat, CellsAre DEF A!Natural, Square

LEMMA PairFacts ==
  ASSUME NEW h \in A!CellValues, NEW l \in A!CellValues
  PROVE  /\ A!Pair(h, l) \in A!Double /\ A!Pair(h, l).high = h /\ A!Pair(h, l).low = l
         /\ A!Natural(A!Pair(h, l)) = h * A!Span + l
BY DEF A!Pair, A!Double, A!Natural

LEMMA NaturalOnce ==
  ASSUME NEW x \in A!Double, NEW y \in A!Double, A!Natural(x) = A!Natural(y)
  PROVE  x = y
<1>1. x.high = y.high /\ x.low = y.low
  <2>1. /\ x.high \in Int /\ y.high \in Int
        /\ x.low \in 0..A!Span - 1 /\ y.low \in 0..A!Span - 1
        /\ x.high * A!Span + x.low = y.high * A!Span + y.low
    BY DoubleFacts, SpanNat
  <2> QED BY <2>1, SpanNat, Uniquely
<1> QED BY <1>1, DoubleFacts

LEMMA BelowIs ==
  ASSUME NEW x \in A!Double, NEW y \in A!Double
  PROVE  A!Below(x, y) <=> A!Natural(x) < A!Natural(y)
<1> DEFINE a == x.high
           b == y.high
<1>1. /\ a \in 0..A!Span - 1 /\ b \in 0..A!Span - 1
      /\ x.low \in 0..A!Span - 1 /\ y.low \in 0..A!Span - 1
      /\ A!Natural(x) = a * A!Span + x.low /\ A!Natural(y) = b * A!Span + y.low
  BY DoubleFacts
<1>2. A!Below(x, y) <=> a < b \/ (a = b /\ x.low < y.low)
  BY DEF A!Below
<1> HIDE DEF a, b
<1>3. CASE a < b
  <2>1. (a + 1) * A!Span <= b * A!Span
    BY <1>1, <1>3, SpanNat, CellsAre, Times
  <2>2. (a + 1) * A!Span = a * A!Span + A!Span
    BY <1>1, SpanNat, CellsAre
  <2> QED BY <1>1, <1>2, <1>3, <2>1, <2>2, SpanNat, CellsAre
<1>4. CASE b < a
  <2>1. (b + 1) * A!Span <= a * A!Span
    BY <1>1, <1>4, SpanNat, CellsAre, Times
  <2>2. (b + 1) * A!Span = b * A!Span + A!Span
    BY <1>1, SpanNat, CellsAre
  <2> QED BY <1>1, <1>2, <1>4, <2>1, <2>2, SpanNat, CellsAre
<1>5. CASE a = b
  BY <1>1, <1>2, <1>5, SpanNat, CellsAre
<1> QED BY <1>1, <1>3, <1>4, <1>5

LEMMA AddIs ==
  ASSUME NEW x \in A!Double, NEW y \in A!Double, A!Natural(x) + A!Natural(y) < Square
  PROVE  /\ A!Add(x, y) \in A!Double
         /\ A!Natural(A!Add(x, y)) = A!Natural(x) + A!Natural(y)
<1>1. /\ x.high \in 0..A!Span - 1 /\ y.high \in 0..A!Span - 1
      /\ x.low \in 0..A!Span - 1 /\ y.low \in 0..A!Span - 1
      /\ A!Natural(x) = x.high * A!Span + x.low /\ A!Natural(y) = y.high * A!Span + y.low
  BY DoubleFacts
<1> DEFINE l == A!Wrap(x.low + y.low)
           k == IF x.low + y.low >= A!Span THEN 1 ELSE 0
           h == x.high + y.high + k
<1>2. l \in A!CellValues /\ x.low + y.low = k * A!Span + l
  <2>1. CASE x.low + y.low >= A!Span
    <3>1. x.low + y.low - A!Span \in A!CellValues /\ x.low + y.low = 1 * A!Span + (x.low + y.low - A!Span)
      BY <1>1, <2>1, SpanNat, CellsAre
    <3>2. l = x.low + y.low - A!Span
      BY <1>1, <3>1, WrapIs
    <3> QED BY <2>1, <3>1, <3>2
  <2>2. CASE x.low + y.low < A!Span
    <3>1. x.low + y.low \in A!CellValues /\ x.low + y.low \in Int
      BY <1>1, <2>2, SpanNat, CellsAre
    <3>2. l = x.low + y.low
      BY <3>1, WrapSmall
    <3> QED BY <1>1, <2>2, <3>1, <3>2, SpanNat, CellsAre
  <2> QED BY <1>1, <2>1, <2>2, SpanNat, CellsAre
<1>3. (\/ (A!HasHighBit(x.low) \/ A!HasHighBit(y.low)) /\ ~ A!HasHighBit(l)
       \/ A!HasHighBit(x.low) /\ A!HasHighBit(y.low)) <=> k = 1
  <2>1. l \in Int /\ x.low + y.low = (IF k = 1 THEN A!Span ELSE 0) + l /\ k \in {0, 1}
    BY <1>2, SpanNat, CellsAre
  <2> HIDE DEF l
  <2> QED BY <1>1, <2>1, HalfSpan DEF A!HasHighBit
<1>4. A!Add(x, y) = A!Pair(A!Wrap(h), l)
  BY <1>3 DEF A!Add
<1> HIDE DEF l
<1>5. k \in {0, 1}
  OBVIOUS
<1> HIDE DEF k
<1>6. (x.high + y.high + k) * A!Span = x.high * A!Span + y.high * A!Span + k * A!Span
  BY <1>1, <1>5, SpanNat, CellsAre
<1>7. h \in A!CellValues
  <2>1. h \in Nat
    BY <1>1, <1>5, SpanNat, CellsAre
  <2>2. h * A!Span < A!Span * A!Span
    <3>1. /\ x.high * A!Span \in Int /\ y.high * A!Span \in Int /\ k * A!Span \in Int
          /\ A!Span * A!Span \in Int /\ l \in Nat /\ h * A!Span \in Int
      BY <1>1, <1>2, <1>5, <2>1, SpanNat, CellsAre
    <3> QED BY <1>1, <1>2, <1>6, <3>1 DEF Square
  <2>3. ASSUME h >= A!Span PROVE FALSE
    <3>1. A!Span * A!Span <= h * A!Span
      BY <2>1, <2>3, SpanNat, CellsAre, Times
    <3> HIDE DEF h
    <3> QED BY <2>1, <2>2, <3>1, SpanNat, CellsAre
  <2> QED BY <2>1, <2>3, SpanNat, CellsAre
<1>8. A!Wrap(h) = h
  BY <1>7, WrapSmall
<1>9. A!Natural(A!Add(x, y)) = h * A!Span + l /\ A!Add(x, y) \in A!Double
  BY <1>2, <1>4, <1>7, <1>8, PairFacts
<1>10. /\ x.high * A!Span \in Int /\ y.high * A!Span \in Int /\ k * A!Span \in Int
       /\ l \in Nat
  BY <1>1, <1>2, <1>5, SpanNat, CellsAre
<1> QED BY <1>1, <1>2, <1>6, <1>9, <1>10

LEMMA SubtractIs ==
  ASSUME NEW x \in A!Double, NEW y \in A!Double, A!Natural(y) <= A!Natural(x)
  PROVE  /\ A!Subtract(x, y) \in A!Double
         /\ A!Natural(A!Subtract(x, y)) = A!Natural(x) - A!Natural(y)
<1>1. /\ x.high \in 0..A!Span - 1 /\ y.high \in 0..A!Span - 1
      /\ x.low \in 0..A!Span - 1 /\ y.low \in 0..A!Span - 1
      /\ A!Natural(x) = x.high * A!Span + x.low /\ A!Natural(y) = y.high * A!Span + y.low
  BY DoubleFacts
<1> DEFINE k == IF x.low < y.low THEN 1 ELSE 0
           h == x.high - y.high - k
           l == x.low - y.low + k * A!Span
<1>2. l \in A!CellValues /\ A!Wrap(x.low - y.low) = l
  <2>1. l \in A!CellValues
    BY <1>1, SpanNat, CellsAre
  <2>2. x.low - y.low = (- k) * A!Span + l /\ x.low - y.low \in Int /\ - k \in Int
    BY <1>1, SpanNat, CellsAre
  <2> HIDE DEF l, k
  <2> QED BY <2>1, <2>2, WrapIs
<1>3. A!Subtract(x, y) = A!Pair(A!Wrap(h), A!Wrap(x.low - y.low))
  BY DEF A!Subtract
<1>4. k \in {0, 1} /\ l \in Int
  BY <1>2, SpanNat, CellsAre
<1>5. h \in Int /\ h < A!Span
  BY <1>1, <1>4, SpanNat, CellsAre
<1>6. h * A!Span + l = A!Natural(x) - A!Natural(y)
  <2> HIDE DEF k
  <2>1. h * A!Span = x.high * A!Span - y.high * A!Span - k * A!Span
    BY <1>1, <1>4, SpanNat, CellsAre
  <2>2. /\ x.high * A!Span \in Int /\ y.high * A!Span \in Int /\ k * A!Span \in Int
    BY <1>1, <1>4, SpanNat, CellsAre
  <2> QED BY <1>1, <2>1, <2>2
<1>7. h \in A!CellValues
  <2>1. ASSUME h < 0 PROVE FALSE
    <3>1. (h + 1) * A!Span <= 0 * A!Span
      BY <1>5, <2>1, SpanNat, CellsAre, Times
    <3>2. (h + 1) * A!Span = h * A!Span + A!Span /\ h * A!Span \in Int
      BY <1>5, SpanNat, CellsAre
    <3>3. l < A!Span /\ A!Natural(x) \in Int /\ A!Natural(y) \in Int
      BY <1>2, SpanNat, CellsAre, DoubleFacts
    <3> HIDE DEF h, l
    <3> QED BY <1>4, <1>6, <3>1, <3>2, <3>3, SpanNat, CellsAre
  <2> QED BY <1>5, <2>1, SpanNat, CellsAre
<1>8. A!Subtract(x, y) = A!Pair(h, l)
  BY <1>2, <1>3, <1>7, WrapSmall
<1> HIDE DEF h, l
<1> QED BY <1>2, <1>6, <1>7, <1>8, PairFacts
LEMMA WrapOver ==
  ASSUME NEW n \in Int, n - A!Span \in A!CellValues
  PROVE  A!Wrap(n) = n - A!Span
<1>1. PICK q \in Int : q = 1
  OBVIOUS
<1>2. PICK r \in A!CellValues : r = n - A!Span
  OBVIOUS
<1>3. n = q * A!Span + r
  BY <1>1, <1>2, SpanNat
<1> QED BY <1>2, <1>3, WrapIs

LEMMA WrapUnder ==
  ASSUME NEW n \in Int, n + A!Span \in A!CellValues
  PROVE  A!Wrap(n) = n + A!Span
<1>1. PICK q \in Int : q = -1
  OBVIOUS
<1>2. PICK r \in A!CellValues : r = n + A!Span
  OBVIOUS
<1>3. n = q * A!Span + r
  BY <1>1, <1>2, SpanNat
<1> QED BY <1>2, <1>3, WrapIs

LEMMA Halves ==
  ASSUME NEW a \in Nat
  PROVE  \E q \in Nat, r \in {0, 1} : q = a \div 2 /\ r = a % 2 /\ a = 2 * q + r
OBVIOUS

LEMMA ZeroOne ==
  /\ A!Zero \in A!Double /\ A!Natural(A!Zero) = 0
  /\ A!One \in A!Double /\ A!Natural(A!One) = 1
<1>1. 0 \in A!CellValues /\ 1 \in A!CellValues
  BY HalfSpan, CellsAre
<1> QED BY <1>1, PairFacts, SpanNat DEF A!Zero, A!One

LEMMA NegateIs ==
  ASSUME NEW x \in A!Double
  PROVE  /\ A!Negate(x) \in A!Double
         /\ A!Natural(A!Negate(x)) = IF A!Natural(x) = 0 THEN 0 ELSE Square - A!Natural(x)
<1>1. /\ x.high \in 0..A!Span - 1 /\ x.low \in 0..A!Span - 1
      /\ A!Natural(x) = x.high * A!Span + x.low
  BY DoubleFacts
<1> DEFINE low == A!Wrap(A!Span - x.low)
           k == IF low = 0 THEN 1 ELSE 0
           h == A!Span - 1 - x.high + k
<1>2. A!Negate(x) = A!Pair(A!Wrap(h), low)
  BY DEF A!Negate
<1>3. CASE x.low = 0
  <2>1. A!Span - A!Span \in A!CellValues /\ 0 \in A!CellValues /\ A!Span - x.low = A!Span
    BY <1>3, SpanNat, CellsAre
  <2>2. low = 0
    BY <2>1, SpanNat, WrapOver
  <2>3. h = A!Span - x.high
    BY <1>1, <2>2, SpanNat
  <2> HIDE DEF h
  <2>4. CASE x.high = 0
    <3>1. h = A!Span
      BY <2>3, <2>4, SpanNat
    <3>2. A!Wrap(h) = 0
      BY <2>1, <3>1, SpanNat, WrapOver
    <3>3. A!Negate(x) = A!Zero
      BY <1>2, <2>2, <3>2 DEF A!Zero
    <3>4. A!Natural(x) = 0
      BY <1>1, <1>3, <2>4, SpanNat
    <3> QED BY <3>3, <3>4, ZeroOne
  <2>5. CASE x.high # 0
    <3>1. h \in A!CellValues
      BY <1>1, <2>3, <2>5, SpanNat, CellsAre
    <3>2. A!Negate(x) = A!Pair(h, 0)
      BY <1>2, <2>2, <3>1, WrapSmall
    <3>3. h * A!Span = A!Span * A!Span - x.high * A!Span
      BY <1>1, <2>3, SpanNat
    <3>4. x.high * A!Span >= A!Span
      <4>1. 1 * A!Span <= x.high * A!Span
        BY <1>1, <2>5, SpanNat, Times
      <4> QED BY <4>1, SpanNat
    <3>5. A!Natural(x) = x.high * A!Span /\ x.high * A!Span \in Int
      BY <1>1, <1>3, SpanNat
    <3>6. A!Natural(A!Pair(h, 0)) = h * A!Span + 0 /\ A!Pair(h, 0) \in A!Double
      BY <2>1, <3>1, PairFacts
    <3>7. h * A!Span \in Int
      BY <3>1, SpanNat, CellsAre
    <3> QED BY <3>2, <3>3, <3>4, <3>5, <3>6, <3>7, SpanNat DEF Square
  <2> QED BY <2>4, <2>5
<1>4. CASE x.low # 0
  <2>1. A!Span - x.low \in A!CellValues
    BY <1>1, <1>4, SpanNat, CellsAre
  <2>2. low = A!Span - x.low /\ low # 0
    BY <1>1, <1>4, <2>1, WrapSmall, SpanNat
  <2>3. h = A!Span - 1 - x.high /\ h \in A!CellValues
    BY <1>1, <2>2, SpanNat, CellsAre
  <2> HIDE DEF h, low
  <2>4. A!Negate(x) = A!Pair(h, A!Span - x.low)
    BY <1>2, <2>2, <2>3, WrapSmall
  <2>5. h * A!Span = A!Span * A!Span - A!Span - x.high * A!Span
    BY <1>1, <2>3, SpanNat
  <2>6. /\ A!Pair(h, A!Span - x.low) \in A!Double
        /\ A!Natural(A!Pair(h, A!Span - x.low)) = h * A!Span + (A!Span - x.low)
    BY <2>1, <2>3, PairFacts
  <2>7. x.high * A!Span \in Int /\ 0 <= x.high * A!Span
    <3>1. 0 * A!Span <= x.high * A!Span
      BY <1>1, SpanNat, Times
    <3> QED BY <1>1, <3>1, SpanNat
  <2> QED BY <1>1, <1>4, <2>4, <2>5, <2>6, <2>7, SpanNat DEF Square
<1> QED BY <1>3, <1>4

LEMMA ShiftLeftIs ==
  ASSUME NEW x \in A!Double
  PROVE  /\ A!ShiftLeft(x) \in A!Double
         /\ 2 * A!Natural(x) < Square => A!Natural(A!ShiftLeft(x)) = 2 * A!Natural(x)
<1>1. /\ x.high \in 0..A!Span - 1 /\ x.low \in 0..A!Span - 1
      /\ A!Natural(x) = x.high * A!Span + x.low
  BY DoubleFacts
<1> DEFINE k == IF A!HasHighBit(x.low) THEN 1 ELSE 0
           m == IF x.high >= A!HighBit THEN 1 ELSE 0
           h == 2 * x.high - m * A!Span
           l == 2 * x.low - k * A!Span
<1>2. l \in A!CellValues /\ A!Wrap(2 * x.low) = l /\ k \in {0, 1}
  <2>1. l \in A!CellValues /\ k \in {0, 1} /\ 2 * x.low \in Int
    BY <1>1, HalfSpan, CellsAre DEF A!HasHighBit
  <2>2. 2 * x.low = k * A!Span + l
    BY <1>1, <2>1, SpanNat
  <2> HIDE DEF l, k
  <2> QED BY <2>1, <2>2, WrapIs
<1>3. h \in A!CellValues /\ A!Wrap(2 * x.high) = h /\ m \in {0, 1} /\ h + 1 < A!Span
  <2>1. h \in A!CellValues /\ m \in {0, 1} /\ 2 * x.high \in Int /\ h + 1 < A!Span
    BY <1>1, HalfSpan, CellsAre
  <2>2. 2 * x.high = m * A!Span + h
    BY <1>1, <2>1, SpanNat
  <2> HIDE DEF h, m
  <2> QED BY <2>1, <2>2, WrapIs
<1>4. A!ShiftLeft(x) = A!Pair(h + k, l)
  BY <1>2, <1>3 DEF A!ShiftLeft
<1>5. h + k \in A!CellValues
  <2> HIDE DEF h, k
  <2> QED BY <1>2, <1>3, SpanNat, CellsAre
<1>6. A!ShiftLeft(x) \in A!Double /\ A!Natural(A!ShiftLeft(x)) = (h + k) * A!Span + l
  BY <1>2, <1>4, <1>5, PairFacts
<1>7. ASSUME 2 * A!Natural(x) < Square PROVE m = 0
  <2>1. ASSUME x.high >= A!HighBit PROVE FALSE
    <3>1. A!HighBit * A!Span <= x.high * A!Span
      BY <1>1, <2>1, HalfSpan, Times
    <3>2. 2 * (A!HighBit * A!Span) = A!Span * A!Span
      BY HalfSpan
    <3>3. A!HighBit * A!Span \in Int /\ x.high * A!Span \in Int
      BY <1>1, HalfSpan
    <3> QED BY <1>1, <1>7, <3>1, <3>2, <3>3, SpanNat DEF Square
  <2> QED BY <2>1
<1>8. ASSUME m = 0 PROVE (h + k) * A!Span + l = 2 * A!Natural(x)
  <2>1. h = 2 * x.high
    BY <1>1, <1>8, SpanNat
  <2>2. (h + k) * A!Span = 2 * (x.high * A!Span) + k * A!Span
    <3> HIDE DEF k, h
    <3> QED BY <1>1, <1>2, <2>1, SpanNat
  <2>3. x.high * A!Span \in Int /\ k * A!Span \in Int
    BY <1>1, <1>2, SpanNat
  <2> HIDE DEF h, k
  <2> QED BY <1>1, <2>2, <2>3
<1> HIDE DEF h, l, k, m
<1> QED BY <1>6, <1>7, <1>8

LEMMA ShiftRightIs ==
  ASSUME NEW x \in A!Double
  PROVE  /\ A!ShiftRight(x) \in A!Double
         /\ \E b \in {0, 1} : A!Natural(x) = 2 * A!Natural(A!ShiftRight(x)) + b
<1>1. /\ x.high \in 0..A!Span - 1 /\ x.low \in 0..A!Span - 1
      /\ A!Natural(x) = x.high * A!Span + x.low
  BY DoubleFacts
<1>2. PICK h \in Nat, m \in {0, 1} : h = x.high \div 2 /\ m = x.high % 2 /\ x.high = 2 * h + m
  BY <1>1, SpanNat, Halves
<1>3. PICK l \in Nat, b \in {0, 1} : l = x.low \div 2 /\ b = x.low % 2 /\ x.low = 2 * l + b
  BY <1>1, SpanNat, Halves
<1> DEFINE low == l + m * A!HighBit
<1>4. A!ShiftRight(x) = A!Pair(h, low)
  BY <1>2, <1>3, HalfSpan DEF A!ShiftRight
<1>5. h \in A!CellValues /\ low \in A!CellValues
  <2>5. l \in Nat
    BY <1>3
  <2>1. h <= x.high /\ l < A!HighBit
    BY <1>1, <1>2, <1>3, HalfSpan
  <2>2. h \in A!CellValues
    BY <1>1, <2>1, SpanNat, CellsAre
  <2>3. low = IF m = 1 THEN l + A!HighBit ELSE l
    BY <1>2, <1>3, HalfSpan
  <2> HIDE DEF low
  <2>4. low \in Nat /\ low < A!Span
    BY <2>1, <2>3, <2>5, HalfSpan
  <2> QED BY <2>2, <2>4, SpanNat, CellsAre
<1>6. A!ShiftRight(x) \in A!Double /\ A!Natural(A!ShiftRight(x)) = h * A!Span + low
  <2> HIDE DEF low
  <2> QED BY <1>4, <1>5, PairFacts
<1>7. A!Natural(x) = 2 * (h * A!Span + low) + b
  <2>1. x.high * A!Span = 2 * (h * A!Span) + m * A!Span
    BY <1>2, SpanNat
  <2>2. m * A!Span = 2 * (m * A!HighBit)
    BY <1>2, HalfSpan
  <2>3. h * A!Span \in Int /\ m * A!HighBit \in Int
    BY <1>2, HalfSpan
  <2> QED BY <1>1, <1>2, <1>3, <2>1, <2>2, <2>3
<1> HIDE DEF low
<1> QED BY <1>3, <1>6, <1>7
(* A loop of n rounds from a value of S on.                                *)
Repeats(f, n, start, step) ==
  f = [i \in 0..n |-> IF i = 0 THEN start ELSE step[f[i - 1]]]

LEMMA Repeated ==
  ASSUME NEW n \in Nat, NEW S, NEW start \in S, NEW step \in [S -> S]
  PROVE  \E f \in [0..n -> S] : Repeats(f, n, start, step)
<1> DEFINE steps == [i \in Nat |-> step]
<1>1. steps \in [Nat -> [S -> S]]
  OBVIOUS
<1> HIDE DEF steps
<1>2. PICK f \in [Nat -> S] : Follows(f, start, steps)
  BY <1>1, Recursion
<1> DEFINE g == [i \in 0..n |-> f[i]]
<1>3. g \in [0..n -> S]
  OBVIOUS
<1>4. g = [i \in 0..n |-> IF i = 0 THEN start ELSE step[g[i - 1]]]
  <2>1. ASSUME NEW i \in 0..n PROVE f[i] = IF i = 0 THEN start ELSE step[g[i - 1]]
    <3>1. CASE i = 0
      BY <1>2, <3>1 DEF Follows
    <3>2. CASE i # 0
      <4>1. i \in Nat \ {0} /\ i - 1 \in 0..n /\ steps[i] = step
        BY <3>2 DEF steps
      <4> QED BY <1>2, <3>2, <4>1 DEF Follows
    <3> QED BY <3>1, <3>2
  <2> QED BY <2>1
<1> HIDE DEF g
<1> QED BY <1>3, <1>4 DEF Repeats

LEMMA Rounds ==
  ASSUME NEW n \in Nat, NEW f, NEW start, NEW step, Repeats(f, n, start, step)
  PROVE  f[0] = start /\ \A i \in 1..n : f[i] = step[f[i - 1]]
<1>1. f = [i \in 0..n |-> IF i = 0 THEN start ELSE step[f[i - 1]]]
  BY DEF Repeats
<1>2. 0 \in 0..n
  OBVIOUS
<1>3. ASSUME NEW i \in 1..n PROVE f[i] = step[f[i - 1]]
  <2>1. i \in 0..n /\ i # 0
    OBVIOUS
  <2> QED BY <1>1, <2>1
<1> QED BY <1>1, <1>2, <1>3

LEMMA Typed ==
  ASSUME NEW x \in A!Double, NEW y \in A!Double
  PROVE  A!Add(x, y) \in A!Double /\ A!Subtract(x, y) \in A!Double
<1>1. /\ x.high \in 0..A!Span - 1 /\ y.high \in 0..A!Span - 1
      /\ x.low \in 0..A!Span - 1 /\ y.low \in 0..A!Span - 1
  BY DoubleFacts
<1> DEFINE a(k) == x.high + y.high + k
           s(k) == x.high - y.high - k
<1>2. /\ \A k \in {0, 1} : a(k) \in Int /\ s(k) \in Int
      /\ x.low + y.low \in Int /\ x.low - y.low \in Int
  BY <1>1
<1> HIDE DEF a, s
<1>3. \A k \in {0, 1} : A!Wrap(a(k)) \in A!CellValues /\ A!Wrap(s(k)) \in A!CellValues
  BY <1>2, WrapSome
<1>4. A!Wrap(x.low + y.low) \in A!CellValues /\ A!Wrap(x.low - y.low) \in A!CellValues
  BY <1>2, WrapSome
<1>5. \E k \in {0, 1} : A!Add(x, y) = A!Pair(A!Wrap(a(k)), A!Wrap(x.low + y.low))
  BY DEF A!Add, a
<1>6. \E k \in {0, 1} : A!Subtract(x, y) = A!Pair(A!Wrap(s(k)), A!Wrap(x.low - y.low))
  BY DEF A!Subtract, s
<1> QED BY <1>3, <1>4, <1>5, <1>6, PairFacts

(* The multiplication. *)
ShiftRounds == [x : A!CellValues, addend : A!Double, result : A!Double]

Shifting(x, y) == [x |-> x, addend |-> A!Pair(0, y), result |-> A!Zero]

MultiplyRounds(x, y, f) ==
  f = [i \in 0..Bits |-> IF i = 0 THEN Shifting(x, y) ELSE A!ShiftRound(f[i - 1])]

LEMMA ShiftRoundTyped ==
  ASSUME NEW r \in ShiftRounds PROVE A!ShiftRound(r) \in ShiftRounds
<1>1. r.x \in A!CellValues /\ r.addend \in A!Double /\ r.result \in A!Double
  BY DEF ShiftRounds
<1>2. r.x \div 2 \in A!CellValues
  BY <1>1, CellsAre, SpanNat
<1> QED BY <1>1, <1>2, ShiftLeftIs, Typed DEF A!ShiftRound, ShiftRounds

LEMMA ShiftingTyped ==
  ASSUME NEW x \in A!CellValues, NEW y \in A!CellValues
  PROVE  /\ Shifting(x, y) \in ShiftRounds
         /\ A!Natural(Shifting(x, y).result) = 0 /\ A!Natural(Shifting(x, y).addend) = y
<1>1. 0 \in A!CellValues
  BY SpanNat, CellsAre
<1>2. 0 * A!Span + y = y
  BY SpanNat, CellsAre
<1> QED BY <1>1, <1>2, PairFacts, ZeroOne DEF Shifting, ShiftRounds

LEMMA Multiplying ==
  ASSUME NEW x \in A!CellValues, NEW y \in A!CellValues
  PROVE  \E f \in [0..Bits -> ShiftRounds] :
           /\ A!Multiply(x, y) = f[Bits].result
           /\ f[0] = Shifting(x, y) /\ \A i \in 1..Bits : f[i] = A!ShiftRound(f[i - 1])
<1> DEFINE step == [r \in ShiftRounds |-> A!ShiftRound(r)]
           F == CHOOSE f : MultiplyRounds(x, y, f)
<1>1. step \in [ShiftRounds -> ShiftRounds] /\ Shifting(x, y) \in ShiftRounds
  BY ShiftRoundTyped, ShiftingTyped
<1>2. Bits \in Nat
  BY PowerSpan
<1> HIDE DEF step
<1>3. PICK g \in [0..Bits -> ShiftRounds] : Repeats(g, Bits, Shifting(x, y), step)
  BY <1>1, <1>2, Repeated
<1>4. MultiplyRounds(x, y, g)
  <2>1. ASSUME NEW i \in 0..Bits, i # 0 PROVE step[g[i - 1]] = A!ShiftRound(g[i - 1])
    <3>1. i - 1 \in 0..Bits
      BY <1>2, <2>1
    <3> QED BY <1>3, <3>1 DEF step
  <2> QED BY <1>3, <2>1 DEF Repeats, MultiplyRounds
<1>5. MultiplyRounds(x, y, F)
  BY <1>4
<1>6. A!Multiply(x, y) = F[Bits].result
  BY Zenon DEF A!Multiply, MultiplyRounds, Shifting
<1> HIDE DEF F
<1>7. F = [i \in 0..Bits |-> IF i = 0 THEN Shifting(x, y) ELSE A!ShiftRound(F[i - 1])]
  BY <1>5 DEF MultiplyRounds
<1>8. F[0] = Shifting(x, y)
  BY <1>2, <1>7
<1>9. ASSUME NEW i \in 1..Bits PROVE F[i] = A!ShiftRound(F[i - 1])
  BY <1>2, <1>7
<1>10. F \in [0..Bits -> ShiftRounds]
  <2> DEFINE RoundsOK == {i \in 0..Bits : F[i] \in ShiftRounds}
  <2>1. 0 \in RoundsOK
    BY <1>1, <1>2, <1>8
  <2>2. ASSUME NEW i \in 1..Bits, i - 1 \in RoundsOK PROVE i \in RoundsOK
    BY <1>2, <1>9, <2>2, ShiftRoundTyped
  <2> HIDE DEF RoundsOK
  <2>3. \A i \in 0..Bits : i \in RoundsOK
    BY <1>2, <2>1, <2>2, UpTo
  <2> QED BY <1>7, <2>3 DEF RoundsOK
<1> QED BY <1>6, <1>8, <1>9, <1>10

(* What is added and what is still to be multiplied is the product.        *)
ShiftInv(r, x, y) ==
  A!Natural(r.result) + r.x * A!Natural(r.addend) = x * y

LEMMA ShiftStep ==
  ASSUME NEW x \in A!CellValues, NEW y \in A!CellValues, NEW r \in ShiftRounds,
         ShiftInv(r, x, y)
  PROVE  ShiftInv(A!ShiftRound(r), x, y)
<1> DEFINE n == r.x
           a == A!Natural(r.addend)
           s == A!Natural(r.result)
           t == A!ShiftRound(r)
<1>1. /\ n \in Nat /\ r.addend \in A!Double /\ r.result \in A!Double
      /\ a \in Nat /\ s \in Nat
  BY SpanNat, CellsAre, SquareFacts, DoubleFacts DEF ShiftRounds
<1>2. s + n * a = x * y
  BY DEF ShiftInv
<1>3. x * y < Square
  <2>1. x \in Nat /\ y \in Nat /\ x <= A!Span - 1 /\ y <= A!Span - 1
    BY SpanNat, CellsAre
  <2>2. x * y <= (A!Span - 1) * y
    BY <2>1, SpanNat, Times
  <2>3. y * A!Span <= (A!Span - 1) * A!Span
    BY <2>1, SpanNat, Times
  <2>4. (A!Span - 1) * y = y * A!Span - y /\ (A!Span - 1) * A!Span = A!Span * A!Span - A!Span
    BY <2>1, SpanNat
  <2>5. x * y \in Int /\ y * A!Span \in Int /\ A!Span * A!Span \in Int
    BY <2>1, SpanNat
  <2> QED BY <2>1, <2>2, <2>3, <2>4, <2>5, SpanNat DEF Square
<1>4. CASE n = 0
  BY <1>4 DEF A!ShiftRound, ShiftInv
<1>5. CASE n # 0
  <2>1. PICK m \in Nat, b \in {0, 1} : m = n \div 2 /\ b = n % 2 /\ n = 2 * m + b
    BY <1>1, Halves
  <2>2. /\ t.x = m /\ t.addend = A!ShiftLeft(r.addend)
        /\ t.result = IF b = 1 THEN A!Add(r.result, r.addend) ELSE r.result
    BY <1>5, <2>1 DEF A!ShiftRound
  <2> HIDE DEF n, a, s, t
  <2>3. m * a \in Nat /\ n * a = 2 * (m * a) + b * a
    BY <1>1, <2>1
  <2>4. A!Natural(t.result) = s + b * a
    <3>1. CASE b = 0
      BY <1>1, <2>2, <3>1 DEF s
    <3>2. CASE b = 1
      <4>1. s + a < Square
        BY <1>1, <1>2, <1>3, <2>3, <3>2, SquareFacts
      <4>2. A!Natural(A!Add(r.result, r.addend)) = s + a
        BY <1>1, <4>1, AddIs DEF s, a
      <4> QED BY <1>1, <2>2, <3>2, <4>2
    <3> QED BY <2>1, <3>1, <3>2
  <2>5. m * A!Natural(t.addend) = 2 * (m * a)
    <3>1. CASE m = 0
      <4>1. A!Natural(t.addend) \in Nat
        BY <1>1, <2>2, ShiftLeftIs, DoubleFacts
      <4> QED BY <1>1, <3>1, <4>1
    <3>2. CASE m # 0
      <4>1. 1 * a <= m * a
        BY <1>1, <2>1, <3>2, Times
      <4>2. b * a \in Nat
        BY <1>1, <2>1
      <4>3. 2 * a < Square
        BY <1>1, <1>2, <1>3, <2>3, <4>1, <4>2, SquareFacts
      <4>4. A!Natural(t.addend) = 2 * a
        BY <1>1, <2>2, <4>3, ShiftLeftIs DEF a
      <4> QED BY <1>1, <2>1, <4>4
    <3> QED BY <3>1, <3>2
  <2>6. b * a \in Nat
    BY <1>1, <2>1
  <2> QED BY <1>1, <1>2, <2>2, <2>3, <2>4, <2>5, <2>6 DEF ShiftInv, t
<1> QED BY <1>4, <1>5

(* ficl2UnsignedMultiply is exact. *)
LEMMA MultiplyIs ==
  ASSUME NEW x \in A!CellValues, NEW y \in A!CellValues
  PROVE  A!Multiply(x, y) \in A!Double /\ A!Natural(A!Multiply(x, y)) = x * y
<1>1. PICK f \in [0..Bits -> ShiftRounds] :
        /\ A!Multiply(x, y) = f[Bits].result
        /\ f[0] = Shifting(x, y) /\ \A i \in 1..Bits : f[i] = A!ShiftRound(f[i - 1])
  BY Multiplying
<1>2. Bits \in Nat
  BY PowerSpan
<1> DEFINE Good == {i \in 0..Bits : ShiftInv(f[i], x, y) /\ f[i].x < A!Pow2[Bits - i]}
<1>3. 0 \in Good
  <2>1. ShiftInv(Shifting(x, y), x, y)
    <3>1. Shifting(x, y).x = x /\ x \in Nat /\ y \in Nat
      BY SpanNat, CellsAre DEF Shifting
    <3> QED BY <3>1, ShiftingTyped DEF ShiftInv
  <2>2. x < A!Pow2[Bits - 0]
    <3>1. Bits - 0 = Bits /\ A!Span = A!Pow2[Bits]
      BY PowerSpan
    <3>2. x < A!Span
      BY SpanNat, CellsAre
    <3> QED BY <3>1, <3>2
  <2> QED BY <1>1, <1>2, <2>1, <2>2 DEF Shifting
<1>4. ASSUME NEW i \in 1..Bits, i - 1 \in Good PROVE i \in Good
  <2>1. f[i] = A!ShiftRound(f[i - 1]) /\ f[i - 1] \in ShiftRounds /\ ShiftInv(f[i - 1], x, y)
    BY <1>1, <1>2, <1>4
  <2>2. ShiftInv(f[i], x, y)
    BY <2>1, ShiftStep
  <2> DEFINE n == f[i - 1].x
  <2>3. n \in Nat
    BY <2>1, SpanNat, CellsAre DEF ShiftRounds
  <2>4. Bits - i \in Nat /\ Bits - (i - 1) = (Bits - i) + 1
    BY <1>2
  <2>5. A!Pow2[Bits - (i - 1)] = 2 * A!Pow2[Bits - i] /\ A!Pow2[Bits - i] \in Nat \ {0}
    BY <2>4, Powers, Pow2Nat
  <2>6. n < A!Pow2[Bits - (i - 1)]
    BY <1>4
  <2>7. f[i].x = IF n = 0 THEN n ELSE n \div 2
    BY <2>1 DEF A!ShiftRound
  <2> DEFINE p == A!Pow2[Bits - i]
  <2> HIDE DEF n, p
  <2>8. p \in Nat \ {0} /\ n < 2 * p
    BY <2>5, <2>6 DEF p
  <2>9. (IF n = 0 THEN n ELSE n \div 2) < p
    BY <2>3, <2>8
  <2> QED BY <1>2, <2>2, <2>7, <2>9 DEF p
<1> HIDE DEF Good
<1>5. Bits \in Good
  BY <1>2, <1>3, <1>4, UpTo
<1>6. ShiftInv(f[Bits], x, y) /\ f[Bits].x < A!Pow2[0]
  <2>1. Bits - Bits = 0
    BY <1>2
  <2> QED BY <1>5, <2>1 DEF Good
<1>7. f[Bits] \in ShiftRounds
  BY <1>1, <1>2
<1>8. f[Bits].x = 0
  <2>1. A!Pow2[0] = 1
    BY Powers
  <2>2. f[Bits].x \in Nat
    BY <1>7, SpanNat, CellsAre DEF ShiftRounds
  <2> DEFINE n == f[Bits].x
  <2>3. n < 1
    BY <1>6, <2>1
  <2> HIDE DEF n
  <2>4. n = 0
    BY <2>2, <2>3 DEF n
  <2> QED BY <2>4 DEF n
<1>9. f[Bits].result \in A!Double /\ f[Bits].addend \in A!Double
  BY <1>7 DEF ShiftRounds
<1>10. A!Natural(f[Bits].result) \in Nat /\ A!Natural(f[Bits].addend) \in Nat
  BY <1>9, DoubleFacts, SquareFacts
<1>11. A!Natural(f[Bits].result) = x * y
  BY <1>6, <1>8, <1>10 DEF ShiftInv
<1> QED BY <1>1, <1>9, <1>11
(* The sign of a cell and of a double. *)
Half == A!HighBit * A!Span

Magn(u) == IF A!HasHighBit(u) THEN A!Minus(u) ELSE u

LEMMA HalfFacts == Half \in Nat \ {0} /\ Square = 2 * Half /\ A!HighBit * A!HighBit < Half
<1>1. A!HighBit * A!Span = 2 * (A!HighBit * A!HighBit)
  BY HalfSpan
<1>2. A!Span * A!Span = 2 * (A!HighBit * A!Span)
  BY HalfSpan
<1>3. 1 * A!HighBit <= A!HighBit * A!HighBit
  BY HalfSpan, Times
<1>4. A!HighBit * A!HighBit \in Nat \ {0}
  BY <1>3, HalfSpan
<1> QED BY <1>1, <1>2, <1>4 DEF Half, Square

LEMMA SignedIs ==
  ASSUME NEW u \in A!CellValues
  PROVE  /\ Magn(u) \in A!CellValues /\ Magn(u) \in 0..A!HighBit
         /\ A!Signed(u) = IF A!HasHighBit(u) THEN - Magn(u) ELSE Magn(u)
         /\ A!HasHighBit(u) => Magn(u) # 0
         /\ A!Signed(u) < 0 <=> A!HasHighBit(u)
         /\ Magn(u) = 0 <=> u = 0
<1>1. CASE A!HasHighBit(u)
  <2>1. u >= A!HighBit /\ u \in Nat /\ u < A!Span
    BY <1>1, HalfSpan, CellsAre DEF A!HasHighBit
  <2>2. (- u) + A!Span \in A!CellValues /\ - u \in Int
    BY <2>1, HalfSpan, CellsAre
  <2>3. A!Minus(u) = (- u) + A!Span
    BY <2>2, WrapUnder DEF A!Minus
  <2> QED BY <1>1, <2>1, <2>2, <2>3, HalfSpan DEF Magn, A!Signed
<1>2. CASE ~ A!HasHighBit(u)
  <2>1. u < A!HighBit /\ u \in Nat /\ Magn(u) = u
    BY <1>2, HalfSpan, CellsAre DEF A!HasHighBit, Magn
  <2> QED BY <1>2, <2>1, HalfSpan DEF A!Signed
<1> QED BY <1>1, <1>2

LEMMA NumberIs ==
  ASSUME NEW x \in A!Double
  PROVE  /\ A!IsNegative(x) <=> A!Natural(x) >= Half
         /\ A!Number(x) = IF A!Natural(x) >= Half THEN A!Natural(x) - Square ELSE A!Natural(x)
<1>1. /\ x.high \in 0..A!Span - 1 /\ x.low \in 0..A!Span - 1
      /\ A!Natural(x) = x.high * A!Span + x.low
  BY DoubleFacts
<1> DEFINE h == x.high
<1>2. h \in Nat /\ h * A!Span \in Nat
  <2>1. h \in Nat
    BY <1>1, SpanNat
  <2>2. 0 * A!Span <= h * A!Span
    BY <2>1, SpanNat, Times
  <2> QED BY <2>1, <2>2, SpanNat
<1>3. A!IsNegative(x) <=> h >= A!HighBit
  BY DEF A!IsNegative, A!HasHighBit
<1>4. A!Number(x) = (IF h >= A!HighBit THEN h - A!Span ELSE h) * A!Span + x.low
  BY DEF A!Number, A!Signed
<1>5. (h - A!Span) * A!Span = h * A!Span - A!Span * A!Span
  BY <1>2, SpanNat
<1>6. h >= A!HighBit => h * A!Span >= Half
  BY <1>2, HalfSpan, Times DEF Half
<1>7. h < A!HighBit => h * A!Span + A!Span <= Half
  <2>1. (h + 1) * A!Span = h * A!Span + A!Span
    BY <1>2, SpanNat
  <2>2. ASSUME h < A!HighBit PROVE (h + 1) * A!Span <= A!HighBit * A!Span
    BY <1>2, <2>2, HalfSpan, Times
  <2> QED BY <2>1, <2>2 DEF Half
<1> HIDE DEF h
<1>8. CASE h >= A!HighBit
  <2>1. A!Number(x) = A!Natural(x) - Square
    BY <1>1, <1>2, <1>4, <1>5, <1>8, SpanNat DEF Square, h
  <2>2. A!Natural(x) >= Half
    BY <1>1, <1>2, <1>6, <1>8, SpanNat, HalfFacts DEF h
  <2> QED BY <1>3, <1>8, <2>1, <2>2
<1>9. CASE ~ h >= A!HighBit
  <2>1. A!Number(x) = A!Natural(x)
    BY <1>1, <1>4, <1>9 DEF h
  <2>2. A!Natural(x) < Half
    BY <1>1, <1>2, <1>7, <1>9, HalfSpan, HalfFacts DEF h
  <2>3. A!Natural(x) \in Int /\ Half \in Int
    BY DoubleFacts, HalfFacts, SquareFacts
  <2> QED BY <1>3, <1>9, <2>1, <2>2, <2>3
<1> QED BY <1>8, <1>9

(* The negative of a double, as a number. *)
LEMMA NegateNumber ==
  ASSUME NEW x \in A!Double, A!Natural(x) <= Half
  PROVE  A!Negate(x) \in A!Double /\ A!Number(A!Negate(x)) = - A!Natural(x)
<1>1. A!Negate(x) \in A!Double
      /\ A!Natural(A!Negate(x)) = IF A!Natural(x) = 0 THEN 0 ELSE Square - A!Natural(x)
  BY NegateIs
<1> DEFINE y == A!Negate(x)
<1>2. A!Number(y) = IF A!Natural(y) >= Half THEN A!Natural(y) - Square ELSE A!Natural(y)
  BY <1>1, NumberIs
<1>3. A!Natural(x) \in Nat
  BY DoubleFacts, SquareFacts
<1> HIDE DEF y
<1> QED BY <1>1, <1>2, <1>3, HalfFacts DEF y

(* ficl2IntegerMultiply is exact. *)
LEMMA SignedMultiplyIs ==
  ASSUME NEW x \in A!CellValues, NEW y \in A!CellValues
  PROVE  /\ A!SignedMultiply(x, y) \in A!Double
         /\ A!Number(A!SignedMultiply(x, y)) = A!Signed(x) * A!Signed(y)
<1> DEFINE a == Magn(x)
           b == Magn(y)
           p == A!Multiply(a, b)
<1>1. a \in A!CellValues /\ b \in A!CellValues /\ a \in 0..A!HighBit /\ b \in 0..A!HighBit
  BY SignedIs
<1>2. p \in A!Double /\ A!Natural(p) = a * b
  BY <1>1, MultiplyIs
<1>3. A!SignedMultiply(x, y) = IF A!HasHighBit(x) = A!HasHighBit(y) THEN p ELSE A!Negate(p)
  BY Zenon DEF A!SignedMultiply, Magn
<1>4. /\ A!Signed(x) = IF A!HasHighBit(x) THEN - a ELSE a
      /\ A!Signed(y) = IF A!HasHighBit(y) THEN - b ELSE b
  BY SignedIs
<1>5. A!HasHighBit(x) \in BOOLEAN /\ A!HasHighBit(y) \in BOOLEAN
  BY DEF A!HasHighBit
<1> HIDE DEF a, b, p
<1>6. a * b \in Nat /\ a * b < Half
  <2>1. a * b <= A!HighBit * b
    BY <1>1, HalfSpan, Times
  <2>2. b * A!HighBit <= A!HighBit * A!HighBit
    BY <1>1, HalfSpan, Times
  <2>3. 0 * b <= a * b
    BY <1>1, HalfSpan, Times
  <2>4. a * b \in Int /\ b * A!HighBit = A!HighBit * b /\ A!HighBit * b \in Int
    BY <1>1, HalfSpan
  <2>5. A!HighBit * A!HighBit \in Int /\ 0 * b = 0
    BY <1>1, HalfSpan
  <2> QED BY <2>1, <2>2, <2>3, <2>4, <2>5, HalfFacts
<1>7. A!Number(p) = a * b
  BY <1>2, <1>6, NumberIs, HalfFacts
<1>8. A!Negate(p) \in A!Double /\ A!Number(A!Negate(p)) = - (a * b)
  BY <1>2, <1>6, NegateNumber, HalfFacts
<1>9. (- a) * (- b) = a * b /\ (- a) * b = - (a * b) /\ a * (- b) = - (a * b)
  BY <1>1, HalfSpan
<1>10. CASE A!HasHighBit(x) /\ A!HasHighBit(y)
  BY <1>2, <1>3, <1>4, <1>7, <1>9, <1>10
<1>11. CASE A!HasHighBit(x) /\ ~ A!HasHighBit(y)
  BY <1>3, <1>4, <1>8, <1>9, <1>11
<1>12. CASE ~ A!HasHighBit(x) /\ A!HasHighBit(y)
  BY <1>3, <1>4, <1>8, <1>9, <1>12
<1>13. CASE ~ A!HasHighBit(x) /\ ~ A!HasHighBit(y)
  <2>1. A!HasHighBit(x) = A!HasHighBit(y)
    BY <1>5, <1>13
  <2>2. A!SignedMultiply(x, y) = p
    BY <1>3, <2>1
  <2>3. A!Signed(x) = a /\ A!Signed(y) = b
    BY <1>4, <1>13
  <2> QED BY <1>2, <1>7, <2>2, <2>3
<1> QED BY <1>5, <1>10, <1>11, <1>12, <1>13
(* The bits of either of two cells. *)
OrBit(a, b, i) ==
  IF (a \div A!Pow2[Bits - i]) % 2 = 1 \/ (b \div A!Pow2[Bits - i]) % 2 = 1 THEN 1 ELSE 0

BitRounds(a, b, f) ==
  f = [i \in 0..Bits |-> IF i = 0 THEN 0 ELSE 2 * f[i - 1] + OrBit(a, b, i)]

LEMMA Oring ==
  ASSUME NEW a, NEW b
  PROVE  \E f : /\ A!BitOr(a, b) = f[Bits] /\ f[0] = 0
                /\ \A i \in 1..Bits : f[i] = 2 * f[i - 1] + OrBit(a, b, i)
<1> DEFINE step == [i \in Nat |-> [r \in Nat |-> 2 * r + OrBit(a, b, i)]]
           F == CHOOSE f : BitRounds(a, b, f)
<1>1. step \in [Nat -> [Nat -> Nat]]
  <2>1. \A i \in Nat : OrBit(a, b, i) \in Nat
    BY DEF OrBit
  <2> HIDE DEF OrBit
  <2> QED BY <2>1
<1>2. Bits \in Nat
  BY PowerSpan
<1>0. PICK zero \in Nat : zero = 0
  OBVIOUS
<1> HIDE DEF step
<1>3. PICK g \in [Nat -> Nat] : Follows(g, zero, step)
  BY <1>1, Recursion
<1> DEFINE h == [i \in 0..Bits |-> g[i]]
<1>4. BitRounds(a, b, h)
  <2>1. ASSUME NEW i \in 0..Bits
        PROVE  g[i] = IF i = 0 THEN 0 ELSE 2 * h[i - 1] + OrBit(a, b, i)
    <3>1. CASE i = 0
      BY <1>0, <1>3, <3>1 DEF Follows
    <3>2. CASE i # 0
      <4>1. i \in Nat \ {0} /\ i - 1 \in 0..Bits /\ g[i - 1] \in Nat
        BY <1>2, <1>3, <3>2
      <4>2. step[i][g[i - 1]] = 2 * g[i - 1] + OrBit(a, b, i)
        BY <4>1 DEF step
      <4> QED BY <1>3, <3>2, <4>1, <4>2 DEF Follows
    <3> QED BY <3>1, <3>2
  <2> QED BY <2>1 DEF BitRounds
<1> HIDE DEF h
<1>5. BitRounds(a, b, F)
  BY <1>4
<1>6. A!BitOr(a, b) = F[Bits]
  BY Zenon DEF A!BitOr, BitRounds, OrBit
<1> HIDE DEF F
<1>7. F = [i \in 0..Bits |-> IF i = 0 THEN 0 ELSE 2 * F[i - 1] + OrBit(a, b, i)]
  BY <1>5 DEF BitRounds
<1>8. F[0] = 0
  BY <1>2, <1>7
<1>9. ASSUME NEW i \in 1..Bits PROVE F[i] = 2 * F[i - 1] + OrBit(a, b, i)
  <2>1. i \in 0..Bits /\ i # 0
    BY <1>2
  <2> QED BY <1>7, <2>1, Zenon
<1> QED BY <1>6, <1>8, <1>9

LEMMA BitOrTyped == ASSUME NEW a, NEW b PROVE A!BitOr(a, b) \in A!CellValues
<1>1. PICK f : /\ A!BitOr(a, b) = f[Bits] /\ f[0] = 0
               /\ \A i \in 1..Bits : f[i] = 2 * f[i - 1] + OrBit(a, b, i)
  BY Oring
<1>2. Bits \in Nat
  BY PowerSpan
<1> DEFINE Good == {i \in 0..Bits : f[i] \in 0..A!Pow2[i] - 1}
<1>3. 0 \in Good
  <2>1. f[0] \in 0..A!Pow2[0] - 1
    BY <1>1, Powers
  <2> QED BY <1>2, <2>1
<1>4. ASSUME NEW i \in 1..Bits, i - 1 \in Good PROVE i \in Good
  <2>1. f[i] = 2 * f[i - 1] + OrBit(a, b, i) /\ OrBit(a, b, i) \in {0, 1}
    BY <1>1 DEF OrBit
  <2>2. i - 1 \in Nat /\ (i - 1) + 1 = i
    BY <1>2
  <2>3. A!Pow2[i] = 2 * A!Pow2[i - 1] /\ A!Pow2[i - 1] \in Nat
    BY <2>2, Powers, Pow2Nat
  <2>4. f[i - 1] \in 0..A!Pow2[i - 1] - 1
    BY <1>4
  <2>5. f[i] \in 0..A!Pow2[i] - 1
    BY <2>1, <2>3, <2>4
  <2> QED BY <1>2, <2>5
<1> HIDE DEF Good
<1>5. Bits \in Good
  BY <1>2, <1>3, <1>4, UpTo
<1> QED BY <1>1, <1>5, PowerSpan DEF Good

LEMMA DivHalf ==
  ASSUME NEW n \in Nat, NEW p \in Nat \ {0}
  PROVE  \E q \in Nat, b \in {0, 1} : q = n \div (2 * p) /\ n \div p = 2 * q + b
<1> DEFINE c == 2 * p
<1>1. c \in Nat \ {0}
  OBVIOUS
<1> HIDE DEF c
<1>2. PICK q \in Int, r \in 0..c - 1 : q = n \div c /\ n = q * c + r
  BY <1>1, DivMod
<1>3. q \in Nat
  <2>1. ASSUME q < 0 PROVE FALSE
    <3>1. (q + 1) * c <= 0 * c
      BY <1>1, <1>2, <2>1, Times
    <3>2. (q + 1) * c = q * c + c /\ q * c \in Int
      BY <1>1, <1>2
    <3> QED BY <1>1, <1>2, <3>1, <3>2
  <2> QED BY <1>2, <2>1
<1>4. q * c = (2 * q) * p
  <2>1. q \in Int
    BY <1>2
  <2> QED BY <2>1 DEF c
<1>5. CASE r < p
  <2>1. PICK s \in 0..p - 1 : s = r
    BY <1>2, <1>5, <1>1
  <2>2. n = (2 * q) * p + s /\ 2 * q \in Int
    BY <1>2, <1>4, <2>1
  <2>3. n \div p = 2 * q
    BY <2>2, DivModIs
  <2>4. 2 * q = 2 * q + 0
    BY <1>2
  <2> QED BY <1>2, <1>3, <2>3, <2>4 DEF c
<1>6. CASE r >= p
  <2>1. PICK s \in 0..p - 1 : s = r - p
    BY <1>1, <1>2, <1>6 DEF c
  <2>2. n = (2 * q + 1) * p + s /\ 2 * q + 1 \in Int
    <3>1. (2 * q + 1) * p = (2 * q) * p + p /\ (2 * q) * p \in Int
      BY <1>2
    <3> QED BY <1>2, <1>4, <2>1, <3>1
  <2>3. n \div p = 2 * q + 1
    BY <2>2, DivModIs
  <2> QED BY <1>2, <1>3, <2>3 DEF c
<1> QED BY <1>2, <1>5, <1>6

(* A number that is a multiple of a power of two and one below it share no *)
(* bit.                                                                    *)
LEMMA BitOrIs ==
  ASSUME NEW a \in A!CellValues, NEW b \in A!CellValues, NEW k \in 0..Bits, NEW c \in Nat,
         a = c * A!Pow2[k], b < A!Pow2[k]
  PROVE  A!BitOr(a, b) = a + b
<1>1. PICK f : /\ A!BitOr(a, b) = f[Bits] /\ f[0] = 0
               /\ \A i \in 1..Bits : f[i] = 2 * f[i - 1] + OrBit(a, b, i)
  BY Oring
<1>2. Bits \in Nat /\ A!Span = A!Pow2[Bits] /\ k \in Nat
  BY PowerSpan
<1>a. a \in Nat /\ b \in Nat /\ a < A!Span /\ b < A!Span
  BY SpanNat, CellsAre
<1> DEFINE P(i) == A!Pow2[Bits - i]
           Quot(n, i) == n \div P(i)
           Good == {i \in 0..Bits : f[i] = Quot(a, i) + Quot(b, i)}
<1>3. 0 \in Good
  <2>1. P(0) = A!Span
    BY <1>2
  <2>0. PICK zero \in Int : zero = 0
    OBVIOUS
  <2>2. \A n \in 0..A!Span - 1 : n = zero * A!Span + n /\ n \in Int
    BY SpanNat, <2>0
  <2>3. \A n \in 0..A!Span - 1 : n \div A!Span = zero
    BY SpanNat, <2>2, DivModIs
  <2>4. Quot(a, 0) = 0 /\ Quot(b, 0) = 0
    BY <2>0, <2>1, <2>3, CellsAre
  <2> QED BY <1>1, <1>2, <2>4
<1>4. ASSUME NEW i \in 1..Bits, i - 1 \in Good PROVE i \in Good
  <2>1. f[i] = 2 * f[i - 1] + OrBit(a, b, i) /\ f[i - 1] = Quot(a, i - 1) + Quot(b, i - 1)
    BY <1>1, <1>4
  <2>2. Bits - i \in Nat /\ Bits - (i - 1) = (Bits - i) + 1
    BY <1>2
  <2>3. P(i) \in Nat \ {0} /\ P(i - 1) = 2 * P(i)
    BY <2>2, Powers, Pow2Nat
  <2> HIDE DEF P
  <2>4. PICK qa \in Nat, ba \in {0, 1} : qa = a \div (2 * P(i)) /\ a \div P(i) = 2 * qa + ba
    BY <1>a, <2>3, DivHalf
  <2>5. PICK qb \in Nat, bb \in {0, 1} : qb = b \div (2 * P(i)) /\ b \div P(i) = 2 * qb + bb
    BY <1>a, <2>3, DivHalf
  <2>6. Quot(a, i) = 2 * Quot(a, i - 1) + ba /\ Quot(b, i) = 2 * Quot(b, i - 1) + bb
        /\ Quot(a, i - 1) \in Nat /\ Quot(b, i - 1) \in Nat
    BY <2>3, <2>4, <2>5
  <2>7. ba = 0 \/ bb = 0
    <3>1. CASE k <= Bits - i
      <4>1. A!Pow2[k] <= P(i)
        BY <1>2, <2>2, <3>1, PowMore DEF P
      <4>2. b < P(i)
        BY <1>2, <1>a, <2>3, <4>1, Pow2Nat
      <4>0. PICK zero \in Int : zero = 0
        OBVIOUS
      <4>3. b = zero * P(i) + b /\ b \in 0..P(i) - 1
        BY <1>a, <2>3, <4>0, <4>2
      <4>4. b \div P(i) = zero
        BY <2>3, <4>3, DivModIs
      <4> QED BY <2>5, <4>0, <4>4
    <3>2. CASE k > Bits - i
      <4> DEFINE m == Bits - i
                 e == k - (m + 1)
      <4>1. m \in Nat /\ m + 1 <= k /\ m + 1 \in Nat /\ e \in Nat
        BY <1>2, <2>2, <3>2
      <4>2. A!Pow2[k] = A!Pow2[m + 1] * A!Pow2[e] /\ A!Pow2[m + 1] = 2 * P(i)
            /\ A!Pow2[e] \in Nat
        BY <1>2, <4>1, PowMore, Powers, Pow2Nat DEF P
      <4> DEFINE d == A!Pow2[e]
      <4> HIDE DEF d
      <4>3. a = (2 * (c * d)) * P(i) /\ c * d \in Nat
        <5>1. a = c * ((2 * P(i)) * d) /\ d \in Nat
          BY <4>2 DEF d
        <5>2. c * d \in Nat
          BY <5>1
        <5> QED BY <2>3, <5>1, <5>2
      <4>5. PICK q \in Int : q = 2 * (c * d)
        BY <4>3
      <4>0. PICK zero \in 0..P(i) - 1 : zero = 0
        BY <2>3
      <4>6. a = q * P(i) + zero
        BY <2>3, <4>0, <4>3, <4>5
      <4>7. a \div P(i) = q
        <5>1. PICK n \in Int : n = a
          BY <1>a
        <5>2. n = q * P(i) + zero
          BY <4>6, <5>1
        <5>3. n \div P(i) = q
          BY <2>3, <5>2, DivModIs
        <5> QED BY <5>1, <5>3
      <4>8. 2 * (c * d) = 2 * qa + ba
        BY <2>4, <4>5, <4>7
      <4> DEFINE g == c * d
      <4> HIDE DEF g
      <4>9. g \in Nat /\ 2 * g = 2 * qa + ba
        BY <4>3, <4>8 DEF g
      <4> QED BY <2>4, <4>9
    <3> QED BY <1>2, <2>2, <3>1, <3>2
  <2>8. OrBit(a, b, i) = ba + bb
    <3>1. (2 * qa + ba) % 2 = ba /\ (2 * qb + bb) % 2 = bb
      OBVIOUS
    <3>2. OrBit(a, b, i) = IF ba = 1 \/ bb = 1 THEN 1 ELSE 0
      BY <2>4, <2>5, <3>1 DEF OrBit, P
    <3> QED BY <2>7, <3>2
  <2> HIDE DEF Quot
  <2>9. f[i] = Quot(a, i) + Quot(b, i)
    BY <2>1, <2>6, <2>8
  <2> QED BY <1>2, <2>9
<1> HIDE DEF Good
<1>5. Bits \in Good
  BY <1>2, <1>3, <1>4, UpTo
<1>6. Quot(a, Bits) = a /\ Quot(b, Bits) = b
  <2>1. P(Bits) = 1
    <3>1. Bits - Bits = 0
      BY <1>2
    <3> QED BY <3>1, Powers
  <2>2. a \div 1 = a /\ b \div 1 = b
    BY <1>a
  <2> QED BY <2>1, <2>2
<1> QED BY <1>1, <1>5, <1>6 DEF Good
LEMMA NatTimes ==
  ASSUME NEW a \in Nat, NEW b \in Nat
  PROVE  a * b \in Nat
<1>1. 0 * b <= a * b
  BY Times
<1> QED BY <1>1

LEMMA OrZero ==
  ASSUME NEW a \in A!CellValues
  PROVE  0 \in A!CellValues /\ A!BitOr(a, 0) = a
<1>1. PICK k \in 0..Bits : k = 0
  BY PowerSpan
<1>2. PICK zero \in A!CellValues : zero = 0
  BY SpanNat, CellsAre
<1>3. A!Pow2[k] = 1
  BY <1>1, Powers
<1>4. PICK c \in Nat : c = a
  BY SpanNat, CellsAre
<1>5. a = c * A!Pow2[k] /\ zero < A!Pow2[k]
  BY <1>2, <1>3, <1>4
<1>6. A!BitOr(a, zero) = a + zero
  BY <1>5, BitOrIs
<1> QED BY <1>2, <1>4, <1>6

(* A double that is a multiple of twice a power of two, and that power.    *)
LEMMA DoubleOrHigh ==
  ASSUME NEW x \in A!Double, NEW z \in A!Double, NEW m \in Nat, NEW c \in Nat,
         A!Natural(z) = A!Pow2[m], A!Natural(x) = c * (2 * A!Pow2[m]), m >= Bits
  PROVE  /\ A!DoubleOr(x, z) \in A!Double
         /\ A!Natural(A!DoubleOr(x, z)) = A!Natural(x) + A!Natural(z)
<1>1. Bits \in Nat /\ A!Span = A!Pow2[Bits]
  BY PowerSpan
<1> DEFINE e == m - Bits
           p == A!Pow2[e]
           h == c * (2 * p)
<1>2. e \in Nat /\ e + 1 \in Nat
  BY <1>1
<1>3. A!Pow2[m] = A!Span * p /\ p \in Nat \ {0} /\ A!Pow2[e + 1] = 2 * p
  BY <1>1, <1>2, PowMore, Powers, Pow2Nat
<1> HIDE DEF p
<1>4. h \in Nat
  <2>1. 2 * p \in Nat
    BY <1>3
  <2> QED BY <2>1, NatTimes
<1>5. A!Natural(x) = h * A!Span + 0 /\ A!Natural(z) = p * A!Span + 0
  <2>1. c * (2 * (A!Span * p)) = (c * (2 * p)) * A!Span
    BY <1>3, SpanNat
  <2> QED BY <1>3, <1>4, <2>1, SpanNat
<1> HIDE DEF h
<1>0. PICK zero \in 0..A!Span - 1 : zero = 0
  BY SpanNat
<1>6. /\ x.high \in 0..A!Span - 1 /\ x.low \in 0..A!Span - 1
      /\ A!Natural(x) = x.high * A!Span + x.low
      /\ z.high \in 0..A!Span - 1 /\ z.low \in 0..A!Span - 1
      /\ A!Natural(z) = z.high * A!Span + z.low
      /\ x = A!Pair(x.high, x.low) /\ z = A!Pair(z.high, z.low)
  BY DoubleFacts
<1>7. x.high = h /\ x.low = 0
  <2>1. x.high * A!Span + x.low = h * A!Span + zero /\ x.high \in Int /\ h \in Int
    BY <1>0, <1>4, <1>5, <1>6, SpanNat
  <2>2. x.low \in 0..A!Span - 1
    BY <1>6
  <2> QED BY <1>0, <2>1, <2>2, SpanNat, Uniquely
<1>8. z.high = p /\ z.low = 0
  <2>1. z.high * A!Span + z.low = p * A!Span + zero /\ z.high \in Int /\ p \in Int
    BY <1>0, <1>3, <1>5, <1>6, SpanNat
  <2>2. z.low \in 0..A!Span - 1
    BY <1>6
  <2> QED BY <1>0, <2>1, <2>2, SpanNat, Uniquely
<1>9. e < Bits
  <2>1. ASSUME e >= Bits PROVE FALSE
    <3>1. A!Span <= p
      BY <1>1, <1>2, <2>1, PowMore DEF p
    <3> QED BY <1>3, <1>6, <1>8, <3>1, SpanNat
  <2> QED BY <1>1, <1>2, <2>1
<1>10. A!BitOr(x.high, z.high) = h + p
  <2>1. PICK k \in 0..Bits : k = e + 1
    BY <1>1, <1>2, <1>9
  <2>2. A!Pow2[k] = 2 * p
    BY <1>3, <2>1
  <2>3. x.high = c * A!Pow2[k] /\ z.high < A!Pow2[k]
    BY <1>3, <1>7, <1>8, <2>2 DEF h
  <2>4. x.high \in A!CellValues /\ z.high \in A!CellValues
    BY <1>6, CellsAre
  <2> QED BY <1>7, <1>8, <2>3, <2>4, BitOrIs
<1>11. A!BitOr(x.low, z.low) = 0
  <2>1. 0 \in A!CellValues
    BY <1>0, CellsAre
  <2> QED BY <1>7, <1>8, <2>1, OrZero
<1>12. A!DoubleOr(x, z) = A!Pair(h + p, 0) /\ h + p \in A!CellValues /\ 0 \in A!CellValues
  BY <1>10, <1>11, <1>0, CellsAre, BitOrTyped DEF A!DoubleOr
<1>13. A!Natural(A!DoubleOr(x, z)) = (h + p) * A!Span + 0 /\ A!DoubleOr(x, z) \in A!Double
  BY <1>12, PairFacts
<1>14. (h + p) * A!Span = h * A!Span + p * A!Span /\ h * A!Span \in Int /\ p * A!Span \in Int
  BY <1>3, <1>4, SpanNat
<1> QED BY <1>5, <1>13, <1>14

LEMMA DoubleOrLow ==
  ASSUME NEW x \in A!Double, NEW z \in A!Double, NEW m \in Nat, NEW c \in Nat,
         A!Natural(z) = A!Pow2[m], A!Natural(x) = c * (2 * A!Pow2[m]), m < Bits
  PROVE  /\ A!DoubleOr(x, z) \in A!Double
         /\ A!Natural(A!DoubleOr(x, z)) = A!Natural(x) + A!Natural(z)
<1>1. Bits \in Nat /\ A!Span = A!Pow2[Bits]
  BY PowerSpan
<1> DEFINE e == Bits - (m + 1)
           p == A!Pow2[m]
           d == A!Pow2[e]
           w == 2 * p
<1>2. e \in Nat /\ m + 1 \in Nat /\ m + 1 <= Bits
  BY <1>1
<1>3. A!Span = w * d /\ p \in Nat \ {0} /\ A!Pow2[m + 1] = w /\ d \in Nat \ {0} /\ w \in Nat \ {0}
  <2>1. A!Pow2[m + 1] = 2 * A!Pow2[m]
    BY Powers
  <2>2. A!Pow2[Bits] = A!Pow2[m + 1] * A!Pow2[e]
    BY <1>1, <1>2, PowMore
  <2>3. A!Pow2[m] \in Nat \ {0} /\ A!Pow2[e] \in Nat \ {0}
    BY <1>2, Pow2Nat
  <2> QED BY <1>1, <2>1, <2>2, <2>3
<1>4. p < A!Span
  <2>1. w <= A!Span
    BY <1>1, <1>2, <1>3, PowMore
  <2> HIDE DEF p
  <2> QED BY <1>3, <2>1, SpanNat
<1> HIDE DEF d
<1>5. A!Natural(x) = c * w /\ A!Natural(z) = p
  OBVIOUS
<1>0. PICK zero \in Int : zero = 0
  OBVIOUS
<1>6. /\ x.high \in 0..A!Span - 1 /\ x.low \in 0..A!Span - 1
      /\ A!Natural(x) = x.high * A!Span + x.low
      /\ z.high \in 0..A!Span - 1 /\ z.low \in 0..A!Span - 1
      /\ A!Natural(z) = z.high * A!Span + z.low
      /\ x = A!Pair(x.high, x.low) /\ z = A!Pair(z.high, z.low)
  BY DoubleFacts
<1> HIDE DEF p
<1>7. z.high = 0 /\ z.low = p
  <2>1. z.high * A!Span + z.low = zero * A!Span + p /\ z.high \in Int /\ p \in 0..A!Span - 1
    BY <1>0, <1>3, <1>4, <1>5, <1>6, SpanNat
  <2> QED BY <1>0, <1>6, <2>1, SpanNat, Uniquely
<1> DEFINE h == x.high
           g == c - h * d
<1> HIDE DEF w
<1>8. x.low = g * w /\ g \in Nat
  <2>0. h \in Nat /\ h * d \in Int /\ h * A!Span \in Int
    BY <1>3, <1>6, SpanNat
  <2>1. h * A!Span = (h * d) * w
    <3> HIDE DEF h
    <3>1. h * (w * d) = (h * d) * w
      BY <1>3, <2>0
    <3> QED BY <1>3, <3>1
  <2> DEFINE hd == h * d
  <2> HIDE DEF hd
  <2>2. g * w = c * w - hd * w /\ g \in Int
    BY <1>3, <2>0 DEF hd
  <2>3. x.low = c * w - hd * w
    <3>1. c * w = hd * w + x.low
      BY <1>5, <1>6, <2>1 DEF hd
    <3>2. c * w \in Int /\ hd * w \in Int /\ x.low \in Int
      BY <1>3, <1>6, <2>0, SpanNat DEF hd
    <3> QED BY <3>1, <3>2
  <2> HIDE DEF g
  <2>4. ASSUME g < 0 PROVE FALSE
    <3>1. (g + 1) * w <= 0 * w
      BY <1>3, <2>2, <2>4, Times
    <3>2. (g + 1) * w = g * w + w /\ g * w \in Int
      BY <1>3, <2>2
    <3> QED BY <1>3, <1>6, <2>2, <2>3, <3>1, <3>2
  <2> QED BY <2>2, <2>3, <2>4
<1> HIDE DEF g, h
<1>9. A!BitOr(x.low, z.low) = x.low + p
  <2>1. PICK k \in 0..Bits : k = m + 1
    BY <1>1, <1>2
  <2>2. x.low = g * A!Pow2[k] /\ z.low < A!Pow2[k]
    BY <1>3, <1>7, <1>8, <2>1 DEF w
  <2>4. x.low \in A!CellValues /\ z.low \in A!CellValues
    BY <1>6, CellsAre
  <2> QED BY <1>7, <1>8, <2>2, <2>4, BitOrIs
<1>10. A!BitOr(x.high, z.high) = x.high
  BY <1>6, <1>7, CellsAre, OrZero
<1>11. A!DoubleOr(x, z) = A!Pair(x.high, x.low + p)
       /\ x.high \in A!CellValues /\ x.low + p \in A!CellValues
  BY <1>6, <1>9, <1>10, CellsAre, BitOrTyped DEF A!DoubleOr
<1>12. A!Natural(A!DoubleOr(x, z)) = x.high * A!Span + (x.low + p) /\ A!DoubleOr(x, z) \in A!Double
  BY <1>11, PairFacts
<1>13. x.high * A!Span \in Int /\ x.low \in Int /\ p \in Int
  BY <1>3, <1>6, SpanNat
<1>14. x.high * A!Span + (x.low + p) = (x.high * A!Span + x.low) + p
  BY <1>13
<1>15. A!Natural(x) = x.high * A!Span + x.low
  BY <1>6
<1>16. A!Natural(z) = p
  BY <1>5
<1> QED BY <1>12, <1>14, <1>15, <1>16

LEMMA DoubleOrIs ==
  ASSUME NEW x \in A!Double, NEW z \in A!Double, NEW m \in Nat, NEW c \in Nat,
         A!Natural(z) = A!Pow2[m], A!Natural(x) = c * (2 * A!Pow2[m])
  PROVE  /\ A!DoubleOr(x, z) \in A!Double
         /\ A!Natural(A!DoubleOr(x, z)) = A!Natural(x) + A!Natural(z)
<1>1. m >= Bits \/ m < Bits
  BY PowerSpan
<1> QED BY <1>1, DoubleOrHigh, DoubleOrLow
(* The first loop of the division. *)
ScaleRounds == [mask : A!Double, subtrahend : A!Double]

Scaling(y) == [mask |-> A!One, subtrahend |-> A!Pair(0, y)]

ScaledBy(q, y, f) ==
  f = [i \in 0..(2 * Bits) |-> IF i = 0 THEN Scaling(y) ELSE A!ScaleRound(q, f[i - 1])]

LEMMA ScaleRoundTyped ==
  ASSUME NEW q, NEW r \in ScaleRounds PROVE A!ScaleRound(q, r) \in ScaleRounds
<1>1. r.mask \in A!Double /\ r.subtrahend \in A!Double
  BY DEF ScaleRounds
<1> QED BY <1>1, ShiftLeftIs DEF A!ScaleRound, ScaleRounds

LEMMA ScalingTyped ==
  ASSUME NEW y \in A!CellValues
  PROVE  /\ Scaling(y) \in ScaleRounds
         /\ A!Natural(Scaling(y).mask) = 1 /\ A!Natural(Scaling(y).subtrahend) = y
<1>1. 0 \in A!CellValues
  BY SpanNat, CellsAre
<1>2. 0 * A!Span + y = y
  BY SpanNat, CellsAre
<1> QED BY <1>1, <1>2, PairFacts, ZeroOne DEF Scaling, ScaleRounds

LEMMA ScalingUp ==
  ASSUME NEW q, NEW y \in A!CellValues
  PROVE  \E f \in [0..(2 * Bits) -> ScaleRounds] :
           /\ A!Scaled(q, y) = f[2 * Bits]
           /\ f[0] = Scaling(y) /\ \A i \in 1..(2 * Bits) : f[i] = A!ScaleRound(q, f[i - 1])
<1> DEFINE step == [r \in ScaleRounds |-> A!ScaleRound(q, r)]
           n == 2 * Bits
           F == CHOOSE f : ScaledBy(q, y, f)
<1>1. step \in [ScaleRounds -> ScaleRounds] /\ Scaling(y) \in ScaleRounds
  BY ScaleRoundTyped, ScalingTyped
<1>2. n \in Nat
  BY PowerSpan
<1>6. A!Scaled(q, y) = F[n]
  BY Zenon DEF A!Scaled, ScaledBy, Scaling
<1>0. ASSUME NEW f PROVE ScaledBy(q, y, f) <=>
        f = [i \in 0..n |-> IF i = 0 THEN Scaling(y) ELSE A!ScaleRound(q, f[i - 1])]
  BY DEF ScaledBy
<1> HIDE DEF step, n
<1>3. PICK g \in [0..n -> ScaleRounds] : Repeats(g, n, Scaling(y), step)
  BY <1>1, <1>2, Repeated
<1>4. ScaledBy(q, y, g)
  <2>1. ASSUME NEW i \in 0..n, i # 0 PROVE step[g[i - 1]] = A!ScaleRound(q, g[i - 1])
    <3>1. i - 1 \in 0..n
      BY <1>2, <2>1
    <3> QED BY <1>3, <3>1 DEF step
  <2> QED BY <1>0, <1>3, <2>1 DEF Repeats
<1>5. ScaledBy(q, y, F)
  BY <1>4
<1> HIDE DEF F
<1>7. F = [i \in 0..n |-> IF i = 0 THEN Scaling(y) ELSE A!ScaleRound(q, F[i - 1])]
  BY <1>0, <1>5
<1>8. F[0] = Scaling(y)
  BY <1>2, <1>7
<1>9. ASSUME NEW i \in 1..n PROVE F[i] = A!ScaleRound(q, F[i - 1])
  BY <1>2, <1>7
<1>10. F \in [0..n -> ScaleRounds]
  <2> DEFINE RoundsOK == {i \in 0..n : F[i] \in ScaleRounds}
  <2>1. 0 \in RoundsOK
    BY <1>1, <1>2, <1>8
  <2>2. ASSUME NEW i \in 1..n, i - 1 \in RoundsOK PROVE i \in RoundsOK
    BY <1>2, <1>9, <2>2, ScaleRoundTyped
  <2> HIDE DEF RoundsOK
  <2>3. \A i \in 0..n : i \in RoundsOK
    BY <1>2, <2>1, <2>2, UpTo
  <2> QED BY <1>7, <2>3 DEF RoundsOK
<1> QED BY <1>6, <1>8, <1>9, <1>10 DEF n

(* The mask is the power of two that the divisor is multiplied by.         *)
ScaleInv(r, y, k) ==
  A!Natural(r.mask) = A!Pow2[k] /\ A!Natural(r.subtrahend) = y * A!Pow2[k] /\ k < 2 * Bits

ScaleEnded(q, r) == ~ (A!Below(r.subtrahend, q) /\ ~ A!HasHighBit(r.subtrahend.high))

LEMMA ScaleStep ==
  ASSUME NEW q, NEW y \in A!CellValues, NEW r \in ScaleRounds, NEW k \in Nat,
         y # 0, ScaleInv(r, y, k), ~ ScaleEnded(q, r)
  PROVE  ScaleInv(A!ScaleRound(q, r), y, k + 1)
<1> DEFINE m == A!Natural(r.mask)
           s == A!Natural(r.subtrahend)
           p == A!Pow2[k]
           t == A!ScaleRound(q, r)
<1>1. r.mask \in A!Double /\ r.subtrahend \in A!Double
  BY DEF ScaleRounds
<1>2. t.mask = A!ShiftLeft(r.mask) /\ t.subtrahend = A!ShiftLeft(r.subtrahend)
  BY DEF A!ScaleRound, ScaleEnded
<1>3. s < Half
  <2>1. ~ A!IsNegative(r.subtrahend)
    BY DEF ScaleEnded, A!IsNegative
  <2>2. s \in Int /\ Half \in Int
    BY <1>1, DoubleFacts, HalfFacts, SquareFacts
  <2> QED BY <1>1, <2>1, <2>2, NumberIs
<1>4. m = p /\ s = y * p
  BY DEF ScaleInv
<1>5. y \in Nat \ {0} /\ p \in Nat \ {0}
  BY SpanNat, CellsAre, Pow2Nat
<1>6. p <= y * p
  <2>1. 1 * p <= y * p
    BY <1>5, Times
  <2> QED BY <1>5, <2>1
<1>7. A!Pow2[k + 1] = 2 * p
  BY Powers
<1>8. y * p \in Nat /\ 2 * (y * p) < Square /\ 2 * p < Square
  <2>1. y * p \in Nat
    BY <1>5, NatTimes
  <2> HIDE DEF p
  <2> QED BY <1>3, <1>4, <1>5, <1>6, <2>1, HalfFacts
<1>9. A!Natural(t.mask) = 2 * p
  BY <1>1, <1>2, <1>4, <1>8, ShiftLeftIs
<1>10. A!Natural(t.subtrahend) = 2 * (y * p)
  BY <1>1, <1>2, <1>4, <1>8, ShiftLeftIs
<1>11. 2 * (y * p) = y * (2 * p)
  <2> HIDE DEF p
  <2> QED BY <1>5
<1>12. k + 1 < 2 * Bits
  <2>1. ASSUME ~ k + 1 < 2 * Bits PROVE FALSE
    <3>1. 2 * Bits \in Nat /\ 2 * Bits <= k + 1 /\ k + 1 \in Nat
      BY <2>1, PowerSpan
    <3>2. A!Pow2[2 * Bits] <= A!Pow2[k + 1]
      BY <3>1, PowMore
    <3> HIDE DEF p
    <3> QED BY <1>5, <1>7, <1>8, <3>2, SquareFacts
  <2> QED BY <2>1
<1> QED BY <1>7, <1>9, <1>10, <1>11, <1>12 DEF ScaleInv

LEMMA ScaledIs ==
  ASSUME NEW q \in A!Double, NEW y \in A!CellValues, y # 0
  PROVE  /\ A!Scaled(q, y) \in ScaleRounds
         /\ \E k \in Nat : /\ ScaleInv(A!Scaled(q, y), y, k)
                           /\ A!Natural(q) < 2 * (y * A!Pow2[k])
<1> DEFINE n == 2 * Bits
<1>1. PICK f \in [0..n -> ScaleRounds] :
           /\ A!Scaled(q, y) = f[n]
           /\ f[0] = Scaling(y) /\ \A i \in 1..n : f[i] = A!ScaleRound(q, f[i - 1])
  BY ScalingUp
<1>2. n \in Nat /\ n >= 1
  BY PowerSpan
<1> HIDE DEF n
<1> DEFINE Good == {i \in 0..n : \E k \in Nat : ScaleInv(f[i], y, k) /\ (k = i \/ ScaleEnded(q, f[i]))}
<1>3. 0 \in Good
  <2>0. PICK k \in Nat : k = 0
    OBVIOUS
  <2>1. A!Pow2[k] = 1
    BY <2>0, Powers
  <2>2. y * 1 = y
    BY SpanNat, CellsAre
  <2>3. ScaleInv(Scaling(y), y, k)
    BY <1>2, <2>0, <2>1, <2>2, ScalingTyped DEF ScaleInv, n
  <2> QED BY <1>1, <1>2, <2>0, <2>3
<1>4. ASSUME NEW i \in 1..n, i - 1 \in Good PROVE i \in Good
  <2>1. f[i] = A!ScaleRound(q, f[i - 1]) /\ f[i - 1] \in ScaleRounds /\ i \in 0..n
    BY <1>1, <1>2
  <2>2. PICK k \in Nat : ScaleInv(f[i - 1], y, k) /\ (k = i - 1 \/ ScaleEnded(q, f[i - 1]))
    BY <1>4
  <2>3. CASE ScaleEnded(q, f[i - 1])
    <3>1. f[i] = f[i - 1]
      BY <2>1, <2>3 DEF ScaleEnded, A!ScaleRound
    <3> QED BY <2>1, <2>2, <2>3, <3>1
  <2>4. CASE ~ ScaleEnded(q, f[i - 1])
    <3>1. ScaleInv(f[i], y, k + 1)
      BY <2>1, <2>2, <2>4, ScaleStep
    <3>2. k + 1 = i /\ k + 1 \in Nat
      BY <1>2, <2>2, <2>4
    <3> QED BY <2>1, <3>1, <3>2
  <2> QED BY <2>3, <2>4
<1> HIDE DEF Good
<1>5. n \in Good
  BY <1>2, <1>3, <1>4, UpTo
<1>6. f[n] \in ScaleRounds
  BY <1>1, <1>2
<1> DEFINE r == f[n]
<1>7. PICK k \in Nat : ScaleInv(r, y, k) /\ (k = n \/ ScaleEnded(q, r))
  BY <1>5 DEF Good
<1>8. ScaleEnded(q, r)
  BY <1>2, <1>7 DEF ScaleInv, n
<1> HIDE DEF r
<1>9. r.subtrahend \in A!Double
  BY <1>6 DEF ScaleRounds, r
<1> DEFINE s == A!Natural(r.subtrahend)
<1>10. s = y * A!Pow2[k]
  BY <1>7 DEF ScaleInv
<1>11. s \in Nat \ {0} /\ A!Natural(q) \in Nat /\ A!Natural(q) < Square
  <2>1. y \in Nat \ {0} /\ A!Pow2[k] \in Nat \ {0}
    BY SpanNat, CellsAre, Pow2Nat
  <2>2. 1 * A!Pow2[k] <= y * A!Pow2[k]
    BY <2>1, Times
  <2>3. s \in Nat
    BY <1>9, DoubleFacts, SquareFacts
  <2>4. A!Natural(q) \in 0..Square - 1
    BY DoubleFacts
  <2> QED BY <1>10, <2>1, <2>2, <2>3, <2>4, SquareFacts
<1>12. A!Natural(q) < 2 * s
  <2>1. CASE ~ A!Below(r.subtrahend, q)
    <3>1. ~ s < A!Natural(q)
      BY <1>9, <2>1, BelowIs
    <3> HIDE DEF s
    <3> QED BY <1>11, <3>1
  <2>2. CASE A!HasHighBit(r.subtrahend.high)
    <3>1. s >= Half
      BY <1>9, <2>2, NumberIs DEF A!IsNegative
    <3> HIDE DEF s
    <3> QED BY <1>11, <3>1, HalfFacts
  <2> QED BY <1>8, <2>1, <2>2 DEF ScaleEnded
<1> QED BY <1>1, <1>6, <1>7, <1>10, <1>12 DEF r
(* The second loop. *)
ReduceRounds ==
  [mask : A!Double, subtrahend : A!Double, q : A!Double, quotient : A!Double]

Reducing(q, by) ==
  [mask |-> by.mask, subtrahend |-> by.subtrahend, q |-> q, quotient |-> A!Zero]

ReducedBy(q, by, f) ==
  f = [i \in 0..(2 * Bits) |-> IF i = 0 THEN Reducing(q, by) ELSE A!ReduceRound(f[i - 1])]

LEMMA DoubleOrTyped == ASSUME NEW x, NEW y PROVE A!DoubleOr(x, y) \in A!Double
BY BitOrTyped, PairFacts DEF A!DoubleOr

LEMMA ReduceRoundTyped ==
  ASSUME NEW r \in ReduceRounds PROVE A!ReduceRound(r) \in ReduceRounds
<1>1. /\ r.mask \in A!Double /\ r.subtrahend \in A!Double
      /\ r.q \in A!Double /\ r.quotient \in A!Double
  BY DEF ReduceRounds
<1> QED BY <1>1, ShiftRightIs, DoubleOrTyped, Typed DEF A!ReduceRound, ReduceRounds

LEMMA ReducingDown ==
  ASSUME NEW q \in A!Double, NEW by \in ScaleRounds
  PROVE  \E f \in [0..(2 * Bits) -> ReduceRounds] :
           /\ A!Reduced(q, by) =
                [quotient |-> f[2 * Bits].quotient, remainder |-> f[2 * Bits].q.low]
           /\ f[0] = Reducing(q, by) /\ \A i \in 1..(2 * Bits) : f[i] = A!ReduceRound(f[i - 1])
<1> DEFINE step == [r \in ReduceRounds |-> A!ReduceRound(r)]
           n == 2 * Bits
           F == CHOOSE f : ReducedBy(q, by, f)
<1>1. step \in [ReduceRounds -> ReduceRounds] /\ Reducing(q, by) \in ReduceRounds
  BY ReduceRoundTyped, ZeroOne DEF Reducing, ReduceRounds, ScaleRounds
<1>2. n \in Nat
  BY PowerSpan
<1>6. A!Reduced(q, by) = [quotient |-> F[n].quotient, remainder |-> F[n].q.low]
  BY Zenon DEF A!Reduced, ReducedBy, Reducing
<1>0. ASSUME NEW f PROVE ReducedBy(q, by, f) <=>
        f = [i \in 0..n |-> IF i = 0 THEN Reducing(q, by) ELSE A!ReduceRound(f[i - 1])]
  BY DEF ReducedBy
<1> HIDE DEF step, n
<1>3. PICK g \in [0..n -> ReduceRounds] : Repeats(g, n, Reducing(q, by), step)
  BY <1>1, <1>2, Repeated
<1>4. ReducedBy(q, by, g)
  <2>1. ASSUME NEW i \in 0..n, i # 0 PROVE step[g[i - 1]] = A!ReduceRound(g[i - 1])
    <3>1. i - 1 \in 0..n
      BY <1>2, <2>1
    <3> QED BY <1>3, <3>1 DEF step
  <2> QED BY <1>0, <1>3, <2>1 DEF Repeats
<1>5. ReducedBy(q, by, F)
  BY <1>4
<1> HIDE DEF F
<1>7. F = [i \in 0..n |-> IF i = 0 THEN Reducing(q, by) ELSE A!ReduceRound(F[i - 1])]
  BY <1>0, <1>5
<1>8. F[0] = Reducing(q, by)
  BY <1>2, <1>7
<1>9. ASSUME NEW i \in 1..n PROVE F[i] = A!ReduceRound(F[i - 1])
  BY <1>2, <1>7
<1>10. F \in [0..n -> ReduceRounds]
  <2> DEFINE RoundsOK == {i \in 0..n : F[i] \in ReduceRounds}
  <2>1. 0 \in RoundsOK
    BY <1>1, <1>2, <1>8
  <2>2. ASSUME NEW i \in 1..n, i - 1 \in RoundsOK PROVE i \in RoundsOK
    BY <1>2, <1>9, <2>2, ReduceRoundTyped
  <2> HIDE DEF RoundsOK
  <2>3. \A i \in 0..n : i \in RoundsOK
    BY <1>2, <2>1, <2>2, UpTo
  <2> QED BY <1>7, <2>3 DEF RoundsOK
<1> QED BY <1>6, <1>8, <1>9, <1>10 DEF n

(* What is taken from the dividend is what the quotient says; the mask     *)
(* stands below the quotient's bits, until there is none.                  *)
Taken(r, d, y) == d = A!Natural(r.quotient) * y + A!Natural(r.q)

ReduceInv(r, d, y, k) ==
  /\ Taken(r, d, y)
  /\ A!Natural(r.mask) = A!Pow2[k] /\ A!Natural(r.subtrahend) = y * A!Pow2[k]
  /\ A!Natural(r.q) < 2 * (y * A!Pow2[k])
  /\ \E c \in Nat : A!Natural(r.quotient) = c * (2 * A!Pow2[k])

ReduceEnded(r, d, y) == Taken(r, d, y) /\ r.mask = A!Zero /\ A!Natural(r.q) < y

(* The conditional subtraction. *)
LEMMA ReduceTakes ==
  ASSUME NEW d \in Nat, NEW y \in Nat \ {0}, NEW r \in ReduceRounds, NEW k \in Nat,
         ReduceInv(r, d, y, k)
  PROVE  /\ Taken(A!ReduceRound(r), d, y)
         /\ A!Natural(A!ReduceRound(r).q) < y * A!Pow2[k]
         /\ \E e \in Nat : A!Natural(A!ReduceRound(r).quotient) = e * A!Pow2[k]
         /\ A!ReduceRound(r).mask = A!ShiftRight(r.mask)
         /\ A!ReduceRound(r).subtrahend = A!ShiftRight(r.subtrahend)
<1> DEFINE t == A!ReduceRound(r)
           p == A!Pow2[k]
           m == A!Natural(r.quotient)
           a == A!Natural(r.q)
<1>1. /\ r.mask \in A!Double /\ r.subtrahend \in A!Double
      /\ r.q \in A!Double /\ r.quotient \in A!Double
  BY DEF ReduceRounds
<1>2. p \in Nat \ {0} /\ a \in Nat /\ m \in Nat
  BY <1>1, Pow2Nat, DoubleFacts, SquareFacts
<1>3. PICK c \in Nat : m = c * (2 * p)
  BY DEF ReduceInv
<1>4. A!Natural(r.mask) = p /\ A!Natural(r.subtrahend) = y * p /\ a < 2 * (y * p) /\ d = m * y + a
  BY DEF ReduceInv, Taken
<1>5. r.mask # A!Zero
  BY <1>2, <1>4, ZeroOne
<1>6. A!Below(r.q, r.subtrahend) <=> a < y * p
  BY <1>1, <1>4, BelowIs
<1>7. /\ t.mask = A!ShiftRight(r.mask) /\ t.subtrahend = A!ShiftRight(r.subtrahend)
      /\ t.q = IF A!Below(r.q, r.subtrahend) THEN r.q ELSE A!Subtract(r.q, r.subtrahend)
      /\ t.quotient = IF A!Below(r.q, r.subtrahend) THEN r.quotient
                      ELSE A!DoubleOr(r.quotient, r.mask)
  BY <1>5 DEF A!ReduceRound
<1> HIDE DEF t
<1>8. y * p \in Nat
  BY <1>2, NatTimes
<1>9. CASE a < y * p
  <2>1. t.q = r.q /\ t.quotient = r.quotient
    BY <1>6, <1>7, <1>9
  <2>2. m = (c * 2) * p /\ c * 2 \in Nat
    <3> HIDE DEF p, m
    <3> QED BY <1>2, <1>3
  <2> QED BY <1>4, <1>7, <1>9, <2>1, <2>2 DEF Taken, t
<1>10. CASE ~ a < y * p
  <2>1. t.q = A!Subtract(r.q, r.subtrahend) /\ t.quotient = A!DoubleOr(r.quotient, r.mask)
    BY <1>6, <1>7, <1>10
  <2>2. A!Natural(t.q) = a - y * p
    <3>1. A!Natural(r.subtrahend) <= A!Natural(r.q)
      <4> HIDE DEF p
      <4> QED BY <1>2, <1>4, <1>8, <1>10
    <3> QED BY <1>1, <1>4, <2>1, <3>1, SubtractIs
  <2>3. A!Natural(t.quotient) = m + p
    BY <1>1, <1>3, <1>4, <2>1, DoubleOrIs
  <2> DEFINE e == 2 * c + 1
  <2> HIDE DEF p, m, a
  <2>4. m + p = e * p /\ e \in Nat
    BY <1>2, <1>3
  <2>5. d = (m + p) * y + (a - y * p)
    <3>1. (m + p) * y = m * y + y * p /\ m * y \in Int
      BY <1>2
    <3> QED BY <1>2, <1>4, <1>8, <3>1
  <2>6. a - y * p < y * p
    BY <1>2, <1>4, <1>8
  <2> QED BY <1>7, <2>2, <2>3, <2>4, <2>5, <2>6 DEF Taken, t, p
<1> QED BY <1>9, <1>10

LEMMA ReduceStep ==
  ASSUME NEW d \in Nat, NEW y \in Nat \ {0}, NEW r \in ReduceRounds, NEW k \in Nat,
         ReduceInv(r, d, y, k + 1)
  PROVE  ReduceInv(A!ReduceRound(r), d, y, k)
<1> DEFINE t == A!ReduceRound(r)
           p == A!Pow2[k]
           w == A!Pow2[k + 1]
<1>1. r.mask \in A!Double /\ r.subtrahend \in A!Double /\ k + 1 \in Nat
  BY DEF ReduceRounds
<1>2. w = 2 * p /\ p \in Nat \ {0}
  BY Powers, Pow2Nat
<1>3. /\ Taken(t, d, y) /\ A!Natural(t.q) < y * w
      /\ \E e \in Nat : A!Natural(t.quotient) = e * w
      /\ t.mask = A!ShiftRight(r.mask) /\ t.subtrahend = A!ShiftRight(r.subtrahend)
  BY <1>1, ReduceTakes
<1>4. A!Natural(r.mask) = w /\ A!Natural(r.subtrahend) = y * w
  BY DEF ReduceInv
<1>5. /\ A!ShiftRight(r.mask) \in A!Double /\ A!ShiftRight(r.subtrahend) \in A!Double
      /\ \E b \in {0, 1} : A!Natural(r.mask) = 2 * A!Natural(A!ShiftRight(r.mask)) + b
      /\ \E b \in {0, 1} : A!Natural(r.subtrahend) = 2 * A!Natural(A!ShiftRight(r.subtrahend)) + b
  BY <1>1, ShiftRightIs
<1>6. A!Natural(A!ShiftRight(r.mask)) \in Nat /\ A!Natural(A!ShiftRight(r.subtrahend)) \in Nat
  BY <1>5, DoubleFacts, SquareFacts
<1> HIDE DEF t, p, w
<1>7. y * w = 2 * (y * p) /\ y * p \in Nat
  <2>1. y * p \in Nat
    BY <1>2, NatTimes
  <2>2. y * (2 * p) = 2 * (y * p)
    BY <1>2
  <2> QED BY <1>2, <2>1, <2>2
<1>8. A!Natural(t.mask) = p
  BY <1>2, <1>3, <1>4, <1>5, <1>6
<1>9. A!Natural(t.subtrahend) = y * p
  BY <1>3, <1>4, <1>5, <1>6, <1>7
<1>10. A!Natural(t.q) < 2 * (y * p)
  BY <1>3, <1>7
<1>11. \E e \in Nat : A!Natural(t.quotient) = e * (2 * p)
  BY <1>2, <1>3
<1> QED BY <1>3, <1>8, <1>9, <1>10, <1>11 DEF ReduceInv, t, p

LEMMA ReduceLast ==
  ASSUME NEW d \in Nat, NEW y \in Nat \ {0}, NEW r \in ReduceRounds, NEW k \in Nat, k = 0,
         ReduceInv(r, d, y, k)
  PROVE  ReduceEnded(A!ReduceRound(r), d, y)
<1> DEFINE t == A!ReduceRound(r)
<1>1. r.mask \in A!Double
  BY DEF ReduceRounds
<1>2. A!Pow2[k] = 1
  BY Powers
<1>3. Taken(t, d, y) /\ A!Natural(t.q) < y * 1 /\ t.mask = A!ShiftRight(r.mask)
  BY <1>2, ReduceTakes
<1>4. A!Natural(r.mask) = 1
  BY <1>2 DEF ReduceInv
<1>5. A!ShiftRight(r.mask) \in A!Double
      /\ \E b \in {0, 1} : A!Natural(r.mask) = 2 * A!Natural(A!ShiftRight(r.mask)) + b
  BY <1>1, ShiftRightIs
<1>6. A!Natural(A!ShiftRight(r.mask)) = 0
  <2>1. A!Natural(A!ShiftRight(r.mask)) \in Nat
    BY <1>5, DoubleFacts, SquareFacts
  <2> QED BY <1>4, <1>5, <2>1
<1>7. t.mask = A!Zero
  BY <1>3, <1>5, <1>6, ZeroOne, NaturalOnce
<1>8. y * 1 = y
  OBVIOUS
<1> QED BY <1>3, <1>7, <1>8 DEF ReduceEnded

LEMMA ReduceAfter ==
  ASSUME NEW d, NEW y, NEW r, ReduceEnded(r, d, y)
  PROVE  ReduceEnded(A!ReduceRound(r), d, y)
BY DEF ReduceEnded, A!ReduceRound

(* ficl2UnsignedDivide by any cell leaves a double and a cell, by one that *)
(* is not zero the quotient and the remainder.                             *)
LEMMA DivideTyped ==
  ASSUME NEW q \in A!Double, NEW y \in A!CellValues
  PROVE  A!Divide(q, y).quotient \in A!Double /\ A!Divide(q, y).remainder \in A!CellValues
<1> DEFINE n == 2 * Bits
<1>1. A!Scaled(q, y) \in ScaleRounds
  <2>1. PICK f \in [0..n -> ScaleRounds] : A!Scaled(q, y) = f[n]
    BY ScalingUp
  <2>2. n \in 0..n
    BY PowerSpan
  <2> QED BY <2>1, <2>2
<1>2. PICK f \in [0..n -> ReduceRounds] :
        A!Reduced(q, A!Scaled(q, y)) = [quotient |-> f[n].quotient, remainder |-> f[n].q.low]
  BY <1>1, ReducingDown
<1>3. n \in 0..n
  BY PowerSpan
<1> HIDE DEF n
<1>4. f[n] \in ReduceRounds
  BY <1>2, <1>3
<1>5. f[n].quotient \in A!Double /\ f[n].q \in A!Double
  BY <1>4 DEF ReduceRounds
<1>6. f[n].q.low \in A!CellValues
  BY <1>5 DEF A!Double
<1> QED BY <1>2, <1>5, <1>6 DEF A!Divide

LEMMA DivideIs ==
  ASSUME NEW q \in A!Double, NEW y \in A!CellValues, y # 0
  PROVE  /\ A!Divide(q, y).quotient \in A!Double /\ A!Divide(q, y).remainder \in 0..y - 1
         /\ A!Natural(q) = A!Natural(A!Divide(q, y).quotient) * y + A!Divide(q, y).remainder
<1> DEFINE n == 2 * Bits
           d == A!Natural(q)
           by == A!Scaled(q, y)
<1>1. PICK k \in Nat : by \in ScaleRounds /\ ScaleInv(by, y, k) /\ d < 2 * (y * A!Pow2[k])
  BY ScaledIs
<1>2. PICK f \in [0..n -> ReduceRounds] :
        /\ A!Divide(q, y) = [quotient |-> f[n].quotient, remainder |-> f[n].q.low]
        /\ f[0] = Reducing(q, by) /\ \A i \in 1..n : f[i] = A!ReduceRound(f[i - 1])
  BY <1>1, ReducingDown DEF A!Divide
<1>3. n \in Nat /\ k < n /\ d \in Nat /\ y \in Nat \ {0}
  BY <1>1, PowerSpan, SpanNat, CellsAre, DoubleFacts, SquareFacts DEF ScaleInv
<1> HIDE DEF by
<1> DEFINE At(i) == IF i <= k THEN ReduceInv(f[i], d, y, k - i) ELSE ReduceEnded(f[i], d, y)
           Good == {i \in 0..n : At(i)}
<1>4. 0 \in Good
  <2>1. k - 0 = k /\ 0 <= k
    BY <1>1
  <2>2. /\ f[0].mask = by.mask /\ f[0].subtrahend = by.subtrahend
        /\ f[0].q = q /\ f[0].quotient = A!Zero
    BY <1>2 DEF Reducing
  <2>3. Taken(f[0], d, y)
    <3>1. d = 0 * y + d
      BY <1>3
    <3> QED BY <2>2, <3>1, ZeroOne DEF Taken
  <2>4. \E c \in Nat : 0 = c * (2 * A!Pow2[k])
    <3>1. A!Pow2[k] \in Nat
      BY Pow2Nat
    <3>2. 0 * (2 * A!Pow2[k]) = 0
      BY <3>1
    <3> QED BY <3>2
  <2>5. ReduceInv(f[0], d, y, k)
    BY <1>1, <2>2, <2>3, <2>4, ZeroOne DEF ReduceInv, ScaleInv
  <2> QED BY <1>3, <2>1, <2>5
<1>5. ASSUME NEW i \in 1..n, i - 1 \in Good PROVE i \in Good
  <2>1. f[i] = A!ReduceRound(f[i - 1]) /\ f[i - 1] \in ReduceRounds /\ i \in 0..n /\ At(i - 1)
    BY <1>2, <1>3, <1>5
  <2>2. CASE i <= k
    <3>1. k - i \in Nat /\ k - (i - 1) = (k - i) + 1 /\ i - 1 <= k
      BY <2>2, <1>1, <1>3
    <3>2. ReduceInv(f[i - 1], d, y, (k - i) + 1)
      BY <2>1, <3>1
    <3>3. ReduceInv(f[i], d, y, k - i)
      BY <1>3, <2>1, <3>1, <3>2, ReduceStep
    <3> QED BY <2>1, <2>2, <3>3
  <2>3. CASE i = k + 1
    <3>1. k - (i - 1) = 0 /\ i - 1 <= k /\ ~ i <= k
      BY <2>3, <1>1, <1>3
    <3>0. PICK zero \in Nat : zero = 0
      OBVIOUS
    <3>2. ReduceInv(f[i - 1], d, y, zero)
      BY <2>1, <3>0, <3>1
    <3>3. ReduceEnded(f[i], d, y)
      BY <1>3, <2>1, <3>0, <3>2, ReduceLast
    <3> QED BY <2>1, <3>1, <3>3
  <2>4. CASE i > k + 1
    <3>1. ~ i - 1 <= k /\ ~ i <= k
      BY <2>4, <1>1, <1>3
    <3>2. ReduceEnded(f[i - 1], d, y)
      BY <2>1, <3>1
    <3>3. ReduceEnded(f[i], d, y)
      BY <2>1, <3>2, ReduceAfter
    <3> QED BY <2>1, <3>1, <3>3
  <2>5. i <= k \/ i = k + 1 \/ i > k + 1
    BY <1>1, <1>3
  <2> QED BY <2>2, <2>3, <2>4, <2>5
<1> HIDE DEF Good, n
<1>6. n \in Good
  <2>1. n \in Nat /\ n \in 0..n
    BY <1>3
  <2>2. \A i \in 0..n : i \in Good
    BY <1>4, <1>5, <2>1, UpTo
  <2> QED BY <2>1, <2>2
<1>7. ReduceEnded(f[n], d, y) /\ f[n] \in ReduceRounds
  BY <1>1, <1>2, <1>3, <1>6 DEF Good
<1> DEFINE r == f[n]
<1> HIDE DEF r
<1>8. r.q \in A!Double /\ r.quotient \in A!Double
  BY <1>7 DEF ReduceRounds, r
<1>9. d = A!Natural(r.quotient) * y + A!Natural(r.q) /\ A!Natural(r.q) < y
  BY <1>7 DEF ReduceEnded, Taken, r
<1>10. A!Natural(r.q) = r.q.low /\ r.q.low \in Nat
  <2> DEFINE h == r.q.high
             l == r.q.low
  <2>1. h \in Nat /\ l \in Nat /\ A!Natural(r.q) = h * A!Span + l
    BY <1>8, DoubleFacts, SpanNat
  <2> HIDE DEF h, l
  <2>2. ASSUME h # 0 PROVE FALSE
    <3>1. 1 * A!Span <= h * A!Span
      BY <2>1, <2>2, SpanNat, Times
    <3>2. h * A!Span \in Int /\ y < A!Span
      BY <2>1, SpanNat, CellsAre
    <3> QED BY <1>3, <1>9, <2>1, <3>1, <3>2, SpanNat
  <2>3. h * A!Span = 0
    BY <2>2, SpanNat
  <2> QED BY <2>1, <2>3 DEF l
<1>11. r.q.low \in 0..y - 1
  BY <1>3, <1>9, <1>10
<1>12. A!Divide(q, y).quotient = r.quotient /\ A!Divide(q, y).remainder = r.q.low
  BY <1>2 DEF r
<1> QED BY <1>8, <1>9, <1>10, <1>11, <1>12
(* Numbers that are as many spans apart have the same cell. *)
LEMMA WrapSame ==
  ASSUME NEW m \in Int, NEW n \in Int, NEW q \in Int, m = q * A!Span + n
  PROVE  A!Wrap(m) = A!Wrap(n)
<1>1. A!Wrap(n) \in A!CellValues
  BY WrapSome
<1>2. PICK p \in Int : n = p * A!Span + A!Wrap(n)
  BY WrapSome
<1> DEFINE w == A!Wrap(n)
<1> HIDE DEF w
<1>3. w \in A!CellValues /\ n = p * A!Span + w /\ w \in Int
  BY <1>1, <1>2, SpanNat, CellsAre DEF w
<1>4. PICK s \in Int : s = q + p
  OBVIOUS
<1>5. m = s * A!Span + w
  <2>1. (q + p) * A!Span = q * A!Span + p * A!Span /\ q * A!Span \in Int /\ p * A!Span \in Int
    BY SpanNat
  <2> QED BY <1>3, <1>4, <2>1
<1>6. A!Wrap(m) = w
  BY <1>3, <1>5, WrapIs
<1> QED BY <1>6 DEF w

LEMMA LowIs ==
  ASSUME NEW x \in A!Double
  PROVE  x.low = A!Wrap(A!Natural(x)) /\ A!Negate(x).low = A!Wrap(- A!Natural(x))
<1> DEFINE h == x.high
           l == x.low
<1>1. h \in Nat /\ l \in Nat /\ l \in A!CellValues /\ A!Natural(x) = h * A!Span + l
  BY DoubleFacts, SpanNat, CellsAre
<1>2. A!Negate(x).low = A!Wrap(A!Span - l)
  BY DEF A!Negate, A!Pair
<1> HIDE DEF h, l
<1>3. A!Natural(x) \in Int /\ h * A!Span \in Int
  BY <1>1, SpanNat
<1>4. l = A!Wrap(A!Natural(x))
  BY <1>1, <1>3, WrapIs
<1>5. A!Wrap(- A!Natural(x)) = A!Wrap(A!Span - l)
  <2>1. PICK q \in Int : q = - h - 1
    BY <1>1
  <2>2. q * A!Span = - (h * A!Span) - A!Span
    BY <1>1, <2>1, SpanNat
  <2>3. PICK m \in Int, n \in Int : m = - A!Natural(x) /\ n = A!Span - l
    BY <1>1, <1>3, SpanNat
  <2>4. m = q * A!Span + n
    BY <1>1, <1>3, <2>2, <2>3, SpanNat
  <2>5. A!Wrap(m) = A!Wrap(n)
    BY <2>4, WrapSame
  <2> QED BY <2>3, <2>5
<1> QED BY <1>2, <1>4, <1>5 DEF l

LEMMA QuotientIs ==
  ASSUME NEW a \in Nat, NEW b \in Nat \ {0}, NEW q \in Nat, NEW r \in 0..b - 1, a = q * b + r
  PROVE  a \div b = q /\ (- a) \div b = IF r = 0 THEN - q ELSE - q - 1
<1>1. a \div b = q
  BY DivModIs
<1>2. q * b \in Int
  OBVIOUS
<1>3. CASE r = 0
  <2>1. PICK m \in Int, p \in Int, s \in 0..b - 1 : m = - a /\ p = - q /\ s = 0
    OBVIOUS
  <2>2. p * b = - (q * b)
    BY <2>1
  <2>3. m = p * b + s
    BY <1>2, <1>3, <2>1, <2>2
  <2>4. m \div b = p
    BY <2>3, DivModIs
  <2> QED BY <1>1, <1>3, <2>1, <2>4
<1>4. CASE r # 0
  <2>1. PICK m \in Int, p \in Int, s \in 0..b - 1 : m = - a /\ p = - q - 1 /\ s = b - r
    BY <1>4
  <2>2. p * b = - (q * b) - b
    BY <2>1
  <2>3. m = p * b + s
    BY <1>2, <2>1, <2>2
  <2>4. m \div b = p
    BY <2>3, DivModIs
  <2> QED BY <1>1, <1>4, <2>1, <2>4
<1> QED BY <1>3, <1>4

(* What the signed divisions begin with. *)
MagnDouble(d) == IF A!IsNegative(d) THEN A!Negate(d) ELSE d

LEMMA MagnDoubleIs ==
  ASSUME NEW d \in A!Double
  PROVE  /\ MagnDouble(d) \in A!Double
         /\ A!Number(d) = IF A!IsNegative(d) THEN - A!Natural(MagnDouble(d))
                          ELSE A!Natural(MagnDouble(d))
         /\ A!IsNegative(d) <=> A!Number(d) < 0
<1>1. A!Natural(d) \in Nat /\ A!Natural(d) < Square
  BY DoubleFacts, SquareFacts
<1>2. CASE A!IsNegative(d)
  <2>1. A!Natural(d) >= Half /\ A!Number(d) = A!Natural(d) - Square
    BY <1>2, NumberIs
  <2>2. A!Natural(d) # 0
    BY <1>1, <2>1, HalfFacts
  <2>3. A!Negate(d) \in A!Double /\ A!Natural(A!Negate(d)) = Square - A!Natural(d)
    BY <2>2, NegateIs
  <2> QED BY <1>1, <1>2, <2>1, <2>3, SquareFacts DEF MagnDouble
<1>3. CASE ~ A!IsNegative(d)
  <2>1. A!Number(d) = A!Natural(d)
    BY <1>3, NumberIs
  <2> QED BY <1>1, <1>3, <2>1 DEF MagnDouble
<1> QED BY <1>2, <1>3

LEMMA DividingFacts ==
  ASSUME NEW d \in A!Double, NEW u \in A!CellValues, u # 0
  PROVE  \E a \in Nat, b \in Nat \ {0}, q \in Nat, r \in Nat :
           /\ r < b /\ r \in A!CellValues /\ b \in A!CellValues /\ a = q * b + r
           /\ A!Number(d) = IF A!IsNegative(d) THEN - a ELSE a
           /\ A!IsNegative(d) <=> A!Number(d) < 0
           /\ A!Signed(u) = IF A!HasHighBit(u) THEN - b ELSE b
           /\ A!HasHighBit(u) <=> A!Signed(u) < 0
           /\ b = Magn(u)
           /\ A!Magnitudes(d, u).remainder = r
           /\ A!Magnitudes(d, u).quotient \in A!Double
           /\ q = A!Natural(A!Magnitudes(d, u).quotient)
<1> DEFINE x == MagnDouble(d)
           y == Magn(u)
           qr == A!Divide(x, y)
<1>1. /\ x \in A!Double /\ A!Number(d) = IF A!IsNegative(d) THEN - A!Natural(x) ELSE A!Natural(x)
      /\ A!IsNegative(d) <=> A!Number(d) < 0
  BY MagnDoubleIs
<1>2. /\ y \in A!CellValues /\ y # 0 /\ A!Signed(u) = IF A!HasHighBit(u) THEN - y ELSE y
      /\ A!HasHighBit(u) <=> A!Signed(u) < 0
  BY SignedIs
<1>3. A!Magnitudes(d, u) = qr
  BY DEF A!Magnitudes, MagnDouble, Magn
<1> HIDE DEF x, y
<1>4. /\ qr.quotient \in A!Double /\ qr.remainder \in 0..y - 1
      /\ A!Natural(x) = A!Natural(qr.quotient) * y + qr.remainder
  BY <1>1, <1>2, DivideIs
<1> HIDE DEF qr
<1>5. A!Natural(x) \in Nat /\ A!Natural(qr.quotient) \in Nat /\ y \in Nat \ {0}
  BY <1>1, <1>2, <1>4, DoubleFacts, SquareFacts, SpanNat, CellsAre
<1>6. qr.remainder \in A!CellValues /\ qr.remainder \in Nat /\ qr.remainder < y
  BY <1>2, <1>4, <1>5, SpanNat, CellsAre
<1> QED BY <1>1, <1>2, <1>3, <1>4, <1>5, <1>6 DEF y

(* UM/MOD *)
LEMMA DivideLeaves ==
  ASSUME NEW d \in A!Double, NEW u \in A!CellValues, u # 0
  PROVE  A!Leaves(A!Divide(d, u), A!Natural(d), u, A!Natural(d) \div u)
<1> DEFINE qr == A!Divide(d, u)
<1>1. /\ qr.quotient \in A!Double /\ qr.remainder \in 0..u - 1
      /\ A!Natural(d) = A!Natural(qr.quotient) * u + qr.remainder
  BY DivideIs
<1>2. PICK a \in Nat, b \in Nat \ {0}, q \in Nat, r \in 0..u - 1 :
        a = A!Natural(d) /\ b = u /\ q = A!Natural(qr.quotient) /\ r = qr.remainder
  <2>1. A!Natural(d) \in Nat /\ A!Natural(qr.quotient) \in Nat
    BY <1>1, DoubleFacts, SquareFacts
  <2>2. u \in Nat \ {0}
    BY SpanNat, CellsAre
  <2> HIDE DEF qr
  <2> QED BY <1>1, <2>1, <2>2
<1>3. a = q * b + r
  BY <1>1, <1>2
<1>4. a \div b = q
  <2>1. r \in 0..b - 1
    BY <1>2
  <2> QED BY <1>3, <2>1, QuotientIs
<1>5. qr.quotient.low = A!Wrap(q)
  BY <1>1, <1>2, LowIs
<1>6. a - q * b = r
  BY <1>3
<1>7. r \in A!CellValues
  BY <1>2, SpanNat, CellsAre
<1>8. A!Wrap(a - q * b) = r
  BY <1>6, <1>7, WrapSmall
<1> HIDE DEF qr
<1> QED BY <1>2, <1>4, <1>5, <1>8 DEF A!Leaves, qr

(* SM/REM *)
LEMMA SymmetricLeaves ==
  ASSUME NEW d \in A!Double, NEW u \in A!CellValues, u # 0
  PROVE  A!Leaves(A!DivideSymmetric(d, u), A!Number(d), A!Signed(u),
                  A!Towards0(A!Number(d), A!Signed(u)))
<1> DEFINE qr == A!Magnitudes(d, u)
           s == A!DivideSymmetric(d, u)
           dn == A!IsNegative(d)
           un == A!HasHighBit(u)
           Num == A!Number(d)
           n == A!Signed(u)
<1>1. PICK a \in Nat, b \in Nat \ {0}, q \in Nat, r \in Nat :
           /\ r < b /\ r \in A!CellValues /\ b \in A!CellValues /\ a = q * b + r
           /\ Num = IF dn THEN - a ELSE a
           /\ dn <=> Num < 0
           /\ n = IF un THEN - b ELSE b
           /\ un <=> n < 0
           /\ b = Magn(u)
           /\ qr.remainder = r
           /\ qr.quotient \in A!Double
           /\ q = A!Natural(qr.quotient)
  BY DividingFacts
<1>2. a \div b = q
  BY <1>1, QuotientIs
<1>3. /\ s.quotient = IF dn # un THEN A!Negate(qr.quotient) ELSE qr.quotient
      /\ s.remainder = IF dn THEN A!Minus(r) ELSE r
  BY <1>1 DEF A!DivideSymmetric
<1>4. dn \in BOOLEAN /\ un \in BOOLEAN
  BY DEF A!IsNegative, A!HasHighBit
<1>5. qr.quotient.low = A!Wrap(q) /\ A!Negate(qr.quotient).low = A!Wrap(- q)
  BY <1>1, LowIs
<1> HIDE DEF qr, s, dn, un, Num, n
<1>6. A!Magnitude(Num) = a /\ A!Magnitude(n) = b
  BY <1>1 DEF A!Magnitude
<1>7. A!Towards0(Num, n) = IF dn # un THEN - q ELSE q
  <2>1. (Num < 0) = (n < 0) <=> dn = un
    BY <1>1, <1>4
  <2> QED BY <1>2, <1>6, <2>1 DEF A!Towards0
<1> DEFINE t == A!Towards0(Num, n)
<1>8. s.quotient.low = A!Wrap(t)
  BY <1>3, <1>5, <1>7
<1>9. Num - t * n = IF dn THEN - r ELSE r
  <2>0. q * b \in Int /\ (- q) * b = - (q * b) /\ (- q) * (- b) = q * b /\ q * (- b) = - (q * b)
    BY <1>1
  <2>1. CASE dn /\ un
    <3>1. t = q /\ n = - b /\ Num = - a
      BY <1>1, <1>4, <1>7, <2>1
    <3> HIDE DEF t
    <3> QED BY <1>1, <2>0, <2>1, <3>1
  <2>2. CASE dn /\ ~ un
    <3>1. t = - q /\ n = b /\ Num = - a
      BY <1>1, <1>4, <1>7, <2>2
    <3> HIDE DEF t
    <3> QED BY <1>1, <2>0, <2>2, <3>1
  <2>3. CASE ~ dn /\ un
    <3>1. t = - q /\ n = - b /\ Num = a
      BY <1>1, <1>4, <1>7, <2>3
    <3> HIDE DEF t
    <3> QED BY <1>1, <2>0, <2>3, <3>1
  <2>4. CASE ~ dn /\ ~ un
    <3>1. t = q /\ n = b /\ Num = a
      BY <1>1, <1>4, <1>7, <2>4
    <3> HIDE DEF t
    <3> QED BY <1>1, <2>0, <2>4, <3>1
  <2> QED BY <1>4, <2>1, <2>2, <2>3, <2>4
<1>10. s.remainder = A!Wrap(Num - t * n)
  BY <1>1, <1>3, <1>9, WrapSmall DEF A!Minus
<1> HIDE DEF t
<1>11. A!Leaves(s, Num, n, t)
  BY <1>8, <1>10 DEF A!Leaves
<1> QED BY <1>11 DEF s, Num, n, t

(* FM/MOD *)
LEMMA FlooredLeaves ==
  ASSUME NEW d \in A!Double, NEW u \in A!CellValues, u # 0
  PROVE  A!Leaves(A!DivideFloored(d, u), A!Number(d), A!Signed(u),
                  A!Floor(A!Number(d), A!Signed(u)))
<1> DEFINE qr == A!Magnitudes(d, u)
           s == A!DivideFloored(d, u)
           dn == A!IsNegative(d)
           un == A!HasHighBit(u)
           Num == A!Number(d)
           n == A!Signed(u)
<1>1. PICK a \in Nat, b \in Nat \ {0}, q \in Nat, r \in Nat :
           /\ r < b /\ r \in A!CellValues /\ b \in A!CellValues /\ a = q * b + r
           /\ Num = IF dn THEN - a ELSE a
           /\ dn <=> Num < 0
           /\ n = IF un THEN - b ELSE b
           /\ un <=> n < 0
           /\ b = Magn(u)
           /\ qr.remainder = r
           /\ qr.quotient \in A!Double
           /\ q = A!Natural(qr.quotient)
  BY DividingFacts
<1>2. a \div b = q /\ (- a) \div b = IF r = 0 THEN - q ELSE - q - 1
  BY <1>1, QuotientIs
<1> DEFINE uneven == dn # un /\ r # 0
           left == IF uneven THEN A!Wrap(b - r) ELSE r
<1>3. /\ s.quotient = IF uneven THEN A!Decrement(A!Negate(qr.quotient))
                      ELSE IF dn # un THEN A!Negate(qr.quotient) ELSE qr.quotient
      /\ s.remainder = IF un THEN A!Minus(left) ELSE left
  BY <1>1 DEF A!DivideFloored, Magn
<1>4. dn \in BOOLEAN /\ un \in BOOLEAN
  BY DEF A!IsNegative, A!HasHighBit
<1>5. qr.quotient.low = A!Wrap(q) /\ A!Negate(qr.quotient).low = A!Wrap(- q)
  BY <1>1, LowIs
<1>6. A!Decrement(A!Negate(qr.quotient)).low = A!Wrap(- q - 1)
  <2>1. A!Decrement(A!Negate(qr.quotient)).low = A!Wrap(A!Wrap(- q) - 1)
    BY <1>5 DEF A!Decrement, A!Pair
  <2>2. PICK w \in Int, m \in Int, p \in Int :
          w = A!Wrap(- q) - 1 /\ m = - q - 1 /\ - q = p * A!Span + A!Wrap(- q)
    <3>1. - q \in Int
      BY <1>1
    <3>2. A!Wrap(- q) \in Int
      BY <3>1, WrapSome, SpanNat, CellsAre
    <3>3. \E p \in Int : - q = p * A!Span + A!Wrap(- q)
      BY <3>1, WrapSome
    <3> QED BY <1>1, <3>2, <3>3
  <2>3. m = p * A!Span + w
    <3>1. p * A!Span \in Int /\ A!Wrap(- q) \in Int /\ q \in Int
      BY <1>1, WrapSome, SpanNat, CellsAre
    <3> QED BY <2>2, <3>1
  <2>4. A!Wrap(m) = A!Wrap(w)
    BY <2>3, WrapSame
  <2> QED BY <2>1, <2>2, <2>4
<1> DEFINE t == A!Floor(Num, n)
<1>7. t = IF dn = un THEN q ELSE IF r = 0 THEN - q ELSE - q - 1
  <2> HIDE DEF Num, n, dn, un
  <2>1. CASE un
    <3>1. n < 0 /\ - n = b /\ - Num = IF dn THEN a ELSE - a
      BY <1>1, <2>1
    <3>2. t = (- Num) \div b
      BY <3>1 DEF A!Floor
    <3> HIDE DEF t
    <3>3. CASE dn
      BY <1>2, <1>4, <2>1, <3>1, <3>2, <3>3
    <3>4. CASE ~ dn
      BY <1>2, <1>4, <2>1, <3>1, <3>2, <3>4
    <3> QED BY <3>3, <3>4
  <2>2. CASE ~ un
    <3>1. ~ n < 0 /\ n = b /\ Num = IF dn THEN - a ELSE a
      BY <1>1, <2>2
    <3>2. t = Num \div b
      BY <3>1 DEF A!Floor
    <3> HIDE DEF t
    <3>3. CASE dn
      BY <1>2, <1>4, <2>2, <3>1, <3>2, <3>3
    <3>4. CASE ~ dn
      BY <1>2, <1>4, <2>2, <3>1, <3>2, <3>4
    <3> QED BY <3>3, <3>4
  <2> QED BY <2>1, <2>2
<1> HIDE DEF qr, s, dn, un, Num, n
<1>8. s.quotient.low = A!Wrap(t)
  <2> HIDE DEF t
  <2>1. CASE dn = un
    BY <1>3, <1>5, <1>7, <2>1
  <2>2. CASE dn # un /\ r = 0
    BY <1>3, <1>5, <1>7, <2>2
  <2>3. CASE dn # un /\ r # 0
    BY <1>3, <1>6, <1>7, <2>3
  <2> QED BY <2>1, <2>2, <2>3
<1>9. left \in A!CellValues /\ left = IF uneven THEN b - r ELSE r
  <2>0. b < A!Span
    BY <1>1, SpanNat, CellsAre
  <2>1. ASSUME r # 0 PROVE b - r \in A!CellValues
    <3>1. r \in Nat \ {0} /\ r < b /\ b \in Nat
      BY <1>1, <2>1
    <3> QED BY <2>0, <3>1, SpanNat, CellsAre
  <2> QED BY <1>1, <2>1, WrapSmall
<1>10. Num - t * n = IF un THEN - left ELSE left
  <2>0. /\ q * b \in Int /\ (- q) * b = - (q * b) /\ (- q) * (- b) = q * b
        /\ q * (- b) = - (q * b)
        /\ (- q - 1) * b = - (q * b) - b /\ (- q - 1) * (- b) = q * b + b
    BY <1>1
  <2>1. left = IF dn # un /\ r # 0 THEN b - r ELSE r
    BY <1>9
  <2> HIDE DEF t, left
  <2>2. CASE dn /\ un
    <3>1. t = q /\ n = - b /\ Num = - a /\ left = r
      BY <1>1, <1>4, <1>7, <2>1, <2>2
    <3> QED BY <1>1, <2>0, <2>2, <3>1
  <2>3. CASE ~ dn /\ ~ un
    <3>1. t = q /\ n = b /\ Num = a /\ left = r
      BY <1>1, <1>4, <1>7, <2>1, <2>3
    <3> QED BY <1>1, <2>0, <2>3, <3>1
  <2>4. CASE dn /\ ~ un /\ r = 0
    <3>1. t = - q /\ n = b /\ Num = - a /\ left = r
      BY <1>1, <1>4, <1>7, <2>1, <2>4
    <3> QED BY <1>1, <2>0, <2>4, <3>1
  <2>5. CASE dn /\ ~ un /\ r # 0
    <3>1. t = - q - 1 /\ n = b /\ Num = - a /\ left = b - r
      BY <1>1, <1>4, <1>7, <2>1, <2>5
    <3> QED BY <1>1, <2>0, <2>5, <3>1
  <2>6. CASE ~ dn /\ un /\ r = 0
    <3>1. t = - q /\ n = - b /\ Num = a /\ left = r
      BY <1>1, <1>4, <1>7, <2>1, <2>6
    <3> QED BY <1>1, <2>0, <2>6, <3>1
  <2>7. CASE ~ dn /\ un /\ r # 0
    <3>1. t = - q - 1 /\ n = - b /\ Num = a /\ left = b - r
      BY <1>1, <1>4, <1>7, <2>1, <2>7
    <3> QED BY <1>1, <2>0, <2>7, <3>1
  <2> QED BY <2>2, <2>3, <2>4, <2>5, <2>6, <2>7
<1> HIDE DEF left
<1>11. s.remainder = A!Wrap(Num - t * n)
  BY <1>3, <1>9, <1>10, WrapSmall DEF A!Minus
<1> HIDE DEF t
<1>12. A!Leaves(s, Num, n, t)
  BY <1>8, <1>11 DEF A!Leaves
<1> QED BY <1>12 DEF s, Num, n, t
(* D< *)
LEMMA SignedBelowIs ==
  ASSUME NEW x \in A!Double, NEW y \in A!Double
  PROVE  A!SignedBelow(x, y) = (A!Number(x) < A!Number(y))
<1> DEFINE a == A!Natural(x)
           b == A!Natural(y)
<1>1. /\ A!IsNegative(x) <=> a >= Half
      /\ A!Number(x) = IF a >= Half THEN a - Square ELSE a
      /\ A!IsNegative(y) <=> b >= Half
      /\ A!Number(y) = IF b >= Half THEN b - Square ELSE b
  BY NumberIs
<1>2. a \in Nat /\ b \in Nat /\ a < Square /\ b < Square
  BY DoubleFacts, SquareFacts
<1>3. A!Below(x, y) <=> a < b
  BY BelowIs
<1>4. /\ A!Negate(x) \in A!Double /\ A!Natural(A!Negate(x)) = IF a = 0 THEN 0 ELSE Square - a
      /\ A!Negate(y) \in A!Double /\ A!Natural(A!Negate(y)) = IF b = 0 THEN 0 ELSE Square - b
  BY NegateIs
<1>5. A!Below(A!Negate(y), A!Negate(x)) <=> A!Natural(A!Negate(y)) < A!Natural(A!Negate(x))
  BY <1>4, BelowIs
<1> HIDE DEF a, b
<1>6. CASE A!IsNegative(x) /\ A!IsNegative(y)
  <2>1. a >= Half /\ b >= Half /\ a # 0 /\ b # 0
    BY <1>1, <1>2, <1>6, HalfFacts
  <2>2. A!SignedBelow(x, y) <=> A!Natural(A!Negate(y)) < A!Natural(A!Negate(x))
    BY <1>5, <1>6 DEF A!SignedBelow
  <2>3. Square - b < Square - a <=> a - Square < b - Square
    BY <1>2, SquareFacts
  <2>4. A!SignedBelow(x, y) \in BOOLEAN
    BY <1>6 DEF A!SignedBelow, A!Below
  <2> QED BY <1>1, <1>4, <2>1, <2>2, <2>3, <2>4
<1>7. CASE ~ (A!IsNegative(x) /\ A!IsNegative(y))
  <2>1. A!SignedBelow(x, y) <=> A!IsNegative(x) \/ (~ A!IsNegative(y) /\ A!Below(x, y))
    BY <1>7 DEF A!SignedBelow
  <2>2. A!Number(x) < A!Number(y) <=> a >= Half \/ (~ b >= Half /\ a < b)
    BY <1>1, <1>2, <1>7, HalfFacts
  <2>4. A!SignedBelow(x, y) \in BOOLEAN
    BY <1>7 DEF A!SignedBelow, A!IsNegative, A!HasHighBit
  <2> QED BY <1>1, <1>3, <2>1, <2>2, <2>4
<1> QED BY <1>6, <1>7

(* ISQRT *)
RootRounds == [s : Int, rem : Int, root : Int]

Rooting(s) == [s |-> s, rem |-> 0, root |-> 0]

RootBy(s, f) ==
  f = [i \in 0..(Bits \div 2) |-> IF i = 0 THEN Rooting(s) ELSE A!RootRound(f[i - 1])]

LEMMA HalfBits ==
  \E n \in Nat \ {0} : n = Bits \div 2 /\ Bits = 2 * n
<1>1. Bits \in Nat /\ Bits >= 2 /\ Bits % 2 = 0
  BY DoublesAssumption DEF A!DoublesAssumption
<1> QED BY <1>1

LEMMA RootRoundTyped ==
  ASSUME NEW r \in RootRounds PROVE A!RootRound(r) \in RootRounds
<1>1. r.s \in Int /\ r.rem \in Int /\ r.root \in Int
  BY DEF RootRounds
<1>2. A!Wrap(2 * r.root) \in Int /\ A!Wrap(4 * r.s) \in Int
  <2>1. 2 * r.root \in Int /\ 4 * r.s \in Int
    BY <1>1
  <2>2. A!Wrap(2 * r.root) \in A!CellValues /\ A!Wrap(4 * r.s) \in A!CellValues
    BY <2>1, WrapSome
  <2> QED BY <2>2, SpanNat, CellsAre
<1>3. ASSUME NEW a, NEW b PROVE A!BitOr(a, b) \in Int
  <2>1. A!BitOr(a, b) \in A!CellValues
    BY BitOrTyped
  <2> QED BY <2>1, SpanNat, CellsAre
<1> DEFINE root == A!Wrap(2 * r.root)
           rem == A!BitOr(A!Wrap(4 * r.rem), r.s \div A!Pow2[Bits - 2])
           s == A!Wrap(4 * r.s)
<1>4. root \in Int /\ rem \in Int /\ s \in Int
  BY <1>2, <1>3
<1>5. A!Wrap(rem - A!BitOr(root, 1)) \in Int
  <2>1. A!BitOr(root, 1) \in Int
    BY <1>3
  <2>2. rem - A!BitOr(root, 1) \in Int
    BY <1>4, <2>1
  <2> QED BY <2>2, WrapSome, SpanNat, CellsAre
<1>6. A!RootRound(r) =
        IF root < rem THEN [s |-> s, rem |-> A!Wrap(rem - A!BitOr(root, 1)), root |-> root + 2]
        ELSE [s |-> s, rem |-> rem, root |-> root]
  BY DEF A!RootRound
<1> HIDE DEF root, rem, s
<1> QED BY <1>4, <1>5, <1>6 DEF RootRounds

LEMMA RootingUp ==
  ASSUME NEW s \in Int
  PROVE  \E f \in [0..(Bits \div 2) -> RootRounds] :
           /\ A!Root(s) = IF s > 1 THEN f[Bits \div 2].root \div 2 ELSE s
           /\ f[0] = Rooting(s) /\ \A i \in 1..(Bits \div 2) : f[i] = A!RootRound(f[i - 1])
<1> DEFINE step == [r \in RootRounds |-> A!RootRound(r)]
           n == Bits \div 2
           F == CHOOSE f : RootBy(s, f)
<1>1. step \in [RootRounds -> RootRounds] /\ Rooting(s) \in RootRounds
  BY RootRoundTyped DEF Rooting, RootRounds
<1>2. n \in Nat
  BY HalfBits
<1>6. A!Root(s) = IF s > 1 THEN F[n].root \div 2 ELSE s
  BY Zenon DEF A!Root, RootBy, Rooting
<1>0. ASSUME NEW f PROVE RootBy(s, f) <=>
        f = [i \in 0..n |-> IF i = 0 THEN Rooting(s) ELSE A!RootRound(f[i - 1])]
  BY DEF RootBy
<1> HIDE DEF step, n
<1>3. PICK g \in [0..n -> RootRounds] : Repeats(g, n, Rooting(s), step)
  BY <1>1, <1>2, Repeated
<1>4. RootBy(s, g)
  <2>1. ASSUME NEW i \in 0..n, i # 0 PROVE step[g[i - 1]] = A!RootRound(g[i - 1])
    <3>1. i - 1 \in 0..n
      BY <1>2, <2>1
    <3> QED BY <1>3, <3>1 DEF step
  <2>2. g = [i \in 0..n |-> IF i = 0 THEN Rooting(s) ELSE step[g[i - 1]]]
    BY <1>3 DEF Repeats
  <2>3. [i \in 0..n |-> IF i = 0 THEN Rooting(s) ELSE step[g[i - 1]]]
          = [i \in 0..n |-> IF i = 0 THEN Rooting(s) ELSE A!RootRound(g[i - 1])]
    BY <2>1, Zenon
  <2> QED BY <1>0, <2>2, <2>3, Zenon
<1>5. RootBy(s, F)
  BY <1>4
<1> HIDE DEF F
<1>7. F = [i \in 0..n |-> IF i = 0 THEN Rooting(s) ELSE A!RootRound(F[i - 1])]
  BY <1>0, <1>5
<1>8. F[0] = Rooting(s)
  BY <1>2, <1>7
<1>9. ASSUME NEW i \in 1..n PROVE F[i] = A!RootRound(F[i - 1])
  BY <1>2, <1>7
<1>10. F \in [0..n -> RootRounds]
  <2> DEFINE RoundsOK == {i \in 0..n : F[i] \in RootRounds}
  <2>1. 0 \in RoundsOK
    BY <1>1, <1>2, <1>8
  <2>2. ASSUME NEW i \in 1..n, i - 1 \in RoundsOK PROVE i \in RoundsOK
    BY <1>2, <1>9, <2>2, RootRoundTyped
  <2> HIDE DEF RoundsOK
  <2>3. \A i \in 0..n : i \in RoundsOK
    BY <1>2, <2>1, <2>2, UpTo
  <2> QED BY <1>7, <2>3 DEF RoundsOK
<1> QED BY <1>6, <1>8, <1>9, <1>10 DEF n

(* After i rounds the root of the first 2 * i bits of s is found, and what *)
(* it leaves of them; the other bits stand at the top of r.s.              *)
RootInv(r, s, w, p, root, top, low) ==
  /\ r.root = 2 * root /\ top = root * root + r.rem
  /\ r.rem >= 0 /\ r.rem <= 2 * root
  /\ s = top * w + low /\ low < w /\ r.s = low * p

LEMMA RootStep ==
  ASSUME NEW s \in A!CellValues, NEW r \in RootRounds, NEW m \in Nat, NEW v \in Nat,
         m + v + 2 = Bits,
         NEW root \in Nat, NEW top \in Nat, NEW low \in Nat,
         RootInv(r, s, A!Pow2[v + 2], A!Pow2[m], root, top, low)
  PROVE  \E root2 \in Nat, top2 \in Nat, low2 \in Nat :
           RootInv(A!RootRound(r), s, A!Pow2[v], A!Pow2[m + 2], root2, top2, low2)
<1> DEFINE p == A!Pow2[m]
           w == A!Pow2[v]
           c == A!Pow2[Bits - 2]
           t == A!RootRound(r)
           rem == r.rem
<1>1. Bits - 2 = m + v /\ m + v \in Nat /\ Bits \in Nat
  BY PowerSpan
<1>2. /\ A!Pow2[v + 2] = 4 * w /\ A!Pow2[m + 2] = 4 * p
      /\ w \in Nat \ {0} /\ p \in Nat \ {0} /\ c \in Nat \ {0}
      /\ c = p * w /\ A!Span = 4 * c
  <2>1. A!Pow2[v + 1] = 2 * A!Pow2[v] /\ A!Pow2[m + 1] = 2 * A!Pow2[m]
        /\ A!Pow2[(m + v) + 1] = 2 * A!Pow2[m + v]
    BY <1>1, Powers
  <2>2. v + 1 \in Nat /\ m + 1 \in Nat /\ (m + v) + 1 \in Nat
    BY <1>1
  <2>3. A!Pow2[(v + 1) + 1] = 2 * A!Pow2[v + 1] /\ A!Pow2[(m + 1) + 1] = 2 * A!Pow2[m + 1]
        /\ A!Pow2[((m + v) + 1) + 1] = 2 * A!Pow2[(m + v) + 1]
    BY <2>2, Powers
  <2>4. (v + 1) + 1 = v + 2 /\ (m + 1) + 1 = m + 2 /\ ((m + v) + 1) + 1 = Bits
    BY <1>1
  <2>5. A!Pow2[m + v] = A!Pow2[m] * A!Pow2[v]
    BY PowAdd
  <2>6. A!Pow2[v] \in Nat \ {0} /\ A!Pow2[m] \in Nat \ {0} /\ A!Pow2[m + v] \in Nat \ {0}
    BY <1>1, Pow2Nat
  <2>7. A!Span = A!Pow2[Bits]
    BY PowerSpan
  <2>8. A!Pow2[v + 2] = 4 * A!Pow2[v] /\ A!Pow2[m + 2] = 4 * A!Pow2[m]
    BY <2>1, <2>3, <2>4, <2>6
  <2>9. A!Span = 4 * A!Pow2[m + v]
    BY <2>1, <2>3, <2>4, <2>6, <2>7
  <2> QED BY <1>1, <2>5, <2>6, <2>8, <2>9
<1>3. /\ r.root = 2 * root /\ top = root * root + rem
      /\ rem \in Nat /\ rem <= 2 * root
      /\ s = top * (4 * w) + low /\ low < 4 * w /\ r.s = low * p
  BY <1>2 DEF RootInv, RootRounds
<1>4. s \in Nat /\ s < A!Span
  BY SpanNat, CellsAre
<1> HIDE DEF p, w, rem
<1>5. PICK tb \in Nat, rest \in 0..w - 1 : low = tb * w + rest /\ tb <= 3
  <2>1. PICK q \in Int, d \in 0..w - 1 : low = q * w + d
    <3>1. w \in Nat \ {0} /\ low \in Int
      BY <1>2
    <3>2. \E q \in Int, d \in 0..w - 1 : q = low \div w /\ d = low % w /\ low = q * w + d
      BY <3>1, DivMod, Zenon
    <3> QED BY <3>2
  <2>2. ASSUME q < 0 PROVE FALSE
    <3>1. (q + 1) * w <= 0 * w
      BY <1>2, <2>1, <2>2, Times
    <3>2. (q + 1) * w = q * w + w /\ q * w \in Int
      BY <1>2, <2>1
    <3> QED BY <1>2, <2>1, <3>1, <3>2
  <2>3. ASSUME q > 3 PROVE FALSE
    <3>1. 4 * w <= q * w
      BY <1>2, <2>1, <2>3, Times
    <3>2. q * w \in Int
      BY <1>2, <2>1
    <3> QED BY <1>2, <1>3, <2>1, <3>1, <3>2
  <2>4. q \in Nat /\ q <= 3
    BY <2>1, <2>2, <2>3
  <2> QED BY <2>1, <2>4
<1> DEFINE g == rest * p
<1>6. g \in Nat /\ g < c
  <2>1. (rest + 1) * p <= w * p
    BY <1>2, <1>5, Times
  <2>2. (rest + 1) * p = rest * p + p /\ w * p = p * w
    BY <1>2, <1>5
  <2>3. rest * p \in Nat
    BY <1>2, <1>5, NatTimes
  <2> HIDE DEF c
  <2> QED BY <1>2, <2>1, <2>2, <2>3
<1>7. r.s = tb * c + g
  <2>1. (tb * w + rest) * p = tb * (p * w) + rest * p
    BY <1>2, <1>5
  <2> HIDE DEF g, c
  <2> QED BY <1>2, <1>3, <1>5, <2>1 DEF g
<1> HIDE DEF c, g
<1>8. r.s \div c = tb
  <2>1. PICK n \in Int, q \in Int, d \in 0..c - 1 : n = r.s /\ q = tb /\ d = g
    BY <1>2, <1>5, <1>6, <1>7
  <2>2. n = q * c + d
    BY <1>7, <2>1
  <2>3. n \div c = q
    BY <1>2, <2>2, DivModIs
  <2> QED BY <2>1, <2>3
<1>9. A!Wrap(4 * r.s) = 4 * g
  <2>1. PICK n \in Int, q \in Int, d \in A!CellValues : n = 4 * r.s /\ q = tb /\ d = 4 * g
    BY <1>2, <1>5, <1>6, <1>7, SpanNat, CellsAre
  <2>2. n = q * A!Span + d
    <3>1. tb * A!Span = 4 * (tb * c)
      BY <1>2, <1>5
    <3>2. tb * c \in Int
      BY <1>2, <1>5
    <3> QED BY <1>6, <1>7, <2>1, <3>1, <3>2
  <2> QED BY <2>1, <2>2, WrapIs
<1>10. 4 * g = rest * (4 * p)
  BY <1>2, <1>5 DEF g
<1>11. top < c \/ top = 0
  <2>1. top * (4 * w) <= s /\ top * (4 * w) \in Int
    BY <1>2, <1>3, <1>4
  <2>2. 4 * top < A!Span
    <3>1. 1 * (4 * top) <= w * (4 * top)
      BY <1>2, Times
    <3>2. w * (4 * top) = top * (4 * w)
      BY <1>2
    <3> QED BY <1>2, <1>4, <2>1, <3>1, <3>2
  <2> QED BY <1>2, <2>2
<1>12. root <= top /\ rem <= top
  <2>1. root * root \in Nat
    BY NatTimes
  <2>2. CASE root = 0
    BY <1>3, <2>1, <2>2
  <2>3. CASE root # 0
    <3>1. 1 * root <= root * root
      BY <2>3, Times
    <3> QED BY <1>3, <2>1, <3>1
  <2> QED BY <2>2, <2>3
<1>13. 4 * top + 3 < A!Span
  BY <1>2, <1>11
<1>14. A!Wrap(2 * r.root) = 4 * root
  <2>1. PICK n \in A!CellValues : n = 4 * root
    BY <1>12, <1>13, SpanNat, CellsAre
  <2>2. 2 * r.root = n
    BY <1>3, <2>1
  <2> QED BY <2>1, <2>2, WrapSmall
<1>15. A!Wrap(4 * rem) = 4 * rem
  <2>1. PICK n \in A!CellValues : n = 4 * rem
    BY <1>3, <1>12, <1>13, SpanNat, CellsAre
  <2> QED BY <2>1, WrapSmall
<1>16. A!Pow2[1] = 2 /\ A!Pow2[2] = 4
  <2>1. PICK zero \in Nat, one \in Nat, two \in Nat : zero = 0 /\ one = zero + 1 /\ two = one + 1
    OBVIOUS
  <2>2. A!Pow2[one] = 2 * A!Pow2[zero] /\ A!Pow2[two] = 2 * A!Pow2[one] /\ A!Pow2[zero] = 1
    BY <2>1, Powers
  <2>3. one = 1 /\ two = 2
    BY <2>1
  <2> QED BY <2>2, <2>3
<1> DEFINE rem2 == 4 * rem + tb
<1>17. A!BitOr(4 * rem, tb) = rem2
  <2>1. PICK n \in A!CellValues, b \in A!CellValues, k \in 0..Bits, q \in Nat :
          n = 4 * rem /\ b = tb /\ k = 2 /\ q = rem
    <3>1. 4 * rem \in A!CellValues /\ tb \in A!CellValues
      BY <1>3, <1>5, <1>12, <1>13, SpanNat, CellsAre
    <3>2. 2 \in 0..Bits
      BY PowerSpan
    <3> QED BY <1>3, <3>1, <3>2
  <2>2. n = q * A!Pow2[k] /\ b < A!Pow2[k]
    BY <1>5, <1>16, <2>1
  <2> QED BY <2>1, <2>2, BitOrIs
<1>18. A!BitOr(4 * root, 1) = 4 * root + 1
  <2>1. PICK n \in A!CellValues, b \in A!CellValues, k \in 0..Bits, q \in Nat :
          n = 4 * root /\ b = 1 /\ k = 1 /\ q = 2 * root
    <3>1. 4 * root \in A!CellValues /\ 1 \in A!CellValues
      BY <1>12, <1>13, SpanNat, CellsAre
    <3>2. 1 \in 0..Bits
      BY PowerSpan
    <3> QED BY <3>1, <3>2
  <2>2. n = q * A!Pow2[k] /\ b < A!Pow2[k]
    BY <1>16, <2>1
  <2> QED BY <2>1, <2>2, BitOrIs
<1>19. t = IF 4 * root < rem2
           THEN [s |-> 4 * g, rem |-> A!Wrap(rem2 - (4 * root + 1)), root |-> 4 * root + 2]
           ELSE [s |-> 4 * g, rem |-> rem2, root |-> 4 * root]
  BY <1>8, <1>9, <1>14, <1>15, <1>17, <1>18 DEF A!RootRound, c, rem
<1> HIDE DEF t
<1> DEFINE top2 == 4 * top + tb
<1>20. s = top2 * w + rest /\ top2 \in Nat /\ rest \in Nat /\ rest < w
  <2>1. (4 * top + tb) * w = top * (4 * w) + tb * w
    BY <1>2, <1>5
  <2>2. top * (4 * w) \in Int /\ tb * w \in Int
    BY <1>2, <1>5
  <2> QED BY <1>2, <1>3, <1>5, <2>1, <2>2
<1>21. rem2 \in Nat /\ rem2 <= 8 * root + 3 /\ top2 = 4 * (root * root) + rem2 /\ root * root \in Nat
  BY <1>3, <1>5, NatTimes
<1> HIDE DEF rem2, top2
<1>22. CASE 4 * root < rem2
  <2> DEFINE new == 2 * root + 1
             rem3 == rem2 - (4 * root + 1)
  <2>1. rem3 \in A!CellValues /\ rem3 \in Nat
    <3>1. rem2 < A!Span
      <4>1. rem \in Nat /\ rem <= top /\ tb <= 3 /\ 4 * top + 3 < A!Span
        BY <1>3, <1>5, <1>12, <1>13
      <4> QED BY <4>1, SpanNat DEF rem2
    <3> QED BY <1>21, <1>22, <3>1, SpanNat, CellsAre
  <2>2. A!Wrap(rem3) = rem3
    BY <2>1, WrapSmall
  <2>3. t.s = rest * (4 * p) /\ t.rem = rem3 /\ t.root = 2 * new
    BY <1>10, <1>19, <1>22, <2>2
  <2>4. new * new = 4 * (root * root) + 4 * root + 1
    OBVIOUS
  <2>5. top2 = new * new + rem3 /\ rem3 <= 2 * new
    BY <1>21, <2>4
  <2> HIDE DEF rem3
  <2>6. RootInv(t, s, w, 4 * p, new, top2, rest)
    BY <1>20, <2>1, <2>3, <2>5 DEF RootInv
  <2> QED BY <1>2, <1>20, <2>6 DEF t, w
<1>23. CASE ~ 4 * root < rem2
  <2> DEFINE new == 2 * root
  <2>1. t.s = rest * (4 * p) /\ t.rem = rem2 /\ t.root = 2 * new
    BY <1>10, <1>19, <1>23
  <2>2. new * new = 4 * (root * root)
    OBVIOUS
  <2>3. top2 = new * new + rem2 /\ rem2 <= 2 * new
    BY <1>21, <1>23, <2>2
  <2>4. RootInv(t, s, w, 4 * p, new, top2, rest)
    BY <1>20, <1>21, <2>1, <2>3 DEF RootInv
  <2> QED BY <1>2, <1>20, <2>4 DEF t, w
<1> QED BY <1>22, <1>23

LEMMA RootIs ==
  ASSUME NEW s \in A!CellValues
  PROVE  A!Root(s) \in Nat /\ A!Root(s) * A!Root(s) <= s /\ s < (A!Root(s) + 1) * (A!Root(s) + 1)
<1>0. s \in Nat
  BY SpanNat, CellsAre
<1>1. PICK f \in [0..(Bits \div 2) -> RootRounds] :
           /\ A!Root(s) = IF s > 1 THEN f[Bits \div 2].root \div 2 ELSE s
           /\ f[0] = Rooting(s) /\ \A i \in 1..(Bits \div 2) : f[i] = A!RootRound(f[i - 1])
  BY <1>0, RootingUp
<1>2. CASE ~ s > 1
  <2>1. A!Root(s) = s /\ (s = 0 \/ s = 1)
    BY <1>0, <1>1, <1>2
  <2>2. CASE s = 0
    BY <2>1, <2>2
  <2>3. CASE s = 1
    BY <2>1, <2>3
  <2> QED BY <2>1, <2>2, <2>3
<1>3. CASE s > 1
  <2>1. PICK n \in Nat \ {0} : n = Bits \div 2 /\ Bits = 2 * n
    BY HalfBits
  <2>2. f \in [0..n -> RootRounds] /\ A!Root(s) = f[n].root \div 2 /\ f[0] = Rooting(s)
        /\ \A i \in 1..n : f[i] = A!RootRound(f[i - 1])
    BY <1>1, <1>3, <2>1
  <2> DEFINE Good == {i \in 0..n : \E root \in Nat, top \in Nat, low \in Nat :
               RootInv(f[i], s, A!Pow2[Bits - 2 * i], A!Pow2[2 * i], root, top, low)}
  <2>3. 0 \in Good
    <3>1. Bits - 2 * 0 = Bits /\ 2 * 0 = 0 /\ A!Pow2[0] = 1 /\ A!Pow2[Bits] = A!Span
      BY Powers, PowerSpan
    <3>2. s < A!Span /\ A!Span \in Nat
      BY SpanNat, CellsAre
    <3>3. RootInv(f[0], s, A!Span, 1, 0, 0, s)
      BY <1>0, <2>2, <3>2 DEF RootInv, Rooting
    <3> QED BY <1>0, <2>1, <3>1, <3>3
  <2>4. ASSUME NEW i \in 1..n, i - 1 \in Good PROVE i \in Good
    <3>1. PICK root \in Nat, top \in Nat, low \in Nat :
            RootInv(f[i - 1], s, A!Pow2[Bits - 2 * (i - 1)], A!Pow2[2 * (i - 1)], root, top, low)
      BY <2>4
    <3>2. PICK m \in Nat, v \in Nat : m = 2 * (i - 1) /\ v = Bits - 2 * i
      <4>1. Bits = 2 * n /\ n \in Nat
        BY <2>1
      <4>2. 2 * (i - 1) \in Nat /\ 2 * n - 2 * i \in Nat
        BY <4>1
      <4> QED BY <4>1, <4>2
    <3>3. m + v + 2 = Bits /\ Bits - 2 * (i - 1) = v + 2 /\ 2 * i = m + 2 /\ i - 1 \in 0..n
          /\ i \in 0..n
      BY <2>1, <3>2
    <3>4. f[i - 1] \in RootRounds /\ f[i] = A!RootRound(f[i - 1])
      BY <2>2, <3>3
    <3>5. RootInv(f[i - 1], s, A!Pow2[v + 2], A!Pow2[m], root, top, low)
      BY <3>1, <3>2, <3>3
    <3>6. \E root2 \in Nat, top2 \in Nat, low2 \in Nat :
            RootInv(f[i], s, A!Pow2[v], A!Pow2[m + 2], root2, top2, low2)
      BY <3>3, <3>4, <3>5, RootStep
    <3> QED BY <3>2, <3>3, <3>6
  <2> HIDE DEF Good
  <2>5. n \in Good
    <3>1. n \in 0..n /\ n \in Nat
      BY <2>1
    <3>2. \A i \in 0..n : i \in Good
      BY <2>3, <2>4, <3>1, UpTo
    <3> QED BY <3>1, <3>2
  <2>6. Bits - 2 * n = 0 /\ A!Pow2[0] = 1
    BY <2>1, Powers
  <2>7. PICK root \in Nat, top \in Nat, low \in Nat :
          RootInv(f[n], s, 1, A!Pow2[2 * n], root, top, low)
    BY <2>5, <2>6 DEF Good
  <2>8. f[n] \in RootRounds
    BY <2>1, <2>2
  <2> DEFINE rem == f[n].rem
  <2>9. f[n].root = 2 * root /\ s = root * root + rem /\ rem \in Nat /\ rem <= 2 * root
    BY <2>7, <2>8 DEF RootInv, RootRounds
  <2>10. A!Root(s) = root
    <3>1. (2 * root) \div 2 = root
      OBVIOUS
    <3> QED BY <2>2, <2>9, <3>1
  <2>11. (root + 1) * (root + 1) = root * root + 2 * root + 1 /\ root * root \in Nat
    BY NatTimes
  <2> HIDE DEF rem
  <2>12. root * root <= s /\ s < (root + 1) * (root + 1)
    BY <2>9, <2>11
  <2> QED BY <2>10, <2>12
<1> QED BY <1>2, <1>3
(* The stack of the arithmetic words holds cells. *)
ArithInv == stack \in Seq(A!CellValues)

LEMMA CellFacts == 0 \in A!CellValues /\ 1 \in A!CellValues /\ A!Span - 1 \in A!CellValues
BY HalfSpan, CellsAre

LEMMA ReplaceTyped ==
  ASSUME ArithInv, NEW n \in Nat, A!Has(n), NEW results \in Seq(A!CellValues),
         A!Replace(n, results)
  PROVE  ArithInv'
<1>1. stack \in Seq(A!CellValues) /\ Len(stack) - n \in 0..Len(stack)
  BY DEF ArithInv, A!Has
<1>2. SubSeq(stack, 1, Len(stack) - n) \in Seq(A!CellValues)
  BY <1>1
<1>3. SubSeq(stack, 1, Len(stack) - n) \o results \in Seq(A!CellValues)
  BY <1>2
<1> QED BY <1>3 DEF A!Replace, ArithInv

LEMMA TopsAre ==
  ASSUME ArithInv, NEW n \in Nat, A!Has(n), NEW i \in 1..n
  PROVE  A!Top(i) \in A!CellValues
<1>1. stack \in Seq(A!CellValues) /\ Len(stack) + 1 - i \in 1..Len(stack)
  BY DEF ArithInv, A!Has
<1> QED BY <1>1 DEF A!Top

LEMMA PairsAre ==
  ASSUME ArithInv, NEW n \in Nat, A!Has(n), NEW i \in Nat, i + 2 <= n
  PROVE  A!DoubleBelow(i) \in A!Double
<1>1. i + 1 \in 1..n /\ i + 2 \in 1..n
  OBVIOUS
<1> QED BY <1>1, TopsAre, PairFacts DEF A!DoubleBelow

LEMMA MagnitudesTyped ==
  ASSUME NEW d \in A!Double, NEW u \in A!CellValues
  PROVE  /\ A!Magnitudes(d, u).quotient \in A!Double
         /\ A!Magnitudes(d, u).remainder \in A!CellValues
<1>1. MagnDouble(d) \in A!Double /\ Magn(u) \in A!CellValues
  BY MagnDoubleIs, SignedIs
<1>2. A!Magnitudes(d, u) = A!Divide(MagnDouble(d), Magn(u))
  BY DEF A!Magnitudes, MagnDouble, Magn
<1> QED BY <1>1, <1>2, DivideTyped

LEMMA QuotientsTyped ==
  ASSUME NEW d \in A!Double, NEW u \in A!CellValues
  PROVE  /\ A!DivideSymmetric(d, u).quotient.low \in A!CellValues
         /\ A!DivideSymmetric(d, u).remainder \in A!CellValues
         /\ A!DivideFloored(d, u).quotient.low \in A!CellValues
         /\ A!DivideFloored(d, u).remainder \in A!CellValues
<1> DEFINE qr == A!Magnitudes(d, u)
           neg == A!Negate(qr.quotient)
<1>1. qr.quotient \in A!Double /\ qr.remainder \in A!CellValues
  BY MagnitudesTyped
<1>2. neg \in A!Double
  BY <1>1, NegateIs
<1>3. qr.quotient.low \in A!CellValues /\ neg.low \in A!CellValues
  BY <1>1, <1>2, DoubleFacts, CellsAre
<1>4. ASSUME NEW n \in A!CellValues
      PROVE  A!Minus(n) \in A!CellValues /\ A!Wrap(n - 1) \in A!CellValues
             /\ A!Wrap(Magn(u) - n) \in A!CellValues
  <2>1. - n \in Int /\ n - 1 \in Int /\ Magn(u) - n \in Int
    BY SignedIs, SpanNat, CellsAre
  <2> QED BY <2>1, WrapSome DEF A!Minus
<1>5. A!Decrement(neg).low \in A!CellValues
  BY <1>3, <1>4 DEF A!Decrement, A!Pair
<1> HIDE DEF qr, neg
<1>6. /\ A!DivideSymmetric(d, u).quotient \in {neg, qr.quotient}
      /\ A!DivideSymmetric(d, u).remainder \in {A!Minus(qr.remainder), qr.remainder}
  BY DEF A!DivideSymmetric, qr, neg
<1>7. A!DivideFloored(d, u).quotient \in {A!Decrement(neg), neg, qr.quotient}
  BY DEF A!DivideFloored, qr, neg
<1>8. \E n \in {A!Wrap(Magn(u) - qr.remainder), qr.remainder} :
        A!DivideFloored(d, u).remainder \in {A!Minus(n), n}
  BY DEF A!DivideFloored, Magn, qr
<1> QED BY <1>1, <1>3, <1>4, <1>5, <1>6, <1>7, <1>8

LEMMA ExtendedTyped == ASSUME NEW u \in A!CellValues PROVE A!Extended(u) \in A!Double
BY CellFacts, PairFacts DEF A!Extended

LEMMA RootTyped == ASSUME NEW s \in A!CellValues PROVE A!Root(s) \in A!CellValues
<1> DEFINE r == A!Root(s)
<1>1. r \in Nat /\ r * r <= s
  BY RootIs
<1> HIDE DEF r
<1>2. s \in Nat /\ s < A!Span
  BY SpanNat, CellsAre
<1>3. CASE r = 0
  BY <1>3, CellFacts DEF r
<1>4. CASE r # 0
  <2>1. 1 * r <= r * r /\ r * r \in Nat
    BY <1>1, <1>4, Times, NatTimes
  <2>2. r < A!Span
    BY <1>1, <1>2, <2>1, SpanNat
  <2> QED BY <1>1, <2>2, SpanNat, CellsAre DEF r
<1> QED BY <1>3, <1>4

LEMMA FlagTyped == ASSUME NEW b PROVE A!Flag(b) \in A!CellValues
BY CellFacts DEF A!Flag

LEMMA ArithInitially == A!Init => ArithInv
BY DEF A!Init, ArithInv

(* The words of two results, and the two ways to check a divisor.          *)
LEMMA TrappedTyped ==
  ASSUME ArithInv, NEW n \in Nat, A!Has(n), NEW results \in Seq(A!CellValues),
         A!Trapped(n, results) \/ (\E d : A!Unchecked(n, d, results))
  PROVE  ArithInv'
<1>1. CASE A!Replace(n, results)
  BY <1>1, ReplaceTyped
<1>2. CASE stack' = <<>> \/ stack' = stack
  <2>1. <<>> \in Seq(A!CellValues) /\ stack \in Seq(A!CellValues)
    BY DEF ArithInv
  <2>2. stack' \in Seq(A!CellValues)
    BY <1>2, <2>1
  <2>3. A!CellValues' = A!CellValues
    BY DEF A!CellValues, A!Span
  <2> QED BY <2>2, <2>3 DEF ArithInv
<1> QED BY <1>1, <1>2 DEF A!Trapped, A!Unchecked

LEMMA ArithInductive == ArithInv /\ [A!Next]_stackVars => ArithInv'
<1> SUFFICES ASSUME ArithInv, [A!Next]_stackVars PROVE ArithInv'
  OBVIOUS
<1>1. ASSUME NEW a \in A!CellValues, NEW b \in A!CellValues
      PROVE  <<a>> \in Seq(A!CellValues) /\ <<a, b>> \in Seq(A!CellValues)
  OBVIOUS
<1>2. ASSUME NEW u \in A!CellValues, A!Literal(u) PROVE ArithInv'
  BY <1>1, <1>2, ReplaceTyped DEF A!Literal
<1>3. CASE A!UMStar
  <2>1. A!Top(1) \in A!CellValues /\ A!Top(2) \in A!CellValues /\ A!Has(2)
    BY <1>3, TopsAre DEF A!UMStar
  <2>2. A!Multiply(A!Top(2), A!Top(1)) \in A!Double
    BY <2>1, MultiplyIs
  <2>3. A!Cells(A!Multiply(A!Top(2), A!Top(1))) \in Seq(A!CellValues)
    BY <1>1, <2>2, DoubleFacts, CellsAre DEF A!Cells
  <2> QED BY <1>3, <2>1, <2>3, ReplaceTyped DEF A!UMStar
<1>4. CASE A!MStar
  <2>1. A!Top(1) \in A!CellValues /\ A!Top(2) \in A!CellValues /\ A!Has(2)
    BY <1>4, TopsAre DEF A!MStar
  <2>2. A!SignedMultiply(A!Top(2), A!Top(1)) \in A!Double
    BY <2>1, SignedMultiplyIs
  <2>3. A!Cells(A!SignedMultiply(A!Top(2), A!Top(1))) \in Seq(A!CellValues)
    BY <1>1, <2>2, DoubleFacts, CellsAre DEF A!Cells
  <2> QED BY <1>4, <2>1, <2>3, ReplaceTyped DEF A!MStar
<1>5. CASE A!SlashMod
  <2>1. A!Top(1) \in A!CellValues /\ A!Top(2) \in A!CellValues /\ A!Has(2)
    BY <1>5, TopsAre DEF A!SlashMod
  <2>2. A!RemainderQuotient(A!DivideSymmetric(A!Extended(A!Top(2)), A!Top(1)))
          \in Seq(A!CellValues)
    BY <1>1, <2>1, ExtendedTyped, QuotientsTyped DEF A!RemainderQuotient
  <2> QED BY <1>5, <2>1, <2>2, TrappedTyped DEF A!SlashMod
<1>6. CASE A!StarSlash \/ A!StarSlashMod
  <2>1. /\ A!Top(1) \in A!CellValues /\ A!Top(2) \in A!CellValues /\ A!Top(3) \in A!CellValues
        /\ A!Has(3)
    BY <1>6, TopsAre DEF A!StarSlash, A!StarSlashMod
  <2>2. A!SignedMultiply(A!Top(3), A!Top(2)) \in A!Double
    BY <2>1, SignedMultiplyIs
  <2>3. A!Scale.quotient.low \in A!CellValues /\ A!Scale.remainder \in A!CellValues
    BY <2>1, <2>2, QuotientsTyped DEF A!Scale
  <2>4. /\ A!RemainderQuotient(A!Scale) \in Seq(A!CellValues)
        /\ <<A!Scale.quotient.low>> \in Seq(A!CellValues)
    BY <1>1, <2>3 DEF A!RemainderQuotient
  <2> QED BY <1>6, <2>1, <2>4, TrappedTyped DEF A!StarSlash, A!StarSlashMod
<1>7. CASE A!UMSlashMod \/ A!FMSlashMod \/ A!SMSlashRem
  <2>1. A!Top(1) \in A!CellValues /\ A!DoubleBelow(1) \in A!Double /\ A!Has(3)
    BY <1>7, TopsAre, PairsAre DEF A!UMSlashMod, A!FMSlashMod, A!SMSlashRem
  <2>2. /\ A!Divide(A!DoubleBelow(1), A!Top(1)).quotient.low \in A!CellValues
        /\ A!Divide(A!DoubleBelow(1), A!Top(1)).remainder \in A!CellValues
    BY <2>1, DivideTyped, DoubleFacts, CellsAre
  <2>3. /\ A!RemainderQuotient(A!Divide(A!DoubleBelow(1), A!Top(1))) \in Seq(A!CellValues)
        /\ A!RemainderQuotient(A!DivideFloored(A!DoubleBelow(1), A!Top(1))) \in Seq(A!CellValues)
        /\ A!RemainderQuotient(A!DivideSymmetric(A!DoubleBelow(1), A!Top(1))) \in Seq(A!CellValues)
    BY <1>1, <2>1, <2>2, QuotientsTyped DEF A!RemainderQuotient
  <2> QED BY <1>7, <2>1, <2>3, TrappedTyped DEF A!UMSlashMod, A!FMSlashMod, A!SMSlashRem
<1>8. CASE A!Mod
  <2>1. A!Top(1) \in A!CellValues /\ A!Top(2) \in A!CellValues /\ A!Has(2)
    BY <1>8, TopsAre DEF A!Mod
  <2>2. <<A!DivideSymmetric(A!Extended(A!Top(2)), A!Top(1)).remainder>> \in Seq(A!CellValues)
    BY <1>1, <2>1, ExtendedTyped, QuotientsTyped
  <2> QED BY <1>8, <2>1, <2>2, TrappedTyped DEF A!Mod
<1>9. CASE A!DNegate
  <2>1. A!DoubleBelow(0) \in A!Double /\ A!Has(2)
    BY <1>9, PairsAre DEF A!DNegate
  <2>2. A!Negate(A!DoubleBelow(0)) \in A!Double
    BY <2>1, NegateIs
  <2>3. A!Cells(A!Negate(A!DoubleBelow(0))) \in Seq(A!CellValues)
    BY <1>1, <2>2, DoubleFacts, CellsAre DEF A!Cells
  <2> QED BY <1>9, <2>1, <2>3, ReplaceTyped DEF A!DNegate
<1>10. CASE A!DUnsignedLess \/ A!DLess
  BY <1>1, <1>10, FlagTyped, ReplaceTyped DEF A!DUnsignedLess, A!DLess
<1>11. CASE A!ISqrt
  <2>1. A!Top(1) \in A!CellValues /\ A!Has(1)
    BY <1>11, TopsAre DEF A!ISqrt
  <2>2. <<A!Root(A!Top(1))>> \in Seq(A!CellValues)
    BY <1>1, <2>1, RootTyped
  <2> QED BY <1>11, <2>1, <2>2, ReplaceTyped DEF A!ISqrt
<1>12. CASE UNCHANGED stackVars
  BY <1>12 DEF stackVars, ArithInv
<1> QED BY <1>2, <1>3, <1>4, <1>5, <1>6, <1>7, <1>8, <1>9, <1>10, <1>11, <1>12 DEF A!Next

LEMMA ArithHolds ==
  ArithInv => A!ProductsExact /\ A!QuotientsExact /\ A!OrderExact /\ A!RootExact
<1> SUFFICES ASSUME ArithInv
             PROVE  A!ProductsExact /\ A!QuotientsExact /\ A!OrderExact /\ A!RootExact
  OBVIOUS
<1>1. ASSUME A!Has(2)
      PROVE  /\ A!Natural(A!Multiply(A!Top(2), A!Top(1))) = A!Top(2) * A!Top(1)
             /\ A!Number(A!SignedMultiply(A!Top(2), A!Top(1)))
                  = A!Signed(A!Top(2)) * A!Signed(A!Top(1))
  <2>1. A!Top(1) \in A!CellValues /\ A!Top(2) \in A!CellValues
    BY <1>1, TopsAre
  <2> QED BY <2>1, MultiplyIs, SignedMultiplyIs
<1>2. A!ProductsExact
  BY <1>1 DEF A!ProductsExact
<1>3. ASSUME A!Has(3), A!Top(1) # 0
      PROVE  LET d == A!DoubleBelow(1) u == A!Top(1) n == A!Signed(u) IN
             /\ A!Leaves(A!Divide(d, u), A!Natural(d), u, A!Natural(d) \div u)
             /\ A!Leaves(A!DivideFloored(d, u), A!Number(d), n, A!Floor(A!Number(d), n))
             /\ A!Leaves(A!DivideSymmetric(d, u), A!Number(d), n, A!Towards0(A!Number(d), n))
  <2>1. A!Top(1) \in A!CellValues /\ A!DoubleBelow(1) \in A!Double
    BY <1>3, TopsAre, PairsAre
  <2> QED BY <1>3, <2>1, DivideLeaves, FlooredLeaves, SymmetricLeaves
<1>4. A!QuotientsExact
  BY <1>3 DEF A!QuotientsExact
<1>5. A!OrderExact
  <2>1. ASSUME A!Has(4)
        PROVE  A!DoubleBelow(0) \in A!Double /\ A!DoubleBelow(2) \in A!Double
    BY <2>1, PairsAre
  <2> QED BY <2>1, SignedBelowIs DEF A!OrderExact
<1>6. A!RootExact
  <2>1. ASSUME A!Has(1) PROVE A!Top(1) \in A!CellValues
    BY <2>1, TopsAre
  <2> QED BY <2>1, RootIs DEF A!RootExact
<1> QED BY <1>2, <1>4, <1>5, <1>6

(* With cells of any even number of bits: the products, the quotients in   *)
(* three roundings, the order and the roots that the words of doubles      *)
(* compute are those of the numbers (double.c, primitives.c, extras.c).    *)
THEOREM ArithmeticIsExact == MCSpec => []ArithmeticExact
<1>1. MCInit => ArithInv
  BY ArithInitially DEF MCInit
<1>2. ArithInv /\ [MCNext]_mcVars => ArithInv'
  <2>1. [MCNext]_mcVars => [A!Next]_stackVars
    BY DEF MCNext, mcVars
  <2> QED BY <2>1, ArithInductive
<1>3. ArithInv => ArithmeticExact
  BY ArithHolds DEF ArithmeticExact
<1> QED BY <1>1, <1>2, <1>3, PTL DEF MCSpec
--------------------------------------------------------------------------------
(* What is read back digit by digit: of a number m, in the base c, the     *)
(* lowest k digits.                                                        *)
Splits(n, c, p) ==
  \E q \in Nat, d \in 0..c - 1 :
    q = n \div (c * p) /\ d = (n \div p) % c /\ n \div p = c * q + d

LEMMA DivBase ==
  ASSUME NEW n \in Nat, NEW c \in Nat \ {0}, NEW p \in Nat \ {0}
  PROVE  c * p \in Nat \ {0} /\ Splits(n, c, p)
<1>1. PICK m \in Int, r \in 0..p - 1 : m = n \div p /\ n = m * p + r
  BY DivMod
<1>2. PICK q \in Int, d \in 0..c - 1 : q = m \div c /\ d = m % c /\ m = q * c + d
  BY <1>1, DivMod
<1>3. c * p \in Nat \ {0}
  <2>1. 1 * p <= c * p
    BY Times
  <2>2. c * p \in Int
    OBVIOUS
  <2> QED BY <2>1, <2>2
<1> DEFINE w == c * p
<1>4. d * p + r \in 0..w - 1
  <2>1. (d + 1) * p <= c * p
    BY <1>2, Times
  <2>2. 0 * p <= d * p
    BY <1>2, Times
  <2>3. (d + 1) * p = d * p + p /\ d * p \in Int /\ c * p \in Int
    BY <1>2
  <2> QED BY <1>1, <2>1, <2>2, <2>3
<1>5. n = q * w + (d * p + r)
  <2>0. q \in Int /\ d \in Int /\ m = q * c + d
    BY <1>2
  <2>1. m * p = (q * c) * p + d * p
    <3>1. PICK a \in Int : a = q * c
      BY <2>0
    <3>2. m = a + d
      BY <2>0, <3>1
    <3>3. (a + d) * p = a * p + d * p
      BY <2>0
    <3> QED BY <3>1, <3>2, <3>3
  <2>2. (q * c) * p = q * (c * p)
    BY <1>1, <1>2
  <2>3. m * p \in Int /\ q * (c * p) \in Int /\ d * p \in Int
    BY <1>1, <1>2
  <2>4. n = m * p + r /\ r \in Int
    BY <1>1
  <2> HIDE DEF w
  <2>5. q * w = (q * c) * p
    BY <2>2 DEF w
  <2>6. (q * c) * p \in Int
    BY <2>2, <2>3
  <2> QED BY <2>1, <2>3, <2>4, <2>5, <2>6
<1>6. w \in Nat \ {0}
  BY <1>3
<1> HIDE DEF w
<1>7. n \div w = q
  <2>1. PICK s \in 0..w - 1 : s = d * p + r
    BY <1>4
  <2>2. n = q * w + s /\ q \in Int /\ n \in Int
    BY <1>2, <1>5, <2>1
  <2> QED BY <1>6, <2>2, DivModIs
<1>8. q \in Nat
  <2>1. ASSUME q < 0 PROVE FALSE
    <3>1. q + 1 <= 0 /\ q + 1 \in Int
      BY <1>2, <2>1
    <3>2. (q + 1) * w <= 0 * w
      BY <1>6, <3>1, Times
    <3>3. (q + 1) * w = q * w + w /\ q * w \in Int
      BY <1>2, <1>6
    <3> QED BY <1>4, <1>5, <1>6, <3>2, <3>3
  <2> QED BY <1>2, <2>1
<1>9. q * c = c * q
  BY <1>2
<1>10. n \div (c * p) = q
  BY <1>7 DEF w
<1> QED BY <1>1, <1>2, <1>3, <1>8, <1>9, <1>10 DEF Splits

PowersOf(c, P) == P \in [Nat -> Nat] /\ P[0] = 1 /\ \A i \in Nat : P[i + 1] = c * P[i]

DigitByDigit(c, P, m, k, v) ==
  v[0] = 0 /\ \A i \in 1..k : v[i] = c * v[i - 1] + ((m \div P[k - i]) % c)

LEMMA PowersNat ==
  ASSUME NEW c \in Nat \ {0}, NEW P, PowersOf(c, P), NEW n \in Nat PROVE P[n] \in Nat \ {0}
<1>0. P \in [Nat -> Nat] /\ P[0] = 1 /\ \A i \in Nat : P[i + 1] = c * P[i]
  BY DEF PowersOf
<1> DEFINE Some == {i \in Nat : P[i] # 0}
<1>1. 0 \in Some
  BY <1>0
<1>2. ASSUME NEW i \in Some PROVE i + 1 \in Some
  <2>1. P[i] \in Nat \ {0} /\ i \in Nat
    BY <1>0
  <2> HIDE DEF Some
  <2>2. c * P[i] \in Nat \ {0}
    BY <2>1, DivBase
  <2>3. P[i + 1] # 0
    BY <1>0, <2>1, <2>2
  <2> QED BY <2>1, <2>3 DEF Some
<1>3. Some \subseteq Nat
  OBVIOUS
<1> HIDE DEF Some
<1>4. Some = Nat
  BY <1>1, <1>2, <1>3, Induction
<1>5. \A i \in Nat : P[i] \in Nat \ {0}
  BY <1>0, <1>4 DEF Some
<1> QED BY <1>5

LEMMA Positional ==
  ASSUME NEW c \in Nat \ {0}, NEW P, PowersOf(c, P), NEW m \in Nat, NEW k \in Nat, NEW v,
         DigitByDigit(c, P, m, k, v)
  PROVE  v[k] = m % P[k] /\ P[k] \in Nat \ {0}
<1>0. /\ P \in [Nat -> Nat] /\ P[0] = 1 /\ \A i \in Nat : P[i + 1] = c * P[i]
      /\ v[0] = 0
      /\ \A i \in 1..k : v[i] = c * v[i - 1] + ((m \div P[k - i]) % c)
  BY DEF PowersOf, DigitByDigit
<1>5. \A i \in Nat : P[i] \in Nat \ {0}
  BY PowersNat
<1> DEFINE top == m \div P[k]
           Good == {i \in 0..k : v[i] = (m \div P[k - i]) - P[i] * top}
<1>6. top \in Int
  <2>1. P[k] \in Nat \ {0}
    BY <1>5
  <2>2. m \in Int
    OBVIOUS
  <2> QED BY <2>1, <2>2, DivMod
<1> HIDE DEF top
<1>7. 0 \in Good
  <2>1. m \div P[k - 0] = top
    BY DEF top
  <2> QED BY <1>0, <1>6, <2>1
<1>8. ASSUME NEW i \in 1..k, i - 1 \in Good PROVE i \in Good
  <2>1. k - i \in Nat /\ (k - i) + 1 = k - (i - 1) /\ i - 1 \in Nat /\ (i - 1) + 1 = i
    OBVIOUS
  <2>2. P[k - (i - 1)] = c * P[k - i] /\ P[i] = c * P[i - 1]
    BY <1>0, <2>1
  <2>3. PICK q \in Nat, d \in 0..c - 1 :
          /\ q = m \div P[k - (i - 1)] /\ d = (m \div P[k - i]) % c
          /\ m \div P[k - i] = c * q + d
    <3>1. P[k - i] \in Nat \ {0}
      BY <1>5, <2>1
    <3>2. PICK p \in Nat \ {0} : p = P[k - i]
      BY <3>1
    <3>3. Splits(m, c, p)
      BY DivBase
    <3> QED BY <2>2, <3>2, <3>3 DEF Splits
  <2>4. v[i - 1] = q - P[i - 1] * top
    BY <1>8, <2>3
  <2>5. v[i] = c * (q - P[i - 1] * top) + d
    BY <1>0, <2>3, <2>4
  <2>6. P[i - 1] \in Nat
    BY <1>0, <2>1
  <2>7. c * (q - P[i - 1] * top) = c * q - (c * P[i - 1]) * top
    BY <1>6, <2>6
  <2>8. v[i] = (m \div P[k - i]) - P[i] * top
    <3>1. c * q \in Int /\ (c * P[i - 1]) * top \in Int
      BY <1>6, <2>6
    <3> QED BY <2>2, <2>3, <2>5, <2>7, <3>1
  <2> QED BY <2>8
<1> HIDE DEF Good
<1>9. \A i \in 0..k : i \in Good
  BY <1>7, <1>8, UpTo
<1>10. v[k] = (m \div P[0]) - P[k] * top
  <2>1. k \in Good
    BY <1>9
  <2> QED BY <2>1 DEF Good
<1>11. m \div P[0] = m
  BY <1>0
<1>12. PICK q \in Int, r \in 0..P[k] - 1 : q = top /\ r = m % P[k] /\ m = q * P[k] + r
  <2>1. P[k] \in Nat \ {0}
    BY <1>5
  <2>2. m \in Int
    OBVIOUS
  <2> QED BY <2>1, <2>2, DivMod DEF top
<1>13. P[k] * top = q * P[k] /\ q * P[k] \in Int
  BY <1>5, <1>12
<1> QED BY <1>5, <1>10, <1>11, <1>12, <1>13
--------------------------------------------------------------------------------
(* The bits and the bytes of the compression. *)
LEMMA LPow == L!Pow2 = A!Pow2
BY DEF L!Pow2, A!Pow2

LEMMA LPow2Nat == ASSUME NEW n \in Nat PROVE L!Pow2[n] \in Nat \ {0}
BY LPow, Pow2Nat

LEMMA LPowAdd ==
  ASSUME NEW m \in Nat, NEW n \in Nat PROVE L!Pow2[m + n] = L!Pow2[m] * L!Pow2[n]
BY LPow, PowAdd

LEMMA LPowers ==
  /\ L!Pow2 \in [Nat -> Nat] /\ L!Pow2[0] = 1 /\ L!Pow2[1] = 2 /\ L!Pow2[2] = 4
  /\ \A n \in Nat : L!Pow2[n + 1] = 2 * L!Pow2[n]
<1>1. /\ L!Pow2 \in [Nat -> Nat] /\ L!Pow2[0] = 1
      /\ \A n \in Nat : L!Pow2[n + 1] = 2 * L!Pow2[n]
  BY LPow, Powers
<1>2. L!Pow2[0 + 1] = 2 * L!Pow2[0]
  BY <1>1
<1>3. L!Pow2[1 + 1] = 2 * L!Pow2[1]
  BY <1>1
<1> QED BY <1>1, <1>2, <1>3

LEMMA LzConstants ==
  /\ OffsetBits \in Nat \ {0} /\ LengthBits \in Nat \ {0} /\ NextBits \in Nat \ {0}
  /\ L!MinimumUsefulMatch = 2 /\ ByteSpan \in Nat /\ ByteSpan > 4
  /\ L!PhraseBits = 1 + OffsetBits + LengthBits + NextBits /\ L!SymbolBits = 1 + NextBits
  /\ L!PhraseBits < 3 * L!SymbolBits
<1>1. /\ OffsetBits \in Nat \ {0} /\ LengthBits \in Nat \ {0} /\ NextBits \in Nat \ {0}
      /\ L!MinimumUsefulMatch = 2 /\ ByteSpan \in Nat /\ ByteSpan > 4
  BY LzAssumption DEF L!LzAssumption
<1>2. L!PhraseBits = 1 + OffsetBits + LengthBits + NextBits /\ L!SymbolBits = 1 + NextBits
  BY DEF L!PhraseBits, L!SymbolBits
<1>3. PICK s \in Nat \ {0} : s = L!SymbolBits
  BY <1>1, <1>2
<1>4. PICK b \in Int : b = L!PhraseBits
  BY <1>1, <1>2
<1>5. PICK q \in Int, r \in 0..s - 1 : q = b \div s /\ b = q * s + r
  BY DivMod
<1>6. q = 2
  BY <1>1, <1>3, <1>4, <1>5 DEF L!MinimumUsefulMatch
<1>7. b < 3 * s
  BY <1>5, <1>6
<1> QED BY <1>1, <1>2, <1>3, <1>4, <1>7

LEMMA LzTexts ==
  ASSUME NEW t \in Texts
  PROVE  t \in Seq(0..(L!Pow2[NextBits] - 1)) /\ Len(t) * L!SymbolBits < L!Weight[4]
BY LzAssumption DEF L!LzAssumption

LEMMA Weights ==
  /\ L!Weight \in [Nat -> Nat] /\ L!Weight[0] = 1
  /\ \A n \in Nat : L!Weight[n + 1] = ByteSpan * L!Weight[n]
<1> DEFINE step == [i \in Nat |-> [r \in Nat |-> ByteSpan * r]]
           Eq(f) == f = [n \in Nat |-> IF n = 0 THEN 1 ELSE ByteSpan * f[n - 1]]
<1>0. ByteSpan \in Nat
  BY LzConstants
<1>1. step \in [Nat -> [Nat -> Nat]]
  BY <1>0
<1> HIDE DEF step
<1>2. PICK one \in Nat : one = 1
  OBVIOUS
<1>3. PICK f \in [Nat -> Nat] : Follows(f, one, step)
  BY <1>1, Recursion
<1>4. ASSUME NEW i \in Nat PROVE f[i] = IF i = 0 THEN 1 ELSE ByteSpan * f[i - 1]
  <2>1. CASE i # 0
    <3>1. i \in Nat \ {0} /\ i - 1 \in Nat /\ f[i - 1] \in Nat
      BY <1>3, <2>1
    <3>2. step[i][f[i - 1]] = ByteSpan * f[i - 1]
      BY <3>1 DEF step
    <3> QED BY <1>3, <2>1, <3>1, <3>2 DEF Follows
  <2> QED BY <1>2, <1>3, <2>1 DEF Follows
<1>5. Eq(f)
  BY <1>4
<1>6. L!Weight = CHOOSE g : Eq(g)
  BY DEF L!Weight
<1>7. Eq(L!Weight)
  BY <1>5, <1>6
<1> HIDE DEF Eq
<1>8. L!Weight = [n \in Nat |-> IF n = 0 THEN 1 ELSE ByteSpan * L!Weight[n - 1]]
  BY <1>7 DEF Eq
<1>9. L!Weight[0] = 1
  BY <1>8
<1>10. ASSUME NEW n \in Nat PROVE L!Weight[n + 1] = ByteSpan * L!Weight[n]
  <2>1. n + 1 \in Nat /\ n + 1 # 0 /\ (n + 1) - 1 = n
    OBVIOUS
  <2> QED BY <1>8, <2>1
<1> DEFINE Natural == {n \in Nat : L!Weight[n] \in Nat}
<1>11. 0 \in Natural
  BY <1>9
<1>12. ASSUME NEW n \in Natural PROVE n + 1 \in Natural
  BY <1>0, <1>10
<1>13. Natural \subseteq Nat
  OBVIOUS
<1> HIDE DEF Natural
<1>14. Natural = Nat
  BY <1>11, <1>12, <1>13, Induction
<1>15. \A n \in Nat : L!Weight[n] \in Nat
  BY <1>14 DEF Natural
<1>16. L!Weight = [n \in Nat |-> L!Weight[n]]
  BY <1>8
<1> QED BY <1>9, <1>10, <1>15, <1>16
(* The digits d, the highest first, counted up to a number. *)
Counts(c, n, d, f) ==
  f = [i \in 0..n |-> IF i = 0 THEN 0 ELSE c * f[i - 1] + d[i]]

LEMMA CountsUp ==
  ASSUME NEW c \in Nat, NEW n \in Nat, NEW d, \A i \in 1..n : d[i] \in Nat
  PROVE  \E f : Counts(c, n, d, f)
<1> DEFINE step == [i \in Nat |-> [r \in Nat |-> IF i \in 1..n THEN c * r + d[i] ELSE 0]]
<1>1. step \in [Nat -> [Nat -> Nat]]
  <2>1. ASSUME NEW i \in Nat, NEW r \in Nat
        PROVE  (IF i \in 1..n THEN c * r + d[i] ELSE 0) \in Nat
    <3>1. c * r \in Nat
      OBVIOUS
    <3>2. i \in 1..n => d[i] \in Nat
      OBVIOUS
    <3> QED BY <3>1, <3>2
  <2> QED BY <2>1
<1>2. PICK zero \in Nat : zero = 0
  OBVIOUS
<1> HIDE DEF step
<1>3. PICK g \in [Nat -> Nat] : Follows(g, zero, step)
  BY <1>1, <1>2, Recursion
<1> DEFINE h == [i \in 0..n |-> g[i]]
<1>4. ASSUME NEW i \in 0..n PROVE g[i] = IF i = 0 THEN 0 ELSE c * h[i - 1] + d[i]
  <2>1. CASE i = 0
    BY <1>2, <1>3, <2>1 DEF Follows
  <2>2. CASE i # 0
    <3>1. i \in Nat \ {0} /\ i - 1 \in 0..n /\ g[i - 1] \in Nat /\ i \in 1..n
      BY <1>3, <2>2
    <3>2. step[i][g[i - 1]] = c * g[i - 1] + d[i]
      BY <3>1 DEF step
    <3> QED BY <1>3, <2>2, <3>1, <3>2 DEF Follows
  <2> QED BY <2>1, <2>2
<1>5. Counts(c, n, d, h)
  BY <1>4 DEF Counts
<1> QED BY <1>5

LEMMA CountedIs ==
  ASSUME NEW c \in Nat \ {0}, NEW P, PowersOf(c, P),
         NEW m \in Nat, NEW k \in Nat, NEW d, NEW f, Counts(c, k, d, f),
         \A i \in 1..k : d[i] = (m \div P[k - i]) % c
  PROVE  f[k] = m % P[k] /\ P[k] \in Nat \ {0}
<1>1. f = [i \in 0..k |-> IF i = 0 THEN 0 ELSE c * f[i - 1] + d[i]]
  BY DEF Counts
<1>2. f[0] = 0
  BY <1>1
<1>3. ASSUME NEW i \in 1..k PROVE f[i] = c * f[i - 1] + d[i]
  <2>1. i \in 0..k /\ i # 0
    OBVIOUS
  <2> QED BY <1>1, <2>1, Zenon
<1>4. ASSUME NEW i \in 1..k PROVE f[i] = c * f[i - 1] + ((m \div P[k - i]) % c)
  <2>1. d[i] = (m \div P[k - i]) % c
    OBVIOUS
  <2> QED BY <1>3, <2>1, Zenon
<1>5. DigitByDigit(c, P, m, k, f)
  BY <1>2, <1>4 DEF DigitByDigit
<1> QED BY <1>5, Positional

(* The bits of a number are read as the number. *)
LEMMA BitsAre ==
  ASSUME NEW n \in Nat, NEW w \in Nat
  PROVE  /\ L!BitsOf(n, w) \in Seq({0, 1}) /\ Len(L!BitsOf(n, w)) = w
         /\ \A i \in 1..w : L!BitsOf(n, w)[i] = (n \div L!Pow2[w - i]) % 2
<1>1. ASSUME NEW i \in 1..w PROVE (n \div L!Pow2[w - i]) % 2 \in {0, 1}
  <2>1. w - i \in Nat
    OBVIOUS
  <2>2. PICK p \in Nat \ {0} : p = L!Pow2[w - i]
    BY <2>1, LPow2Nat
  <2>3. Splits(n, 2, p)
    BY DivBase
  <2>4. (n \div p) % 2 \in 0..1
    BY <2>3 DEF Splits
  <2> QED BY <2>2, <2>4
<1>2. L!BitsOf(n, w) = [i \in 1..w |-> (n \div L!Pow2[w - i]) % 2]
  BY DEF L!BitsOf
<1>3. L!BitsOf(n, w) \in [1..w -> {0, 1}]
  BY <1>1, <1>2
<1>4. L!BitsOf(n, w) \in Seq({0, 1}) /\ Len(L!BitsOf(n, w)) = w
  BY <1>3
<1> QED BY <1>2, <1>4

LEMMA NumberRead ==
  ASSUME NEW n \in Nat, NEW w \in Nat, NEW bits \in Seq({0, 1}), Len(bits) = w,
         \A i \in 1..w : bits[i] = (n \div L!Pow2[w - i]) % 2
  PROVE  L!NumberOf(bits) = n % L!Pow2[w]
<1> DEFINE F == CHOOSE f : Counts(2, Len(bits), bits, f)
<1>1. PICK two \in Nat \ {0} : two = 2
  OBVIOUS
<1>2. \A i \in 1..w : bits[i] \in Nat
  OBVIOUS
<1>3. \E f : Counts(two, w, bits, f)
  BY <1>2, CountsUp
<1>4. Counts(two, w, bits, F)
  BY <1>1, <1>3
<1>5. L!NumberOf(bits) = F[w]
  BY Zenon DEF L!NumberOf, Counts
<1> HIDE DEF F
<1>6. PowersOf(two, L!Pow2)
  BY <1>1, LPowers DEF PowersOf
<1>7. \A i \in 1..w : bits[i] = (n \div L!Pow2[w - i]) % two
  BY <1>1
<1>8. F[w] = n % L!Pow2[w]
  BY <1>4, <1>6, <1>7, CountedIs
<1> QED BY <1>5, <1>8

(* A part of the bits is a part of the number. *)
Shifted(n, w, s, k, i) ==
  n \div L!Pow2[w - (s + i)] = (n \div L!Pow2[w - (s + k)]) \div L!Pow2[k - i]

LEMMA Shifts ==
  ASSUME NEW n \in Nat, NEW w \in Nat, NEW s \in Nat, NEW k \in Nat, s + k <= w,
         NEW i \in 1..k
  PROVE  Shifted(n, w, s, k, i)
<1> DEFINE t == w - (s + k)
           j == k - i
<1>1. t \in Nat /\ j \in Nat /\ w - (s + i) = t + j
  OBVIOUS
<1> HIDE DEF t, j
<1>2. L!Pow2[t + j] = L!Pow2[t] * L!Pow2[j]
  BY <1>1, LPowAdd
<1>3. PICK a \in Nat \ {0}, b \in Nat \ {0} : a = L!Pow2[t] /\ b = L!Pow2[j]
  BY <1>1, LPow2Nat
<1>4. n \div (a * b) = (n \div a) \div b
  <2>1. a * b = b * a /\ b * a \in Nat \ {0} /\ Splits(n, b, a)
    BY DivBase
  <2>2. PICK q \in Nat, d \in 0..b - 1 : q = n \div (b * a) /\ n \div a = b * q + d
    BY <2>1 DEF Splits
  <2>3. PICK m \in Int : m = n \div a
    BY <2>2
  <2>4. m = q * b + d
    BY <2>2, <2>3
  <2>5. m \div b = q
    BY <2>4, DivModIs
  <2> QED BY <2>1, <2>2, <2>3, <2>5
<1> QED BY <1>1, <1>2, <1>3, <1>4 DEF t, j, Shifted

PartOf(bits, n, w, s, k) ==
  /\ bits \in Seq({0, 1}) /\ Len(bits) = k
  /\ \A i \in 1..k : bits[i] = L!BitsOf(n, w)[s + i]

LEMMA PartRead ==
  ASSUME NEW n \in Nat, NEW w \in Nat, NEW s \in Nat, NEW k \in Nat, s + k <= w,
         NEW bits, PartOf(bits, n, w, s, k)
  PROVE  L!NumberOf(bits) = (n \div L!Pow2[w - (s + k)]) % L!Pow2[k]
<1>1. w - (s + k) \in Nat
  OBVIOUS
<1>2. PICK p \in Nat \ {0} : p = L!Pow2[w - (s + k)]
  BY <1>1, LPow2Nat
<1>3. PICK m \in Nat : m = n \div p
  <2>1. PICK two \in Nat \ {0} : two = 2
    OBVIOUS
  <2>2. Splits(n, two, p)
    BY <2>1, DivBase
  <2>3. n \div p \in Nat
    BY <2>1, <2>2 DEF Splits
  <2> QED BY <2>3
<1>4. ASSUME NEW i \in 1..k PROVE bits[i] = (m \div L!Pow2[k - i]) % 2
  <2>1. s + i \in 1..w
    OBVIOUS
  <2>2. L!BitsOf(n, w)[s + i] = (n \div L!Pow2[w - (s + i)]) % 2
    BY <2>1, BitsAre
  <2>3. Shifted(n, w, s, k, i)
    BY Shifts
  <2> QED BY <1>2, <1>3, <2>2, <2>3 DEF Shifted, PartOf
<1>5. L!NumberOf(bits) = m % L!Pow2[k]
  BY <1>4, NumberRead DEF PartOf
<1> QED BY <1>2, <1>3, <1>5
(* What a token says, and how its bits stand in the stream. *)
Symbols == 0..(L!Pow2[NextBits] - 1)

MatchRecords == [offset : Nat, length : Nat, next : Symbols]

Fits(m) ==
  /\ m \in MatchRecords
  /\ m.length > 1 => m.length - 2 < L!Pow2[LengthBits] /\ m.offset < L!Pow2[OffsetBits]

TokenLength(m) == IF m.length > 1 THEN L!PhraseBits ELSE L!SymbolBits

PhraseNumber(m) ==
  L!Pow2[L!PhraseBits - 1] + m.offset * L!Pow2[LengthBits + NextBits]
    + (m.length - 2) * L!Pow2[NextBits] + m.next

LEMMA Joined ==
  ASSUME NEW F \in Nat, NEW p \in Nat, NEW f \in 0..F - 1, NEW x \in 0..p - 1
  PROVE  f * p + x \in 0..(F * p) - 1
<1>1. (f + 1) * p <= F * p
  BY Times
<1>2. 0 * p <= f * p
  BY Times
<1>3. (f + 1) * p = f * p + p /\ f * p \in Int /\ F * p \in Int
  OBVIOUS
<1> QED BY <1>1, <1>2, <1>3

LEMMA PhraseIs ==
  ASSUME NEW m, Fits(m), m.length > 1
  PROVE  LET n == PhraseNumber(m) f == m.offset * L!Pow2[LengthBits] + (m.length - 2) IN
         /\ n \in Nat
         /\ (n \div L!Pow2[L!PhraseBits - 1]) % 2 = 1
         /\ (n \div L!Pow2[NextBits]) % L!Pow2[OffsetBits + LengthBits] = f
         /\ n % L!Pow2[NextBits] = m.next
         /\ f % L!Pow2[LengthBits] = m.length - 2 /\ f \div L!Pow2[LengthBits] = m.offset
<1>1. PICK o \in Nat \ {0}, l \in Nat \ {0}, p \in Nat \ {0} :
         o = L!Pow2[OffsetBits] /\ l = L!Pow2[LengthBits] /\ p = L!Pow2[NextBits]
  BY LzConstants, LPow2Nat
<1>2. PICK O \in 0..o - 1, k \in 0..l - 1, x \in 0..p - 1 :
        O = m.offset /\ k = m.length - 2 /\ x = m.next
  <2>1. m.offset \in Nat /\ m.length \in Nat /\ m.next \in 0..p - 1
    BY <1>1 DEF Fits, MatchRecords, Symbols
  <2>2. m.length - 2 < l /\ m.offset < o
    BY <1>1 DEF Fits
  <2>3. m.offset \in 0..o - 1 /\ m.length - 2 \in 0..l - 1
    BY <2>1, <2>2
  <2> QED BY <2>1, <2>3
<1>3. PICK ol \in Nat \ {0} : ol = o * l /\ ol = L!Pow2[OffsetBits + LengthBits]
  <2>1. OffsetBits + LengthBits \in Nat
    BY LzConstants
  <2>2. L!Pow2[OffsetBits + LengthBits] = o * l
    BY <1>1, LzConstants, LPowAdd
  <2> QED BY <2>1, <2>2, LPow2Nat
<1>4. PICK f \in 0..ol - 1 : f = O * l + k
  BY <1>3, Joined
<1>5. PICK r \in 0..(ol * p) - 1 : r = f * p + x
  BY Joined
<1>6. PICK olp \in Nat \ {0} : olp = ol * p /\ olp = L!Pow2[L!PhraseBits - 1]
  <2>1. /\ OffsetBits + LengthBits \in Nat
        /\ L!PhraseBits - 1 = (OffsetBits + LengthBits) + NextBits /\ L!PhraseBits - 1 \in Nat
    BY LzConstants
  <2>2. L!Pow2[(OffsetBits + LengthBits) + NextBits] = ol * p
    BY <1>1, <1>3, <2>1, LzConstants, LPowAdd
  <2> QED BY <2>1, <2>2, LPow2Nat
<1>7. PICK lp \in Nat : lp = l * p /\ lp = L!Pow2[LengthBits + NextBits]
  <2>1. L!Pow2[LengthBits + NextBits] = l * p
    BY <1>1, LzConstants, LPowAdd
  <2> QED BY <2>1
<1>8. PICK n \in Nat : n = olp + r
  BY <1>5, <1>6
<1>9. PhraseNumber(m) = n
  <2>1. f * p = (O * l) * p + k * p
    BY <1>4
  <2>2. (O * l) * p = O * lp
    BY <1>7
  <2>3. (O * l) * p \in Int /\ k * p \in Int
    BY <1>4
  <2>4. n = olp + O * lp + k * p + x
    BY <1>5, <1>8, <2>1, <2>2, <2>3
  <2>5. PhraseNumber(m) = olp + O * lp + k * p + x
    BY <1>1, <1>2, <1>6, <1>7 DEF PhraseNumber
  <2> QED BY <2>4, <2>5
<1>10. (n \div olp) % 2 = 1
  <2>1. PICK s \in 0..olp - 1 : s = r
    BY <1>5, <1>6
  <2>2. n = 1 * olp + s
    BY <1>8, <2>1
  <2>3. n \div olp = 1
    BY <2>2, DivModIs
  <2> QED BY <2>3
<1>11. PICK g \in Nat : g = ol + f
  BY <1>3, <1>4
<1>12. n = g * p + x
  <2>1. g * p = ol * p + f * p
    BY <1>4, <1>11
  <2>2. ol * p \in Int /\ f * p \in Int
    BY <1>4
  <2> QED BY <1>5, <1>6, <1>8, <2>1, <2>2
<1>13. n \div p = g /\ n % p = x
  BY <1>12, DivModIs
<1>14. g % ol = f
  <2>1. g = 1 * ol + f
    BY <1>11
  <2> QED BY <2>1, DivModIs
<1>15. f % l = k /\ f \div l = O
  <2>1. f = O * l + k /\ f \in Int /\ O \in Int
    BY <1>4
  <2> QED BY <2>1, DivModIs
<1> QED BY <1>1, <1>2, <1>3, <1>4, <1>6, <1>9, <1>10, <1>13, <1>14, <1>15

LEMMA TokenIs ==
  ASSUME NEW m, Fits(m)
  PROVE  /\ L!TokenBits(m) \in Seq({0, 1}) /\ Len(L!TokenBits(m)) = TokenLength(m)
         /\ TokenLength(m) \in Nat \ {0}
         /\ L!TokenBits(m) = IF m.length > 1 THEN L!BitsOf(PhraseNumber(m), L!PhraseBits)
                             ELSE L!BitsOf(m.next, L!SymbolBits)
<1>1. m.next \in Nat /\ m.length \in Nat
  BY LzConstants, LPow2Nat DEF Fits, MatchRecords, Symbols
<1>2. L!PhraseBits \in Nat \ {0} /\ L!SymbolBits \in Nat \ {0}
  BY LzConstants
<1>3. L!TokenBits(m) = IF m.length > 1 THEN L!BitsOf(PhraseNumber(m), L!PhraseBits)
                       ELSE L!BitsOf(m.next, L!SymbolBits)
  BY LzConstants DEF L!TokenBits, PhraseNumber
<1>4. CASE m.length > 1
  <2>1. PhraseNumber(m) \in Nat
    BY <1>4, PhraseIs
  <2> QED BY <1>2, <1>3, <1>4, <2>1, BitsAre DEF TokenLength
<1>5. CASE ~ (m.length > 1)
  <2>1. PICK n \in Nat, w \in Nat \ {0} : n = m.next /\ w = L!SymbolBits
    BY <1>1, <1>2
  <2>2. L!BitsOf(n, w) \in Seq({0, 1}) /\ Len(L!BitsOf(n, w)) = w
    BY BitsAre
  <2> QED BY <1>3, <1>5, <2>1, <2>2 DEF TokenLength
<1> QED BY <1>4, <1>5

TokenAt(a, m) ==
  /\ a \in Nat /\ a + TokenLength(m) <= Len(stream)
  /\ \A i \in 1..TokenLength(m) : stream[a + i] = L!TokenBits(m)[i]

BitsAt(a, n, w) ==
  a + w <= Len(stream) /\ \A i \in 1..w : stream[a + i] = L!BitsOf(n, w)[i]

PartIs(a, n, w, s, k) ==
  L!BitString(a + s, k) = (n \div L!Pow2[w - (s + k)]) % L!Pow2[k]

LEMMA StreamPart ==
  ASSUME stream \in Seq({0, 1}), NEW a \in Nat, NEW n \in Nat, NEW w \in Nat,
         BitsAt(a, n, w),
         NEW s \in Nat, NEW k \in Nat, s + k <= w
  PROVE  PartIs(a, n, w, s, k)
<1> DEFINE bits == SubSeq(stream, a + s + 1, a + s + k)
<1>1. a + s + 1 \in 1..Len(stream) + 1 /\ a + s + k \in 0..Len(stream)
  BY DEF BitsAt
<1>2. bits \in Seq({0, 1}) /\ Len(bits) = k /\ \A i \in 1..k : bits[i] = stream[a + s + i]
  <2>1. Len(bits) = k /\ \A i \in 1..k : bits[i] = stream[a + s + i]
    BY <1>1
  <2>2. bits \in Seq({0, 1})
    <3>1. \A i \in (a + s + 1)..(a + s + k) : stream[i] \in {0, 1}
      BY <1>1
    <3> QED BY <1>1, <2>1, <3>1
  <2> QED BY <2>1, <2>2
<1> HIDE DEF bits
<1>3. ASSUME NEW i \in 1..k PROVE bits[i] = L!BitsOf(n, w)[s + i]
  <2>1. s + i \in 1..w /\ a + (s + i) = a + s + i
    OBVIOUS
  <2> QED BY <1>2, <2>1 DEF BitsAt
<1>4. L!NumberOf(bits) = (n \div L!Pow2[w - (s + k)]) % L!Pow2[k]
  <2>1. PartOf(bits, n, w, s, k)
    BY <1>2, <1>3 DEF PartOf
  <2> QED BY <2>1, PartRead
<1>5. L!BitString(a + s, k) = L!NumberOf(bits)
  BY DEF L!BitString, bits
<1> QED BY <1>4, <1>5 DEF PartIs
(* A token that stands in the stream is read as what it says. *)
LEMMA PhraseRead ==
  ASSUME stream \in Seq({0, 1}), NEW a, NEW m, Fits(m), TokenAt(a, m), m.length > 1
  PROVE  /\ stream[a + 1] = 1
         /\ LET fields == L!BitString(a + 1, OffsetBits + LengthBits) IN
            /\ fields % L!Pow2[LengthBits] = m.length - 2
            /\ fields \div L!Pow2[LengthBits] = m.offset
         /\ L!BitString(a + 1 + (OffsetBits + LengthBits), NextBits) = m.next
<1>1. PICK n \in Nat : n = PhraseNumber(m)
  BY PhraseIs
<1>2. PICK w \in Nat : w = L!PhraseBits /\ w = 1 + OffsetBits + LengthBits + NextBits
  BY LzConstants
<1>3. /\ a \in Nat /\ a + w <= Len(stream)
      /\ \A i \in 1..w : stream[a + i] = L!BitsOf(n, w)[i]
  BY <1>1, <1>2, TokenIs DEF TokenAt, TokenLength
<1>10. a \in Nat /\ BitsAt(a, n, w)
  BY <1>3 DEF BitsAt
<1>4. PICK k \in Nat : k = OffsetBits + LengthBits
  BY LzConstants
<1>5. /\ NextBits \in Nat /\ w - (1 + k) = NextBits /\ w - (1 + k + NextBits) = 0
      /\ 1 + k <= w /\ 1 + k + NextBits <= w /\ 1 \in 1..w
  BY <1>2, <1>4, LzConstants
<1>6. stream[a + 1] = 1
  <2>1. stream[a + 1] = L!BitsOf(n, w)[1]
    BY <1>3, <1>5
  <2>2. L!BitsOf(n, w)[1] = (n \div L!Pow2[w - 1]) % 2
    BY <1>5, BitsAre
  <2> QED BY <1>1, <1>2, <2>1, <2>2, PhraseIs
<1>7. PICK one \in Nat : one = 1
  OBVIOUS
<1>8. L!BitString(a + 1, k) = (n \div L!Pow2[NextBits]) % L!Pow2[k]
  <2>1. one + k <= w
    BY <1>5, <1>7
  <2>2. PartIs(a, n, w, one, k)
    BY <1>10, <2>1, StreamPart
  <2> QED BY <1>5, <1>7, <2>2 DEF PartIs
<1>9. L!BitString(a + 1 + k, NextBits) = n % L!Pow2[NextBits]
  <2>1. PICK s \in Nat : s = 1 + k
    OBVIOUS
  <2>2. s + NextBits <= w /\ w - (s + NextBits) = 0
    BY <1>5, <2>1
  <2>6. NextBits \in Nat
    BY <1>5
  <2>3. PartIs(a, n, w, s, NextBits)
    BY <1>10, <2>2, <2>6, StreamPart
  <2>4. n \div L!Pow2[0] = n
    BY LPowers
  <2>5. a + s = a + 1 + k
    BY <1>3, <2>1
  <2> QED BY <2>2, <2>3, <2>4, <2>5 DEF PartIs
<1> QED BY <1>1, <1>4, <1>6, <1>8, <1>9, PhraseIs

LEMMA SymbolRead ==
  ASSUME stream \in Seq({0, 1}), NEW a, NEW m, Fits(m), TokenAt(a, m), ~ (m.length > 1)
  PROVE  stream[a + 1] = 0 /\ L!BitString(a + 1, NextBits) = m.next
<1>1. PICK p \in Nat \ {0} : p = L!Pow2[NextBits]
  BY LzConstants, LPow2Nat
<1>2. PICK n \in 0..p - 1 : n = m.next
  BY <1>1 DEF Fits, MatchRecords, Symbols
<1>3. PICK w \in Nat : w = L!SymbolBits /\ w = 1 + NextBits
  BY LzConstants
<1>4. /\ a \in Nat /\ a + w <= Len(stream)
      /\ \A i \in 1..w : stream[a + i] = L!BitsOf(n, w)[i]
  BY <1>2, <1>3, TokenIs DEF TokenAt, TokenLength
<1>9. BitsAt(a, n, w)
  BY <1>4 DEF BitsAt
<1>5. NextBits \in Nat /\ w - 1 = NextBits /\ w - (1 + NextBits) = 0 /\ 1 \in 1..w
  BY <1>3, LzConstants
<1>6. n \div p = 0 /\ n % p = n
  <2>1. n = 0 * p + n /\ n \in Int
    OBVIOUS
  <2> QED BY <2>1, DivModIs
<1>7. stream[a + 1] = 0
  <2>1. stream[a + 1] = L!BitsOf(n, w)[1]
    BY <1>4, <1>5
  <2>2. L!BitsOf(n, w)[1] = (n \div L!Pow2[w - 1]) % 2
    BY <1>5, BitsAre
  <2> QED BY <1>1, <1>5, <1>6, <2>1, <2>2
<1>8. L!BitString(a + 1, NextBits) = n
  <2>1. PICK one \in Nat : one = 1
    OBVIOUS
  <2>2. one + NextBits <= w /\ w - (one + NextBits) = 0 /\ n \in Nat
    BY <1>3, <1>5, <2>1
  <2>3. PartIs(a, n, w, one, NextBits)
    BY <1>4, <1>5, <1>9, <2>2, StreamPart
  <2>4. n \div L!Pow2[0] = n
    BY LPowers
  <2> QED BY <1>1, <1>6, <2>1, <2>2, <2>3, <2>4 DEF PartIs
<1> QED BY <1>2, <1>7, <1>8
--------------------------------------------------------------------------------
(* The fields of the header. *)
FieldLength(n) == IF n <= L!OneByteMost THEN 1 ELSE IF n <= L!Weight[2] THEN 3 ELSE 5

FieldAt(data, offset, n) ==
  /\ offset + FieldLength(n) <= Len(data)
  /\ \A i \in 1..FieldLength(n) : data[offset + i] = L!EncodeHeaderField(n)[i]

LEMMA WeightFacts ==
  /\ L!Weight[2] \in Nat /\ L!Weight[4] \in Nat
  /\ PowersOf(ByteSpan, L!Weight) /\ ByteSpan \in Nat \ {0} /\ L!OneByteMost = ByteSpan - 4
BY Weights, LzConstants DEF PowersOf, L!OneByteMost

LEMMA WeightNat == ASSUME NEW n \in Nat PROVE L!Weight[n] \in Nat \ {0}
BY WeightFacts, PowersNat

LEMMA BytesAre ==
  ASSUME NEW n \in Nat, NEW k \in Nat
  PROVE  /\ L!Bytes(n, k) \in Seq(Nat) /\ Len(L!Bytes(n, k)) = k
         /\ \A i \in 1..k : L!Bytes(n, k)[i] = (n \div L!Weight[k - i]) % ByteSpan
<1>1. L!Bytes(n, k) = [i \in 1..k |-> (n \div L!Weight[k - i]) % ByteSpan]
  BY DEF L!Bytes
<1>2. ASSUME NEW i \in 1..k PROVE (n \div L!Weight[k - i]) % ByteSpan \in Nat
  <2>1. k - i \in Nat
    OBVIOUS
  <2>2. L!Weight[k - i] \in Nat /\ L!Weight[k - i] # 0
    BY <2>1, WeightNat
  <2>3. PICK p \in Nat \ {0} : p = L!Weight[k - i]
    BY <2>2
  <2>4. PICK c \in Nat \ {0} : c = ByteSpan
    BY LzConstants
  <2>5. Splits(n, c, p)
    BY DivBase
  <2>6. (n \div p) % c \in 0..c - 1
    BY <2>5 DEF Splits
  <2> QED BY <2>3, <2>4, <2>6
<1>3. L!Bytes(n, k) \in [1..k -> Nat]
  BY <1>1, <1>2
<1>4. L!Bytes(n, k) \in Seq(Nat) /\ Len(L!Bytes(n, k)) = k
  BY <1>3
<1> QED BY <1>1, <1>4

LEMMA EncodedIs ==
  ASSUME NEW n \in Nat
  PROVE  L!EncodeHeaderField(n) \in Seq(Nat) /\ Len(L!EncodeHeaderField(n)) = FieldLength(n)
<1>1. L!OneByteMost \in Nat
  BY LzConstants DEF L!OneByteMost
<1>2. L!Weight[2] \in Nat
  BY WeightFacts
<1>3. CASE n <= L!OneByteMost
  BY <1>3 DEF L!EncodeHeaderField, FieldLength
<1>4. CASE ~ (n <= L!OneByteMost) /\ n <= L!Weight[2]
  <2>1. PICK two \in Nat : two = 2
    OBVIOUS
  <2>2. L!Bytes(n, two) \in Seq(Nat) /\ Len(L!Bytes(n, two)) = two
    BY BytesAre
  <2>3. L!EncodeHeaderField(n) = <<L!OneByteMost + 1>> \o L!Bytes(n, two)
    BY <1>4, <2>1 DEF L!EncodeHeaderField
  <2> QED BY <1>1, <1>4, <2>1, <2>2, <2>3 DEF FieldLength
<1>5. CASE ~ (n <= L!OneByteMost) /\ ~ (n <= L!Weight[2])
  <2>1. PICK four \in Nat : four = 4
    OBVIOUS
  <2>2. PICK bytes \in Seq(Nat) : bytes = L!Bytes(n, four) /\ Len(bytes) = 4
    BY <2>1, BytesAre
  <2>3. PICK id \in Nat : id = L!OneByteMost + 2
    BY <1>1
  <2>4. L!EncodeHeaderField(n) = <<id>> \o bytes
    BY <1>5, <2>1, <2>2, <2>3 DEF L!EncodeHeaderField
  <2>5. FieldLength(n) = 5
    BY <1>5 DEF FieldLength
  <2>6. Len(<<id>> \o bytes) = 5 /\ <<id>> \o bytes \in Seq(Nat)
    <3>0. <<id>> \in Seq(Nat) /\ Len(<<id>>) = 1
      OBVIOUS
    <3>1. PICK front \in Seq(Nat) : front = <<id>> /\ Len(front) = 1
      BY <3>0
    <3>2. front \o bytes \in Seq(Nat) /\ Len(front \o bytes) = Len(front) + Len(bytes)
      OBVIOUS
    <3> QED BY <2>2, <3>1, <3>2
  <2> QED BY <2>4, <2>5, <2>6
<1> QED BY <1>3, <1>4, <1>5
ByteRounds(data, offset, k, f) ==
  f = [i \in 0..k |->
         IF i = 0 THEN 0
         ELSE ByteSpan * f[i - 1]
                + (IF offset + 1 + i <= Len(data) THEN data[offset + 1 + i] ELSE 0)]

(* The number that k bytes make. *)
BytesValue(data, offset, k) == (CHOOSE f : ByteRounds(data, offset, k, f))[k]

BytesAt(data, offset, n, k) ==
  /\ Len(data) \in Nat /\ offset + 1 + k <= Len(data)
  /\ \A i \in 1..k : data[offset + 1 + i] = L!Bytes(n, k)[i]

LEMMA BytesRead ==
  ASSUME NEW data, NEW offset \in Nat, NEW n \in Nat, NEW k \in Nat,
         BytesAt(data, offset, n, k)
  PROVE  BytesValue(data, offset, k) = n % L!Weight[k]
<1> DEFINE d == L!Bytes(n, k)
           F == CHOOSE f : ByteRounds(data, offset, k, f)
<1>1. \A i \in 1..k : d[i] = (n \div L!Weight[k - i]) % ByteSpan /\ d[i] \in Nat
  <2>1. d \in Seq(Nat) /\ Len(d) = k
    BY BytesAre
  <2>2. \A i \in 1..k : d[i] \in Nat
    BY <2>1
  <2> QED BY <2>2, BytesAre
<1> HIDE DEF d
<1>2. ByteSpan \in Nat \ {0} /\ PowersOf(ByteSpan, L!Weight)
  BY WeightFacts
<1>3. ASSUME NEW f, NEW i \in 0..k, i # 0
      PROVE  ByteSpan * f[i - 1] + (IF offset + 1 + i <= Len(data) THEN data[offset + 1 + i] ELSE 0)
               = ByteSpan * f[i - 1] + d[i]
  <2>1. i \in 1..k /\ offset + 1 + i <= Len(data)
    BY <1>3 DEF BytesAt
  <2>2. (IF offset + 1 + i <= Len(data) THEN data[offset + 1 + i] ELSE 0) = d[i]
    BY <2>1 DEF d, BytesAt
  <2> QED BY <2>2, Zenon
<1>4. \A f : ByteRounds(data, offset, k, f) <=> Counts(ByteSpan, k, d, f)
  <2> TAKE f
  <2>1. \A i \in 0..k :
          (IF i = 0 THEN 0
           ELSE ByteSpan * f[i - 1]
                  + (IF offset + 1 + i <= Len(data) THEN data[offset + 1 + i] ELSE 0))
            = (IF i = 0 THEN 0 ELSE ByteSpan * f[i - 1] + d[i])
    BY <1>3, Zenon
  <2> QED BY <2>1, Zenon DEF ByteRounds, Counts
<1>5. \E f : Counts(ByteSpan, k, d, f)
  BY <1>1, <1>2, CountsUp
<1>6. Counts(ByteSpan, k, d, F)
  BY <1>4, <1>5
<1> HIDE DEF F
<1>7. F[k] = n % L!Weight[k]
  BY <1>1, <1>2, <1>6, CountedIs
<1> QED BY <1>7 DEF F, BytesValue

Decoded(data, offset, n) ==
  L!DecodeHeaderField(data, offset) = [value |-> n, offset |-> offset + FieldLength(n)]

LEMMA FieldRead ==
  ASSUME NEW data \in Seq(Nat), NEW offset \in Nat, NEW n \in Nat, FieldAt(data, offset, n),
         n \notin {L!OneByteMost, L!Weight[2]}, n < L!Weight[4]
  PROVE  Decoded(data, offset, n)
<1> DEFINE id == data[offset + 1]
           E == L!EncodeHeaderField(n)
<1>1. PICK most \in Nat, w \in Nat, W \in Nat :
        most = L!OneByteMost /\ w = L!Weight[2] /\ W = L!Weight[4]
  <2>1. L!Weight[2] \in Nat /\ L!Weight[4] \in Nat
    BY WeightFacts
  <2>2. L!OneByteMost \in Nat
    BY LzConstants DEF L!OneByteMost
  <2> QED BY <2>1, <2>2
<1>2. /\ offset + FieldLength(n) <= Len(data) /\ FieldLength(n) \in {1, 3, 5}
      /\ \A i \in 1..FieldLength(n) : data[offset + i] = E[i]
  BY DEF FieldAt, FieldLength
<1> HIDE DEF E
<1>3. id = E[1]
  BY <1>2
<1>4. CASE n <= most
  <2>1. E = <<n>> /\ FieldLength(n) = 1
    BY <1>1, <1>4 DEF E, L!EncodeHeaderField, FieldLength
  <2>2. id = n /\ n < most
    BY <1>1, <1>3, <1>4, <2>1
  <2> QED BY <1>1, <2>1, <2>2 DEF L!DecodeHeaderField, Decoded
<1> DEFINE Form(k, e) ==
             /\ n < L!Weight[k] /\ FieldLength(n) = 1 + k
             /\ E = <<e>> \o L!Bytes(n, k) /\ e > most
             /\ k = IF e = most + 1 THEN 2 ELSE 4
<1>5. ASSUME NEW k \in Nat, NEW e \in Nat, Form(k, e) PROVE Decoded(data, offset, n)
  <2>1. PICK bytes \in Seq(Nat) : bytes = L!Bytes(n, k) /\ Len(bytes) = k
    <3>1. L!Bytes(n, k) \in Seq(Nat) /\ Len(L!Bytes(n, k)) = k
      BY BytesAre
    <3> QED BY <3>1
  <2>2. E[1] = e /\ \A i \in 1..k : E[1 + i] = bytes[i]
    BY <1>5, <2>1
  <2>3. offset + 1 + k <= Len(data) /\ Len(data) \in Nat
    <3>1. Len(data) \in Nat
      OBVIOUS
    <3>2. offset + (1 + k) <= Len(data)
      BY <1>2, <1>5
    <3> QED BY <3>1, <3>2
  <2>4. ASSUME NEW i \in 1..k PROVE data[offset + 1 + i] = L!Bytes(n, k)[i]
    <3>1. 1 + i \in 1..FieldLength(n) /\ offset + (1 + i) = offset + 1 + i
      BY <1>5
    <3> QED BY <1>2, <2>1, <2>2, <3>1
  <2>5. BytesValue(data, offset, k) = n % L!Weight[k]
    <3>1. BytesAt(data, offset, n, k)
      BY <2>3, <2>4 DEF BytesAt
    <3> QED BY <3>1, BytesRead
  <2>6. n % L!Weight[k] = n
    <3>1. PICK p \in Nat \ {0} : p = L!Weight[k]
      BY WeightNat
    <3>2. n = 0 * p + n /\ n \in 0..p - 1 /\ n \in Int
      BY <1>5, <3>1
    <3> QED BY <3>1, <3>2, DivModIs
  <2>7. id = e /\ ~ (id < most) /\ k = IF id = most + 1 THEN 2 ELSE 4
    BY <1>3, <1>5, <2>2
  <2>8. L!DecodeHeaderField(data, offset)
          = [value |-> BytesValue(data, offset, k), offset |-> offset + 1 + k]
    BY <1>1, <2>7, Zenon DEF L!DecodeHeaderField, ByteRounds, BytesValue
  <2>9. offset + 1 + k = offset + FieldLength(n)
    BY <1>5
  <2> QED BY <2>5, <2>6, <2>8, <2>9 DEF Decoded
<1> HIDE DEF Form
<1>6. CASE ~ (n <= most) /\ n <= w
  <2>1. PICK two \in Nat : two = 2
    OBVIOUS
  <2>2. PICK e \in Nat : e = most + 1
    OBVIOUS
  <2>3. E = <<e>> \o L!Bytes(n, two) /\ FieldLength(n) = 1 + two
    BY <1>1, <1>6, <2>1, <2>2 DEF E, L!EncodeHeaderField, FieldLength
  <2>4. n < L!Weight[two]
    BY <1>1, <1>6, <2>1
  <2>5. Form(two, e)
    BY <1>1, <2>1, <2>2, <2>3, <2>4 DEF Form
  <2> QED BY <1>5, <2>5
<1>7. CASE ~ (n <= most) /\ ~ (n <= w)
  <2>1. PICK four \in Nat : four = 4
    OBVIOUS
  <2>2. PICK e \in Nat : e = most + 2
    OBVIOUS
  <2>3. E = <<e>> \o L!Bytes(n, four) /\ FieldLength(n) = 1 + four
    BY <1>1, <1>7, <2>1, <2>2 DEF E, L!EncodeHeaderField, FieldLength
  <2>4. n < L!Weight[four]
    BY <1>1, <1>7, <2>1
  <2>5. Form(four, e)
    BY <1>1, <2>1, <2>2, <2>3, <2>4 DEF Form
  <2> QED BY <1>5, <2>5
<1> QED BY <1>1, <1>4, <1>6, <1>7
--------------------------------------------------------------------------------
(* The windows of the compression, and what is found in them. *)
From(b) == IF b > L!WindowSize THEN b - L!WindowSize ELSE 0

Valid(m, b) ==
  /\ Fits(m) /\ m.length # 1
  /\ b + m.length < Len(text) /\ m.next = text[b + m.length + 1]
  /\ m.length > 1 => /\ From(b) + m.offset + m.length <= b
                     /\ \A i \in 1..m.length : text[From(b) + m.offset + i] = text[b + i]

Windows ==
  /\ buffer \in 0..Len(text) /\ text \in Seq(Symbols)
  /\ windowSize = (IF buffer < L!WindowSize THEN buffer ELSE L!WindowSize)
  /\ window = buffer - windowSize

LEMMA GreatestL ==
  ASSUME NEW S \in SUBSET Nat, NEW b \in Nat, S # {}, \A x \in S : x <= b
  PROVE  L!Max(S) \in S /\ \A y \in S : L!Max(S) >= y
<1>1. L!Max(S) = M!Max(S)
  BY DEF L!Max, M!Max
<1> QED BY <1>1, Greatest

LEMMA SmallestL ==
  ASSUME NEW S \in SUBSET Nat, S # {}
  PROVE  L!Min(S) \in S
<1>1. L!Min(S) = M!Min(S)
  BY DEF L!Min, M!Min
<1> QED BY <1>1, Smallest

LEMMA WindowFacts ==
  /\ L!WindowSize \in Nat \ {0} /\ L!WindowSize = L!Pow2[OffsetBits]
  /\ L!BufferSize = L!Pow2[LengthBits] + 2 /\ L!Pow2[LengthBits] \in Nat \ {0}
BY LzConstants, LPow2Nat DEF L!WindowSize, L!BufferSize

Agrees(n, w, windowEnd, bufferEnd) ==
  /\ n \in Nat /\ w + n <= windowEnd /\ buffer + n <= bufferEnd
  /\ \A i \in 1..n : text[w + i] = text[buffer + i]

LEMMA MatchLengthIs ==
  ASSUME buffer \in Nat, NEW w \in Nat, NEW windowEnd \in Nat, NEW bufferEnd \in Nat,
         w <= windowEnd, buffer <= bufferEnd
  PROVE  Agrees(L!MatchLength(w, windowEnd, bufferEnd), w, windowEnd, bufferEnd)
<1> DEFINE most == L!Smaller(windowEnd - w, bufferEnd - buffer)
           S == {n \in 0..most : \A i \in 1..n : text[w + i] = text[buffer + i]}
<1>1. most \in Nat /\ most <= windowEnd - w /\ most <= bufferEnd - buffer
  BY DEF L!Smaller
<1>2. L!MatchLength(w, windowEnd, bufferEnd) = L!Max(S)
  BY DEF L!MatchLength
<1> HIDE DEF most
<1>3. S \in SUBSET Nat /\ (\A x \in S : x <= most)
  BY <1>1
<1>4. 0 \in S
  BY <1>1
<1>5. L!Max(S) \in S
  <2> HIDE DEF S
  <2> QED BY <1>1, <1>3, <1>4, GreatestL
<1>6. PICK n \in S : n = L!Max(S)
  BY <1>5
<1>7. n \in 0..most /\ \A i \in 1..n : text[w + i] = text[buffer + i]
  BY <1>6
<1>8. n \in Nat /\ w + n <= windowEnd /\ buffer + n <= bufferEnd
  BY <1>1, <1>7
<1> QED BY <1>2, <1>6, <1>7, <1>8 DEF Agrees

LEMMA MatchIs ==
  ASSUME Windows, buffer < Len(text)
  PROVE  /\ Valid(L!Match, buffer) /\ L!Match.offset < L!WindowSize
         /\ window + L!Match.offset + L!Match.length <= buffer
<1> DEFINE remaining == Len(text) - buffer
           use == L!Smaller(remaining, windowSize)
           size == L!Smaller(remaining, L!BufferSize)
           length(w) == L!MatchLength(w, window + use, buffer + size - 1)
           starts == {w \in window..(window + use - 1) : length(w) >= L!MinimumUsefulMatch}
           longest == L!Max({length(w) : w \in starts})
           start == L!Min({w \in starts : length(w) = longest})
<1>1. PICK W \in Nat \ {0}, l \in Nat \ {0} :
        W = L!WindowSize /\ l = L!Pow2[LengthBits] /\ L!BufferSize = l + 2
        /\ W = L!Pow2[OffsetBits]
  BY WindowFacts
<1>2. /\ buffer \in Nat /\ Len(text) \in Nat /\ windowSize \in Nat /\ window \in Nat
      /\ windowSize <= W /\ window + windowSize = buffer /\ window = From(buffer)
  <2>1. text \in Seq(Symbols) /\ buffer \in 0..Len(text)
    BY DEF Windows
  <2>2. Len(text) \in Nat
    BY <2>1
  <2>3. buffer \in Nat
    BY <2>1, <2>2
  <2>4. windowSize = (IF buffer < W THEN buffer ELSE W) /\ window = buffer - windowSize
    BY <1>1 DEF Windows
  <2> QED BY <1>1, <2>2, <2>3, <2>4 DEF From
<1>3. /\ use \in Nat /\ use <= windowSize
      /\ size \in Nat /\ size >= 1 /\ size <= l + 2 /\ buffer + size <= Len(text)
  BY <1>1, <1>2 DEF L!Smaller
<1>4. L!Match = IF starts = {} THEN [offset |-> 0, length |-> 0, next |-> text[buffer + 1]]
                ELSE [offset |-> start - window, length |-> longest,
                      next |-> text[buffer + longest + 1]]
  BY Zenon DEF L!Match, L!CompareWindow
<1>5. \A i \in 1..Len(text) : text[i] \in Symbols
  BY DEF Windows
<1> HIDE DEF use, size
<1>6. CASE starts = {}
  <2>1. L!Match = [offset |-> 0, length |-> 0, next |-> text[buffer + 1]]
    BY <1>4, <1>6
  <2>2. text[buffer + 1] \in Symbols
    BY <1>2, <1>5
  <2>3. Fits(L!Match)
    BY <2>1, <2>2 DEF Fits, MatchRecords
  <2>4. Valid(L!Match, buffer)
    BY <1>2, <2>1, <2>3 DEF Valid
  <2> QED BY <1>1, <1>2, <2>1, <2>4
<1>7. CASE starts # {}
  <2>1. ASSUME NEW w \in starts
        PROVE  /\ w \in Nat /\ w >= window /\ w < window + use
               /\ Agrees(length(w), w, window + use, buffer + size - 1)
    <3>1. w \in Nat /\ w >= window /\ w < window + use
      BY <1>2, <1>3
    <3>2. /\ window + use \in Nat /\ buffer + size - 1 \in Nat /\ w <= window + use
          /\ buffer <= buffer + size - 1
      BY <1>2, <1>3, <3>1
    <3> QED BY <1>2, <3>1, <3>2, MatchLengthIs
  <2> DEFINE S == {length(w) : w \in starts}
             Best == {w \in starts : length(w) = longest}
  <2>2. \A w \in starts : length(w) >= L!MinimumUsefulMatch
    OBVIOUS
  <2> HIDE DEF starts, length
  <2>3. S \in SUBSET Nat /\ S # {} /\ \A x \in S : x <= size
    <3>1. ASSUME NEW w \in starts PROVE length(w) \in Nat /\ length(w) <= size
      BY <1>2, <1>3, <2>1 DEF Agrees
    <3> QED BY <1>7, <3>1
  <2>4. L!Max(S) \in S
    <3> HIDE DEF S
    <3> QED BY <1>3, <2>3, GreatestL
  <2>5. PICK u \in starts : longest = length(u)
    BY <2>4
  <2>6. Best \in SUBSET Nat /\ Best # {}
    BY <2>1, <2>5
  <2>7. L!Min(Best) \in Best
    <3> HIDE DEF Best
    <3> QED BY <2>6, SmallestL
  <2>8. PICK w \in starts : w = start /\ length(w) = longest
    BY <2>7
  <2>9. PICK k \in Nat : k = longest
    BY <2>1, <2>8 DEF Agrees
  <2>10. L!Match = [offset |-> w - window, length |-> k, next |-> text[buffer + k + 1]]
    BY <1>4, <1>7, <2>8, <2>9
  <2>11. /\ w \in Nat /\ w >= window /\ w < window + use /\ k >= 2
         /\ w + k <= window + use /\ buffer + k <= buffer + size - 1
         /\ \A i \in 1..k : text[w + i] = text[buffer + i]
    BY <2>1, <2>2, <2>8, <2>9, LzConstants DEF Agrees
  <2>12. PICK o \in Nat : o = w - window
    BY <1>2, <2>11
  <2>13. /\ o < W /\ k - 2 < l /\ window + o + k <= buffer /\ buffer + k < Len(text)
         /\ buffer + k + 1 \in 1..Len(text) /\ window + o = w
    BY <1>2, <1>3, <2>11, <2>12
  <2>14. Fits(L!Match)
    BY <1>1, <1>5, <2>10, <2>12, <2>13 DEF Fits, MatchRecords
  <2>15. Valid(L!Match, buffer)
    <3>1. /\ L!Match.length = k /\ L!Match.offset = o
          /\ L!Match.next = text[buffer + k + 1]
      BY <2>10, <2>12
    <3>2. k # 1
      BY <2>11
    <3>3. From(buffer) + o + k <= buffer
      BY <1>2, <2>13
    <3>4. \A i \in 1..k : text[From(buffer) + o + i] = text[buffer + i]
      BY <1>2, <2>11, <2>13
    <3> QED BY <2>13, <2>14, <3>1, <3>2, <3>3, <3>4 DEF Valid
  <2> QED BY <1>1, <2>10, <2>12, <2>13, <2>15
<1> QED BY <1>6, <1>7
--------------------------------------------------------------------------------
(* The cuts between the tokens: K has the positions in the stream and in   *)
(* the text where one ends.  Each but the last is where the next begins.   *)
Holds(c, K) ==
  \E m : /\ Valid(m, c[2]) /\ TokenAt(c[1], m)
         /\ <<c[1] + TokenLength(m), c[2] + m.length + 1>> \in K

Cuts(K) ==
  /\ K \in SUBSET (Nat \X Nat) /\ <<0, 0>> \in K
  /\ \A c \in K : c = <<Len(stream), buffer>> \/ Holds(c, K)

Compressing ==
  /\ Windows /\ text \in Texts
  /\ stream \in Seq({0, 1}) /\ Len(stream) <= buffer * L!SymbolBits
  /\ \E K : Cuts(K)
  /\ input = 0 /\ output = <<>> /\ source = 0

Uncompressing ==
  /\ text \in Texts /\ text \in Seq(Symbols) /\ buffer = Len(text)
  /\ stream \in Seq({0, 1})
  /\ \E K : Cuts(K) /\ <<input, Len(output)>> \in K
  /\ Len(output) <= Len(text) /\ output = SubSeq(text, 1, Len(output))
  /\ source = From(Len(output))

LzInv ==
  /\ packing \in {"idle", "compress", "uncompress", "done", "lost"}
  /\ packing = "idle" =>
       /\ text = <<>> /\ window = 0 /\ windowSize = 0 /\ buffer = 0 /\ stream = <<>>
       /\ input = 0 /\ output = <<>> /\ source = 0
  /\ packing = "compress" => Compressing
  /\ packing = "uncompress" => Uncompressing
  /\ packing = "done" => output = text /\ text \in Texts
  /\ packing = "lost" =>
       /\ output = <<>> /\ text \in Texts
       /\ {Len(stream), Len(text)} \cap {L!OneByteMost, L!Weight[2]} # {}

LEMMA LzInitially == L!Init => LzInv
BY DEF L!Init, LzInv

LEMMA CompressBegins ==
  ASSUME LzInv, NEW t \in Texts, L!Compress(t) PROVE LzInv'
<1>1. packing = "idle" /\ packing' = "compress" /\ text' = t
      /\ UNCHANGED <<window, windowSize, buffer, stream, header, input, output, source>>
  BY DEF L!Compress
<1>2. /\ window = 0 /\ windowSize = 0 /\ buffer = 0 /\ stream = <<>>
      /\ input = 0 /\ output = <<>> /\ source = 0
  BY <1>1 DEF LzInv
<1>3. t \in Seq(Symbols)
  BY LzTexts DEF Symbols
<1>4. Windows'
  BY <1>1, <1>2, <1>3, WindowFacts DEF Windows
<1>5. Cuts({<<0, 0>>})'
  BY <1>1, <1>2 DEF Cuts
<1>6. (Len(stream) <= buffer * L!SymbolBits)' /\ stream' \in Seq({0, 1})
  BY <1>1, <1>2, LzConstants
<1>7. Compressing'
  BY <1>1, <1>2, <1>4, <1>5, <1>6 DEF Compressing
<1> QED BY <1>1, <1>7 DEF LzInv

LEMMA TokenStays ==
  ASSUME stream \in Seq({0, 1}), NEW B \in Seq({0, 1}), stream' = stream \o B,
         NEW a, NEW m, Fits(m), TokenAt(a, m)
  PROVE  TokenAt(a, m)'
<1>1. /\ a \in Nat /\ a + TokenLength(m) <= Len(stream)
      /\ \A i \in 1..TokenLength(m) : stream[a + i] = L!TokenBits(m)[i]
      /\ TokenLength(m) \in Nat
  BY TokenIs DEF TokenAt
<1>2. Len(stream') = Len(stream) + Len(B) /\ Len(stream) \in Nat /\ Len(B) \in Nat
      /\ \A i \in 1..Len(stream) : stream'[i] = stream[i]
  OBVIOUS
<1>3. a + TokenLength(m) <= Len(stream')
  BY <1>1, <1>2
<1>4. ASSUME NEW i \in 1..TokenLength(m) PROVE stream'[a + i] = L!TokenBits(m)[i]
  <2>1. a + i \in 1..Len(stream)
    BY <1>1, <1>2
  <2> QED BY <1>1, <1>2, <2>1
<1> QED BY <1>1, <1>3, <1>4 DEF TokenAt

LEMMA TokenAdded ==
  ASSUME stream \in Seq({0, 1}), NEW m, Fits(m), stream' = stream \o L!TokenBits(m),
         NEW a, a = Len(stream)
  PROVE  TokenAt(a, m)' /\ Len(stream') = a + TokenLength(m) /\ stream' \in Seq({0, 1})
<1> DEFINE B == L!TokenBits(m)
<1>1. B \in Seq({0, 1}) /\ Len(B) = TokenLength(m)
  BY TokenIs
<1> HIDE DEF B
<1>2. stream' = stream \o B
  BY DEF B
<1>3. /\ Len(stream') = Len(stream) + Len(B) /\ Len(stream) \in Nat /\ Len(B) \in Nat
      /\ stream' \in Seq({0, 1})
      /\ \A i \in 1..Len(B) : stream'[Len(stream) + i] = B[i]
  <2>1. stream \in Seq({0, 1}) /\ B \in Seq({0, 1})
    BY <1>1
  <2>2. /\ Len(stream) \in Nat /\ Len(B) \in Nat
        /\ Len(stream \o B) = Len(stream) + Len(B)
    BY <2>1
  <2>3. stream \o B \in Seq({0, 1})
    BY <2>1
  <2>4. \A i \in 1..Len(B) : (stream \o B)[Len(stream) + i] = B[i]
    BY <2>1
  <2> QED BY <1>2, <2>2, <2>3, <2>4
<1> QED BY <1>1, <1>3 DEF TokenAt, B

LEMMA WindowsSlide ==
  ASSUME Windows, NEW n \in Nat \ {0}, L!SlideWindow(n), buffer' = buffer + n,
         buffer + n <= Len(text), text' = text
  PROVE  Windows'
<1>1. PICK W \in Nat \ {0} : W = L!WindowSize
  BY WindowFacts
<1>2. text \in Seq(Symbols) /\ buffer \in Nat /\ Len(text) \in Nat
  <2>1. text \in Seq(Symbols) /\ buffer \in 0..Len(text)
    BY DEF Windows
  <2>2. Len(text) \in Nat
    BY <2>1
  <2> QED BY <2>1, <2>2
<1>3. windowSize = (IF buffer < W THEN buffer ELSE W) /\ window = buffer - windowSize
  BY <1>1 DEF Windows
<1>4. /\ windowSize' = (IF buffer' < W THEN buffer' ELSE W)
      /\ window' = buffer' - windowSize'
  <2>1. CASE windowSize = W
    <3>1. window' = window + n /\ windowSize' = windowSize
      BY <1>1, <2>1 DEF L!SlideWindow
    <3> QED BY <1>2, <1>3, <2>1, <3>1
  <2>2. CASE windowSize # W /\ windowSize + n < W
    <3>1. window' = window /\ windowSize' = windowSize + n
      BY <1>1, <2>2 DEF L!SlideWindow
    <3> QED BY <1>2, <1>3, <2>2, <3>1
  <2>3. CASE windowSize # W /\ ~ (windowSize + n < W)
    <3>1. window' = window + windowSize + n - W /\ windowSize' = W
      BY <1>1, <2>3 DEF L!SlideWindow
    <3> QED BY <1>2, <1>3, <2>3, <3>1
  <2> QED BY <2>1, <2>2, <2>3
<1>5. buffer' \in 0..Len(text)
  BY <1>2
<1> QED BY <1>1, <1>2, <1>4, <1>5 DEF Windows

LEMMA TokenCompressed ==
  ASSUME LzInv, L!CompressToken PROVE LzInv'
<1>1. /\ packing = "compress" /\ buffer < Len(text)
      /\ stream' = stream \o L!TokenBits(L!Match)
      /\ buffer' = buffer + L!Match.length + 1
      /\ L!SlideWindow(L!Match.length + 1)
      /\ UNCHANGED <<packing, text, header, input, output, source>>
  BY DEF L!CompressToken
<1>2. Compressing
  BY <1>1 DEF LzInv
<1>3. /\ Windows /\ text \in Texts /\ stream \in Seq({0, 1})
      /\ Len(stream) <= buffer * L!SymbolBits
      /\ input = 0 /\ output = <<>> /\ source = 0
  BY <1>2 DEF Compressing
<1>4. PICK K : Cuts(K)
  BY <1>2 DEF Compressing
<1>5. PICK m : m = L!Match
  OBVIOUS
<1>6. PICK a, b : a = Len(stream) /\ b = buffer
  OBVIOUS
<1>7. Valid(m, b) /\ Fits(m)
  BY <1>1, <1>3, <1>5, <1>6, MatchIs DEF Valid
<1>8. m.length \in Nat /\ a \in Nat /\ b \in Nat /\ b + m.length + 1 <= Len(text)
      /\ Len(text) \in Nat
  <2>1. m.length \in Nat
    BY <1>7 DEF Fits, MatchRecords
  <2>2. text \in Seq(Symbols) /\ buffer \in 0..Len(text)
    BY <1>3 DEF Windows
  <2>3. Len(text) \in Nat
    BY <2>2
  <2>4. b + m.length < Len(text)
    BY <1>7 DEF Valid
  <2>5. a \in Nat
    BY <1>3, <1>6
  <2> QED BY <1>6, <2>1, <2>2, <2>3, <2>4, <2>5
<1>9. TokenLength(m) \in Nat \ {0} /\ L!TokenBits(m) \in Seq({0, 1})
  BY <1>7, TokenIs
<1>10. TokenAt(a, m)' /\ Len(stream') = a + TokenLength(m) /\ stream' \in Seq({0, 1})
  BY <1>1, <1>3, <1>5, <1>6, <1>7, TokenAdded
<1>11. Windows'
  <2>1. PICK n \in Nat \ {0} : n = m.length + 1
    BY <1>8
  <2>2. L!SlideWindow(n) /\ buffer' = buffer + n /\ buffer + n <= Len(text)
    BY <1>1, <1>5, <1>6, <1>8, <2>1
  <2> QED BY <1>1, <1>3, <2>2, WindowsSlide
<1>12. Len(stream') <= buffer' * L!SymbolBits
  <2>1. PICK s \in Nat \ {0} : s = L!SymbolBits /\ L!PhraseBits < 3 * s
    BY LzConstants
  <2>2. PICK n \in Nat \ {0} : n = m.length + 1
    BY <1>8
  <2>3. TokenLength(m) <= n * s
    <3>1. CASE m.length > 1
      <4>1. 3 * s <= n * s
        BY <1>8, <2>2, <3>1, Times
      <4>2. n * s \in Int /\ L!PhraseBits \in Int
        BY LzConstants
      <4> QED BY <2>1, <3>1, <4>1, <4>2 DEF TokenLength
    <3>2. CASE ~ (m.length > 1)
      <4>1. 1 * s <= n * s
        BY Times
      <4>2. n * s \in Int
        OBVIOUS
      <4> QED BY <2>1, <3>2, <4>1, <4>2 DEF TokenLength
    <3> QED BY <3>1, <3>2
  <2>4. (b + n) * s = b * s + n * s /\ b * s \in Int /\ n * s \in Int
    BY <1>8
  <2>5. buffer' = b + n
    BY <1>1, <1>5, <1>6, <1>8, <2>2
  <2> QED BY <1>3, <1>6, <1>8, <1>9, <1>10, <2>1, <2>3, <2>4, <2>5
<1>13. PICK z \in Nat \X Nat : z = <<a + TokenLength(m), b + m.length + 1>>
  <2>1. <<a + TokenLength(m), b + m.length + 1>> \in Nat \X Nat
    BY <1>8, <1>9
  <2> QED BY <2>1
<1>14. <<Len(stream'), buffer'>> = z
  BY <1>1, <1>5, <1>6, <1>10, <1>13
<1>15. Cuts(K \cup {z})'
  <2>1. K \cup {z} \in SUBSET (Nat \X Nat) /\ <<0, 0>> \in K \cup {z}
    BY <1>4 DEF Cuts
  <2>2. ASSUME NEW c \in K PROVE Holds(c, K \cup {z})'
    <3>1. CASE c = <<Len(stream), buffer>>
      <4>1. c[1] = a /\ c[2] = b
        BY <1>6, <3>1
      <4>2. Valid(m, b)'
        BY <1>1, <1>7 DEF Valid
      <4> QED BY <1>10, <1>13, <4>1, <4>2 DEF Holds
    <3>2. CASE Holds(c, K)
      <4>1. PICK t : /\ Valid(t, c[2]) /\ TokenAt(c[1], t)
                     /\ <<c[1] + TokenLength(t), c[2] + t.length + 1>> \in K
        BY <3>2 DEF Holds
      <4>2. Valid(t, c[2])' /\ Fits(t)
        BY <1>1, <4>1 DEF Valid
      <4>3. TokenAt(c[1], t)'
        <5>1. PICK B \in Seq({0, 1}) : B = L!TokenBits(m)
          BY <1>9
        <5>2. stream' = stream \o B
          BY <1>1, <1>5, <5>1
        <5> QED BY <1>3, <4>1, <4>2, <5>2, TokenStays
      <4> QED BY <4>1, <4>2, <4>3 DEF Holds
    <3> QED BY <1>4, <3>1, <3>2 DEF Cuts
  <2>3. \A c \in K \cup {z} : c = <<Len(stream'), buffer'>> \/ Holds(c, K \cup {z})'
    BY <1>14, <2>2
  <2> QED BY <2>1, <2>3 DEF Cuts
<1>16. Compressing'
  BY <1>1, <1>3, <1>10, <1>11, <1>12, <1>15 DEF Compressing
<1> QED BY <1>1, <1>16 DEF LzInv

LEMMA HeaderPlugged ==
  ASSUME LzInv, L!PlugInHeader PROVE LzInv'
<1>1. /\ packing = "compress" /\ buffer = Len(text)
      /\ header' = L!EncodeHeaderField(Len(stream)) \o L!EncodeHeaderField(Len(text))
      /\ LET front == L!DecodeHeaderField(header', 0)
             second == L!DecodeHeaderField(header', front.offset)
             misread == \/ front.offset >= Len(header')
                        \/ front.value # Len(stream) \/ second.value # Len(text)
         IN  packing' = IF misread THEN "lost" ELSE "uncompress"
      /\ UNCHANGED <<text, window, windowSize, buffer, stream, input, output, source>>
  BY DEF L!PlugInHeader
<1>2. Compressing
  BY <1>1 DEF LzInv
<1>3. /\ text \in Texts /\ stream \in Seq({0, 1}) /\ text \in Seq(Symbols)
      /\ Len(stream) <= buffer * L!SymbolBits
      /\ input = 0 /\ output = <<>> /\ source = 0
  BY <1>2 DEF Compressing, Windows
<1>4. PICK K : Cuts(K)
  BY <1>2 DEF Compressing
<1>5. PICK x \in Nat, y \in Nat : x = Len(stream) /\ y = Len(text)
  <2>1. Len(stream) \in Nat /\ Len(text) \in Nat
    BY <1>3
  <2> QED BY <2>1
<1>6. x < L!Weight[4] /\ y < L!Weight[4]
  <2>1. PICK s \in Nat \ {0} : s = L!SymbolBits
    BY LzConstants
  <2>2. y * s < L!Weight[4]
    BY <1>3, <1>5, <2>1, LzTexts
  <2>3. x <= y * s
    BY <1>1, <1>3, <1>5, <2>1
  <2>4. y * 1 <= y * s
    <3>1. 1 * y <= s * y
      BY <2>1, Times
    <3>2. s * y = y * s
      OBVIOUS
    <3> QED BY <3>1, <3>2
  <2>5. y * s \in Int /\ L!Weight[4] \in Nat
    BY <2>1, WeightFacts
  <2> QED BY <2>2, <2>3, <2>4, <2>5
<1>7. CASE packing' = "uncompress"
  <2>1. Cuts(K)'
    <3>1. ASSUME NEW c PROVE Holds(c, K) => Holds(c, K)'
      BY <1>1 DEF Holds, Valid, TokenAt
    <3> QED BY <1>1, <1>4, <3>1 DEF Cuts
  <2>2. output' = SubSeq(text', 1, Len(output')) /\ Len(output') = 0
    BY <1>1, <1>3
  <2>3. <<input', Len(output')>> \in K
    BY <1>1, <1>3, <1>4, <2>2 DEF Cuts
  <2>4. source' = From(Len(output'))
    BY <1>1, <1>3, <2>2, WindowFacts DEF From
  <2>5. Len(output') <= Len(text')
    BY <1>1, <1>5, <2>2
  <2>6. Uncompressing'
    BY <1>1, <1>3, <2>1, <2>2, <2>3, <2>4, <2>5 DEF Uncompressing
  <2> QED BY <1>7, <2>6 DEF LzInv
<1>8. CASE packing' # "uncompress"
  <2>1. {x, y} \cap {L!OneByteMost, L!Weight[2]} # {}
    <3> SUFFICES ASSUME x \notin {L!OneByteMost, L!Weight[2]},
                        y \notin {L!OneByteMost, L!Weight[2]}
                 PROVE  FALSE
      OBVIOUS
    <3>1. PICK E \in Seq(Nat), F \in Seq(Nat) :
            /\ E = L!EncodeHeaderField(x) /\ Len(E) = FieldLength(x)
            /\ F = L!EncodeHeaderField(y) /\ Len(F) = FieldLength(y)
      <4>1. /\ L!EncodeHeaderField(x) \in Seq(Nat) /\ L!EncodeHeaderField(y) \in Seq(Nat)
            /\ Len(L!EncodeHeaderField(x)) = FieldLength(x)
            /\ Len(L!EncodeHeaderField(y)) = FieldLength(y)
        BY EncodedIs
      <4> QED BY <4>1
    <3>2. PICK data \in Seq(Nat) : data = header' /\ data = E \o F
      <4>1. E \o F \in Seq(Nat)
        OBVIOUS
      <4> QED BY <1>1, <1>5, <3>1, <4>1
    <3>3. Len(data) = Len(E) + Len(F) /\ Len(E) \in Nat /\ Len(F) \in Nat
      BY <3>2
    <3>4. /\ \A i \in 1..Len(E) : data[i] = E[i]
          /\ \A i \in 1..Len(F) : data[Len(E) + i] = F[i]
      BY <3>2
    <3>5. PICK zero \in Nat : zero = 0
      OBVIOUS
    <3>6. FieldAt(data, zero, x)
      BY <3>1, <3>3, <3>4, <3>5 DEF FieldAt
    <3>7. FieldAt(data, FieldLength(x), y)
      BY <3>1, <3>3, <3>4 DEF FieldAt
    <3>8. FieldLength(x) \in Nat /\ FieldLength(y) \in Nat \ {0}
      BY DEF FieldLength
    <3>9. Decoded(data, zero, x) /\ Decoded(data, FieldLength(x), y)
      BY <1>6, <3>6, <3>7, <3>8, FieldRead
    <3>10. L!DecodeHeaderField(data, 0) = [value |-> x, offset |-> FieldLength(x)]
      BY <3>5, <3>8, <3>9 DEF Decoded
    <3>11. L!DecodeHeaderField(data, FieldLength(x)).value = y
      BY <3>9 DEF Decoded
    <3>12. ~ (FieldLength(x) >= Len(data))
      BY <3>1, <3>3, <3>8
    <3>13. packing' = "uncompress"
      BY <1>1, <1>5, <3>2, <3>10, <3>11, <3>12
    <3> QED BY <1>8, <3>13
  <2>2. packing' = "lost"
    BY <1>1, <1>8
  <2>3. output' = <<>> /\ text' \in Texts /\ Len(stream') = x /\ Len(text') = y
    BY <1>1, <1>3, <1>5
  <2> QED BY <2>1, <2>2, <2>3 DEF LzInv
<1> QED BY <1>7, <1>8

(* What is copied from the window is what the match found there. *)
LEMMA CopiedIs ==
  ASSUME NEW t \in Seq(Symbols), NEW b \in Nat, b <= Len(t), NEW f \in Nat, NEW k \in Nat,
         f + k <= b, b + k < Len(t), \A i \in 1..k : t[f + i] = t[b + i]
  PROVE  SubSeq(t, 1, b) \o SubSeq(SubSeq(t, 1, b), f + 1, f + k) \o <<t[b + k + 1]>>
           = SubSeq(t, 1, b + k + 1)
<1> DEFINE o == SubSeq(t, 1, b)
           c == SubSeq(o, f + 1, f + k)
           all == SubSeq(t, 1, b + k + 1)
<1>1. Len(t) \in Nat
  OBVIOUS
<1>2. o \in Seq(Symbols) /\ Len(o) = b /\ \A i \in 1..b : o[i] = t[i]
  BY <1>1
<1>3. all \in Seq(Symbols) /\ Len(all) = b + k + 1 /\ \A i \in 1..(b + k + 1) : all[i] = t[i]
  BY <1>1
<1> HIDE DEF o, all
<1>4. c \in Seq(Symbols) /\ Len(c) = k /\ \A i \in 1..k : c[i] = t[b + i]
  <2>1. c \in Seq(Symbols) /\ Len(c) = k /\ \A i \in 1..k : c[i] = o[f + i]
    <3>1. f + 1 \in Nat /\ f + k \in Nat /\ f + k <= Len(o) /\ f + 1 >= 1
      BY <1>2
    <3>2. Len(c) = k /\ \A i \in 1..k : c[i] = o[f + i]
      BY <1>2, <3>1
    <3>3. c \in Seq(Symbols)
      <4>1. \A i \in (f + 1)..(f + k) : o[i] \in Symbols
        BY <1>2, <3>1
      <4> QED BY <1>2, <3>1, <4>1
    <3> QED BY <3>2, <3>3
  <2>2. \A i \in 1..k : f + i \in 1..b /\ o[f + i] = t[f + i]
    BY <1>2
  <2> QED BY <2>1, <2>2
<1> HIDE DEF c
<1>5. t[b + k + 1] \in Symbols
  <2>1. b + k + 1 \in 1..Len(t)
    BY <1>1
  <2> QED BY <2>1
<1>6. PICK x \in Symbols : x = t[b + k + 1]
  BY <1>5
<1> DEFINE oc == o \o c
<1>7. /\ oc \in Seq(Symbols) /\ Len(oc) = b + k
      /\ \A i \in 1..(b + k) : oc[i] = t[i]
  <2>1. oc \in Seq(Symbols) /\ Len(oc) = b + k
    <3>1. o \in Seq(Symbols) /\ c \in Seq(Symbols) /\ Len(o) = b /\ Len(c) = k
      BY <1>2, <1>4
    <3>2. o \o c \in Seq(Symbols) /\ Len(o \o c) = Len(o) + Len(c)
      BY <3>1
    <3> QED BY <3>1, <3>2
  <2>2. ASSUME NEW i \in 1..(b + k) PROVE oc[i] = t[i]
    <3>1. CASE i <= b
      BY <1>2, <1>4, <3>1
    <3>2. CASE i > b
      <4>1. i - b \in 1..k /\ b + (i - b) = i
        BY <3>2
      <4>2. oc[i] = c[i - b]
        BY <1>2, <1>4, <3>2, <4>1
      <4> QED BY <1>4, <4>1, <4>2
    <3>3. i <= b \/ i > b
      OBVIOUS
    <3> QED BY <3>1, <3>2, <3>3
  <2> QED BY <2>1, <2>2
<1> HIDE DEF oc
<1>8. /\ oc \o <<x>> \in Seq(Symbols) /\ Len(oc \o <<x>>) = b + k + 1
      /\ \A i \in 1..(b + k + 1) : (oc \o <<x>>)[i] = t[i]
  <2>1. <<x>> \in Seq(Symbols) /\ Len(<<x>>) = 1
    OBVIOUS
  <2>2. oc \o <<x>> \in Seq(Symbols) /\ Len(oc \o <<x>>) = b + k + 1
    BY <1>7, <2>1
  <2>3. ASSUME NEW i \in 1..(b + k + 1) PROVE (oc \o <<x>>)[i] = t[i]
    <3>1. CASE i = b + k + 1
      BY <1>6, <1>7, <2>1, <3>1
    <3>2. CASE i # b + k + 1
      <4>1. i \in 1..(b + k)
        BY <3>2
      <4> QED BY <1>7, <2>1, <4>1
    <3> QED BY <3>1, <3>2
  <2> QED BY <2>2, <2>3
<1>9. oc \o <<x>> = all
  <2> DEFINE both == oc \o <<x>>
  <2>1. both \in Seq(Symbols) /\ Len(both) = Len(all) /\ \A i \in 1..Len(all) : both[i] = all[i]
    BY <1>3, <1>8
  <2> HIDE DEF both
  <2>2. both = all
    BY <1>3, <2>1
  <2> QED BY <2>2 DEF both
<1> QED BY <1>6, <1>9 DEF oc, all, o, c

(* What a token says of the text is what is written. *)
LEMMA TokenUncompressed ==
  ASSUME stream \in Seq({0, 1}), NEW t \in Seq(Symbols), t = text,
         NEW b \in Nat, b <= Len(t), output = SubSeq(t, 1, b),
         Len(output) = b, source = From(b), NEW m, Valid(m, b), TokenAt(input, m),
         L!Uncompress
  PROVE  /\ output' = SubSeq(t, 1, b + m.length + 1)
         /\ input' = input + TokenLength(m)
<1> DEFINE phrase == stream[input + 1] = 1
           fields == L!BitString(input + 1, OffsetBits + LengthBits)
           length == IF phrase THEN (fields % L!Pow2[LengthBits]) + L!MinimumUsefulMatch ELSE 0
           offset == fields \div L!Pow2[LengthBits]
           copied == IF phrase THEN SubSeq(output, source + offset + 1, source + offset + length)
                     ELSE <<>>
           after == input + 1 + (IF phrase THEN OffsetBits + LengthBits ELSE 0)
<1>1. /\ output' = output \o copied \o <<L!BitString(after, NextBits)>>
      /\ input' = after + NextBits
  BY DEF L!Uncompress
<1>2. Fits(m) /\ m.length \in Nat /\ m.offset \in Nat /\ input \in Nat
  BY DEF Valid, Fits, MatchRecords, TokenAt
<1>3. /\ m.length # 1 /\ b + m.length < Len(t) /\ m.next = t[b + m.length + 1]
      /\ m.length > 1 => /\ From(b) + m.offset + m.length <= b
                         /\ \A i \in 1..m.length : t[From(b) + m.offset + i] = t[b + i]
  BY DEF Valid
<1>4. CASE m.length > 1
  <2>1. /\ phrase /\ fields % L!Pow2[LengthBits] = m.length - 2
        /\ offset = m.offset
        /\ L!BitString(input + 1 + (OffsetBits + LengthBits), NextBits) = m.next
    BY <1>2, <1>4, PhraseRead
  <2>2. after = input + 1 + (OffsetBits + LengthBits)
    BY <2>1
  <2>3. length = m.length
    BY <1>2, <2>1, LzConstants
  <2>4. L!BitString(after, NextBits) = t[b + m.length + 1]
    BY <1>3, <2>1, <2>2
  <2> HIDE DEF phrase, length, offset, after
  <2>5. copied = SubSeq(SubSeq(t, 1, b), From(b) + m.offset + 1, From(b) + m.offset + m.length)
    BY <2>1, <2>3
  <2>6. PICK f \in Nat, k \in Nat : f = From(b) + m.offset /\ k = m.length
    BY <1>2, WindowFacts DEF From
  <2>7. f + k <= b /\ b + k < Len(t) /\ \A i \in 1..k : t[f + i] = t[b + i]
    BY <1>3, <1>4, <2>6
  <2>8. SubSeq(t, 1, b) \o SubSeq(SubSeq(t, 1, b), f + 1, f + k) \o <<t[b + k + 1]>>
          = SubSeq(t, 1, b + k + 1)
    BY <2>7, CopiedIs
  <2>9. input' = input + TokenLength(m)
    BY <1>1, <1>2, <1>4, <2>2, LzConstants DEF TokenLength
  <2> QED BY <1>1, <2>4, <2>5, <2>6, <2>8, <2>9
<1>5. CASE ~ (m.length > 1)
  <2>1. ~ phrase /\ L!BitString(input + 1, NextBits) = m.next
    BY <1>2, <1>5, SymbolRead
  <2>2. after = input + 1
    BY <1>2, <2>1
  <2>3. copied = <<>>
    BY <2>1
  <2>4. L!BitString(after, NextBits) = t[b + 1] /\ m.length = 0
    <3>1. m.length = 0
      BY <1>2, <1>3, <1>5
    <3>2. b + m.length + 1 = b + 1
      BY <3>1
    <3> QED BY <1>3, <2>1, <2>2, <3>1, <3>2
  <2> HIDE DEF phrase, copied, after
  <2>5. PICK zero \in Nat : zero = 0
    OBVIOUS
  <2>6. zero + zero <= b /\ b + zero < Len(t) /\ \A i \in 1..zero : t[zero + i] = t[b + i]
    BY <1>3, <2>4, <2>5
  <2>7. SubSeq(t, 1, b) \o SubSeq(SubSeq(t, 1, b), zero + 1, zero + zero) \o <<t[b + zero + 1]>>
          = SubSeq(t, 1, b + zero + 1)
    BY <2>6, CopiedIs
  <2>8. SubSeq(SubSeq(t, 1, b), zero + 1, zero + zero) = <<>>
    BY <2>5
  <2>9. input' = input + TokenLength(m)
    BY <1>1, <1>2, <1>5, <2>2, LzConstants DEF TokenLength
  <2> QED BY <1>1, <2>3, <2>4, <2>5, <2>7, <2>8, <2>9
<1> QED BY <1>4, <1>5

LEMMA TokenKeeps ==
  ASSUME LzInv, L!Uncompress PROVE LzInv'
<1>1. /\ packing = "uncompress" /\ input # Len(stream)
      /\ UNCHANGED <<packing, text, window, windowSize, buffer, stream, header>>
      /\ source' = IF Len(output') > L!WindowSize THEN Len(output') - L!WindowSize ELSE source
  BY DEF L!Uncompress
<1>2. Uncompressing
  BY <1>1 DEF LzInv
<1>3. /\ text \in Texts /\ text \in Seq(Symbols) /\ buffer = Len(text)
      /\ stream \in Seq({0, 1})
      /\ Len(output) <= Len(text) /\ output = SubSeq(text, 1, Len(output))
      /\ source = From(Len(output))
  BY <1>2 DEF Uncompressing
<1>4. PICK K : Cuts(K) /\ <<input, Len(output)>> \in K
  BY <1>2 DEF Uncompressing
<1>5. PICK a \in Nat, b \in Nat : a = input /\ b = Len(output)
  <2>1. <<input, Len(output)>> \in Nat \X Nat
    BY <1>4 DEF Cuts
  <2> QED BY <2>1
<1>6. PICK c \in K : c = <<a, b>> /\ c # <<Len(stream), buffer>>
  BY <1>1, <1>4, <1>5
<1>7. PICK m : /\ Valid(m, b) /\ TokenAt(a, m)
               /\ <<a + TokenLength(m), b + m.length + 1>> \in K
  <2>1. Holds(c, K)
    BY <1>4, <1>6 DEF Cuts
  <2> QED BY <1>6, <2>1 DEF Holds
<1>8. PICK t \in Seq(Symbols) : t = text
  BY <1>3
<1>9. output' = SubSeq(t, 1, b + m.length + 1) /\ input' = a + TokenLength(m)
  BY <1>3, <1>5, <1>7, <1>8, TokenUncompressed
<1>10. m.length \in Nat /\ b + m.length < Len(t) /\ Len(t) \in Nat
  <2>1. Fits(m)
    BY <1>7 DEF Valid
  <2>2. m.length \in Nat
    BY <2>1 DEF Fits, MatchRecords
  <2>3. b + m.length < Len(t)
    BY <1>7, <1>8 DEF Valid
  <2> QED BY <2>2, <2>3
<1>11. PICK d \in Nat : d = b + m.length + 1
  BY <1>10
<1>12. d <= Len(t) /\ Len(SubSeq(t, 1, d)) = d
  BY <1>10, <1>11
<1>13. Len(output') = d
  BY <1>9, <1>11, <1>12
<1>14. source' = From(d)
  <2>1. L!WindowSize \in Nat
    BY WindowFacts
  <2>2. d > b
    BY <1>10, <1>11
  <2>3. source' = IF d > L!WindowSize THEN d - L!WindowSize ELSE source
    BY <1>1, <1>13
  <2>4. source = From(b)
    BY <1>3, <1>5
  <2>5. CASE d > L!WindowSize
    BY <2>3, <2>5 DEF From
  <2>6. CASE ~ (d > L!WindowSize)
    <3>1. ~ (b > L!WindowSize)
      BY <2>1, <2>2, <2>6
    <3> QED BY <2>3, <2>4, <2>6, <3>1 DEF From
  <2> QED BY <2>5, <2>6
<1>15. Cuts(K)'
  <2>1. ASSUME NEW x PROVE Holds(x, K) => Holds(x, K)'
    BY <1>1 DEF Holds, Valid, TokenAt
  <2> QED BY <1>1, <1>4, <2>1 DEF Cuts
<1>16. <<input', Len(output')>> \in K
  BY <1>7, <1>9, <1>11, <1>13
<1>17. Uncompressing'
  BY <1>1, <1>3, <1>8, <1>9, <1>11, <1>12, <1>13, <1>14, <1>15, <1>16 DEF Uncompressing
<1> QED BY <1>1, <1>17 DEF LzInv

LEMMA AllUncompressed ==
  ASSUME LzInv, L!Uncompressed PROVE LzInv'
<1>1. /\ packing = "uncompress" /\ input = Len(stream) /\ packing' = "done"
      /\ UNCHANGED <<text, window, windowSize, buffer, stream, header, input, output, source>>
  BY DEF L!Uncompressed
<1>2. Uncompressing
  BY <1>1 DEF LzInv
<1>3. PICK K : Cuts(K) /\ <<input, Len(output)>> \in K
  BY <1>2 DEF Uncompressing
<1>4. Len(output) = Len(text)
  <2> SUFFICES ASSUME Len(output) # Len(text) PROVE FALSE
    OBVIOUS
  <2>1. PICK c \in K : c = <<input, Len(output)>>
    BY <1>3
  <2>2. c # <<Len(stream), buffer>>
    BY <1>2, <2>1 DEF Uncompressing
  <2>3. Holds(c, K)
    BY <1>3, <2>1, <2>2 DEF Cuts
  <2>4. PICK m : Valid(m, c[2]) /\ TokenAt(c[1], m)
    BY <2>3 DEF Holds
  <2>5. TokenLength(m) \in Nat \ {0}
    BY <2>4, TokenIs DEF Valid
  <2>6. input \in Nat /\ input + TokenLength(m) <= Len(stream)
    BY <2>1, <2>4 DEF TokenAt
  <2> QED BY <1>1, <2>5, <2>6
<1>5. output = text
  <2>1. text \in Seq(Symbols) /\ output = SubSeq(text, 1, Len(text))
    BY <1>2, <1>4 DEF Uncompressing
  <2>2. SubSeq(text, 1, Len(text)) = text
    BY <2>1
  <2> QED BY <2>1, <2>2
<1>6. text \in Texts
  BY <1>2 DEF Uncompressing
<1> QED BY <1>1, <1>5, <1>6 DEF LzInv

LEMMA LzInductive == LzInv /\ [L!Next]_lzVars => LzInv'
<1> SUFFICES ASSUME LzInv, [L!Next]_lzVars PROVE LzInv'
  OBVIOUS
<1>1. CASE UNCHANGED lzVars
  <2>1. UNCHANGED <<packing, text, window, windowSize, buffer, stream, header, input, output,
                    source>>
    BY <1>1 DEF lzVars
  <2>2. ASSUME NEW K PROVE Cuts(K) => Cuts(K)'
    <3>1. ASSUME NEW x PROVE Holds(x, K) => Holds(x, K)'
      BY <2>1 DEF Holds, Valid, TokenAt
    <3> QED BY <2>1, <3>1 DEF Cuts
  <2>3. Compressing => Compressing'
    BY <2>1, <2>2 DEF Compressing, Windows
  <2>4. Uncompressing => Uncompressing'
    BY <2>1, <2>2 DEF Uncompressing
  <2> QED BY <2>1, <2>3, <2>4 DEF LzInv
<1> QED BY <1>1, CompressBegins, TokenCompressed, HeaderPlugged, TokenKeeps, AllUncompressed
        DEF L!Next

LEMMA LzHolds == LzInv => L!RoundTrip /\ L!PhraseFits /\ L!HeaderRead
<1> SUFFICES ASSUME LzInv PROVE L!RoundTrip /\ L!PhraseFits /\ L!HeaderRead
  OBVIOUS
<1>1. L!RoundTrip
  <2>1. text \in Texts \/ text = <<>>
    BY DEF LzInv, Compressing, Uncompressing
  <2>2. Len(text) \in Nat /\ text = SubSeq(text, 1, Len(text))
    <3>1. CASE text = <<>>
      BY <3>1
    <3>2. CASE text \in Texts
      BY <3>2, LzTexts
    <3> QED BY <2>1, <3>1, <3>2
  <2>3. output = <<>> \/ output = text \/ Uncompressing
    BY DEF LzInv, Compressing
  <2>4. /\ Len(output) <= Len(text)
        /\ SubSeq(output, 1, Len(output)) = SubSeq(text, 1, Len(output))
    <3>1. CASE output = <<>>
      BY <2>2, <3>1
    <3>2. CASE output = text
      BY <2>2, <3>2
    <3>3. CASE Uncompressing
      <4>1. /\ text \in Seq(Symbols) /\ output = SubSeq(text, 1, Len(output))
            /\ Len(output) <= Len(text) /\ Len(output) \in Nat
        BY <3>3 DEF Uncompressing, Cuts
      <4>2. PICK n \in Nat : n = Len(output)
        BY <4>1
      <4>3. output \in Seq(Symbols)
        <5>1. SubSeq(text, 1, n) \in Seq(Symbols)
          BY <4>1, <4>2
        <5> QED BY <4>1, <4>2, <5>1
      <4>4. SubSeq(output, 1, Len(output)) = output
        BY <4>3
      <4> QED BY <4>1, <4>4
    <3> QED BY <2>3, <3>1, <3>2, <3>3
  <2>5. packing = "done" => output = text
    BY DEF LzInv
  <2> QED BY <2>4, <2>5 DEF L!RoundTrip, L!IsPrefix
<1>2. L!PhraseFits
  <2> SUFFICES ASSUME packing = "compress", buffer < Len(text)
               PROVE  /\ L!Match.length > 1 =>
                           L!Match.length - L!MinimumUsefulMatch < L!Pow2[LengthBits]
                      /\ L!Match.offset < L!WindowSize
                      /\ window + L!Match.offset + L!Match.length <= buffer
                      /\ buffer + L!Match.length < Len(text)
    BY DEF L!PhraseFits
  <2>1. Windows
    BY DEF LzInv, Compressing
  <2>2. /\ Valid(L!Match, buffer) /\ L!Match.offset < L!WindowSize
        /\ window + L!Match.offset + L!Match.length <= buffer
    BY <2>1, MatchIs
  <2> QED BY <2>2, LzConstants DEF Valid, Fits
<1>3. L!HeaderRead
  BY DEF LzInv, L!HeaderRead
<1> QED BY <1>1, <1>2, <1>3

(* Every text, however long, of symbols, offsets and lengths of any number *)
(* of bits, is uncompressed to what was compressed, every phrase fits its  *)
(* fields, and the two lengths in the header are read back unless they are *)
(* one of the two limits of the writer (lzcompress.c, lzuncompress.c,      *)
(* bit.c).                                                                 *)
THEOREM CompressionIsExact == MCSpec => []RoundTrip
<1>1. MCInit => LzInv
  BY LzInitially DEF MCInit
<1>2. LzInv /\ [MCNext]_mcVars => LzInv'
  <2>1. [MCNext]_mcVars => [L!Next]_lzVars
    BY DEF MCNext, mcVars
  <2> QED BY <2>1, LzInductive
<1>3. LzInv => RoundTrip
  BY LzHolds DEF RoundTrip
<1> QED BY <1>1, <1>2, <1>3, PTL DEF MCSpec
================================================================================
