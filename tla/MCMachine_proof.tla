---------------------------- MODULE MCMachine_proof ----------------------------
(***************************************************************************)
(* Theorems about the machine of MCMachine, for every value of the         *)
(* constants.  Of Machine: with FICL_ROBUST 2 no program leaves the array  *)
(* of a stack by words whose checks are right, whatever the sizes.  Of     *)
(* Registers, Locals and Loops, which stand in MCMachine as instances:     *)
(* what an exception finds in the VM, the frames of locals, and counted    *)
(* loops; each has an inductive invariant of its own.                      *)
(***************************************************************************)
EXTENDS MCMachine, FiniteSetTheorems, WellFoundedInduction, SequenceTheorems, TLAPS

(* In a family everything is a count of cells. *)
Typed(w) ==
  /\ w.takes \in [Stacks -> Nat]
  /\ w.gives \in [Stacks -> Nat]
  /\ w.drops \in [Stacks -> Nat]
  /\ w.open \subseteq Stacks
  /\ \A c \in w.checks : c.stack \in Stacks

Within(d) ==
  d \in [Stacks -> Int] /\ \A s \in Stacks : 0 <= d[s] /\ d[s] <= Size[s]

(* A family keeps to its arrays when its checks admit it ... *)
Guarded(w) ==
  \A d : Within(d) /\ Admits(w, d) =>
    \A s \in Stacks \ w.open :
      /\ w.takes[s] <= d[s]
      /\ d[s] - w.takes[s] + w.gives[s] <= Size[s]
      /\ w.drops[s] <= d[s] - w.takes[s] + w.gives[s]

(* ... and is admitted whenever it would fit. *)
Honest(w) ==
  \A d : Within(d) =>
    Admits(w, d) \/ ~ Fits(w, d) \/ w.names \cap Overcautious # {}

Sound(w) == Typed(w) /\ Guarded(w) /\ Honest(w)

LEMMA CellsAt ==
  ASSUME NEW d, NEW f, NEW r
  PROVE  /\ Cells(d, f, r)["data"] = d
         /\ Cells(d, f, r)["float"] = f
         /\ Cells(d, f, r)["return"] = r
BY DEF Cells, Stacks

LEMMA CellsType ==
  ASSUME NEW d \in Nat, NEW f \in Nat, NEW r \in Nat
  PROVE  Cells(d, f, r) \in [Stacks -> Nat]
BY DEF Cells, Stacks

LEMMA WrappedSmall ==
  ASSUME NEW n \in Nat, n < Span
  PROVE  Wrapped(n) = n
BY StacksAssumption DEF Wrapped

LEMMA WrappedType ==
  ASSUME NEW n \in Nat
  PROVE  Wrapped(n) \in Nat /\ Wrapped(n) <= n
BY StacksAssumption DEF Wrapped

LEMMA ExactSound ==
  ASSUME NEW level \in {Instruction, Primitive}, NEW names,
         NEW takes \in [Stacks -> Nat], NEW gives \in [Stacks -> Nat]
  PROVE  Sound(Exact(level, names, takes, gives))
<1> DEFINE w == Exact(level, names, takes, gives)
<1>1. /\ w.takes = takes /\ w.gives = gives /\ w.names = names
      /\ w.drops = Cells(0, 0, 0) /\ w.open = {}
      /\ w.checks = Matching(takes, gives)
      /\ w.level = level
  BY DEF Exact, Family, Brief
<1>2. Enforced(w) = Matching(takes, gives)
  BY <1>1, MachineAssumption DEF Enforced, Instruction, Primitive
<1>3. \A s \in Stacks : Cells(0, 0, 0)[s] = 0
  BY DEF Cells, Stacks
<1>4. Typed(w)
  BY <1>1, CellsType DEF Typed, Matching, Check
<1>5. ASSUME NEW d, Within(d)
      PROVE  Admits(w, d) <=> \A s \in Stacks : /\ takes[s] <= d[s]
                                                /\ d[s] - takes[s] + gives[s] <= Size[s]
  <2>1. \A s \in Stacks : takes[s] \in Nat /\ gives[s] \in Nat /\ d[s] \in Int /\ Size[s] \in Nat
    BY <1>5, StacksAssumption DEF Within
  <2>2. Admits(w, d) <=> \A s \in Stacks :
          takes[s] > 0 \/ gives[s] > 0 =>
            ~ (takes[s] > d[s]) /\ ~ (Size[s] - d[s] < gives[s] - takes[s])
    <3> DEFINE T == {t \in Stacks : takes[t] > 0 \/ gives[t] > 0}
               Good(c) == ~ Underflow(c, d) /\ ~ Overflow(c, d)
    <3>1. Admits(w, d) <=> \A s \in T : Good(Check(s, takes[s], gives[s]))
      BY <1>2 DEF Admits, Matching
    <3>2. \A s : Good(Check(s, takes[s], gives[s])) <=>
            ~ (takes[s] > d[s]) /\ ~ (Size[s] - d[s] < gives[s] - takes[s])
      BY DEF Check, Underflow, Overflow
    <3> QED
      BY <3>1, <3>2
  <2> QED
    BY <2>1, <2>2, <1>5 DEF Within
<1>6. Guarded(w)
  <2> SUFFICES ASSUME NEW d, Within(d), Admits(w, d), NEW s \in Stacks
               PROVE  /\ takes[s] <= d[s]
                      /\ d[s] - takes[s] + gives[s] <= Size[s]
                      /\ 0 <= d[s] - takes[s] + gives[s]
    BY <1>1, <1>3 DEF Guarded
  <2>1. takes[s] <= d[s] /\ d[s] - takes[s] + gives[s] <= Size[s]
    BY <1>5
  <2> QED
    BY <2>1 DEF Within
<1>7. Honest(w)
  BY <1>1, <1>5 DEF Honest, Fits
<1> QED
  BY <1>4, <1>6, <1>7 DEF Sound

LEMMA DataSound ==
  ASSUME NEW level \in {Instruction, Primitive}, NEW names,
         NEW take \in Nat, NEW give \in Nat
  PROVE  Sound(Data(level, names, take, give))
BY ExactSound, CellsType DEF Data

LEMMA FloatSound ==
  ASSUME NEW level \in {Instruction, Primitive}, NEW names,
         NEW take \in Nat, NEW give \in Nat
  PROVE  Sound(Float(level, names, take, give))
BY ExactSound, CellsType DEF Float

LEMMA BareSound ==
  ASSUME NEW names, NEW takes \in [Stacks -> Nat], NEW gives \in [Stacks -> Nat]
  PROVE  Sound(Bare(names, takes, gives))
<1> DEFINE w == Bare(names, takes, gives)
<1>1. /\ w.takes = takes /\ w.gives = gives /\ w.checks = {}
      /\ w.drops = Cells(0, 0, 0)
      /\ w.open = {s \in Stacks : takes[s] > 0 \/ gives[s] > 0}
  BY DEF Bare, Family, Brief
<1>2. Typed(w)
  BY <1>1, CellsType DEF Typed
<1>3. Guarded(w)
  <2> SUFFICES ASSUME NEW d, Within(d), NEW s \in Stacks,
                      ~ (takes[s] > 0 \/ gives[s] > 0)
               PROVE  /\ takes[s] <= d[s]
                      /\ d[s] - takes[s] + gives[s] <= Size[s]
                      /\ 0 <= d[s] - takes[s] + gives[s]
    <3>1. \A s \in Stacks : Cells(0, 0, 0)[s] = 0
      BY DEF Cells, Stacks
    <3> QED
      BY <1>1, <3>1 DEF Guarded
  <2>1. takes[s] = 0 /\ gives[s] = 0
    OBVIOUS
  <2> QED
    BY <2>1, StacksAssumption DEF Within
<1>4. Honest(w)
  BY <1>1 DEF Honest, Admits, Enforced
<1> QED
  BY <1>2, <1>3, <1>4 DEF Sound

LEMMA FreeSound ==
  ASSUME NEW names, NEW take \in Nat, NEW give \in Nat
  PROVE  Sound(Free(names, take, give))
BY BareSound, CellsType DEF Free

(* A check is fair to a word that takes and gives so many cells when it    *)
(* asks for no more than that; checks are safe for it when one of them     *)
(* asks for the cells taken and one for the room.                          *)
Fair(c, take, give) ==
  c.pop <= take /\ (c.push <= c.pop \/ c.push - c.pop <= give - take)

Safe(checks, s, take, give) ==
  /\ take = 0 \/ \E c \in checks : c.stack = s /\ take <= c.pop
  /\ give <= take \/ \E c \in checks : c.stack = s /\ give - take <= c.push - c.pop

LEMMA FamilySound ==
  ASSUME NEW level \in {Instruction, Primitive}, NEW names, NEW checks,
         NEW takes \in [Stacks -> Nat], NEW gives \in [Stacks -> Nat],
         NEW open \in SUBSET Stacks,
         \A c \in checks : c.stack \in Stacks /\ c.pop \in Int /\ c.push \in Int,
         \A s \in Stacks \ open : Safe(checks, s, takes[s], gives[s]),
         \/ names \cap Overcautious # {}
         \/ \A c \in checks : Fair(c, takes[c.stack], gives[c.stack])
  PROVE  Sound(Family(level, names, checks, takes, gives, open))
<1> DEFINE w == Family(level, names, checks, takes, gives, open)
<1>1. /\ w.takes = takes /\ w.gives = gives /\ w.names = names
      /\ w.drops = Cells(0, 0, 0) /\ w.open = open
      /\ w.checks = checks /\ w.level = level
  BY DEF Family, Brief
<1>2. Enforced(w) = checks
  BY <1>1, MachineAssumption DEF Enforced, Instruction, Primitive
<1>3. \A s \in Stacks : Cells(0, 0, 0)[s] = 0
  BY DEF Cells, Stacks
<1>4. Typed(w)
  BY <1>1, CellsType DEF Typed
<1>5. Guarded(w)
  <2> SUFFICES ASSUME NEW d, Within(d), Admits(w, d), NEW s \in Stacks \ open
               PROVE  /\ takes[s] <= d[s]
                      /\ d[s] - takes[s] + gives[s] <= Size[s]
                      /\ 0 <= d[s] - takes[s] + gives[s]
    BY <1>1, <1>3 DEF Guarded
  <2>1. /\ takes[s] \in Nat /\ gives[s] \in Nat /\ d[s] \in Int /\ Size[s] \in Nat
        /\ 0 <= d[s] /\ d[s] <= Size[s]
    BY StacksAssumption DEF Within
  <2>2. \A c \in checks : c.stack = s =>
          /\ c.pop \in Int /\ c.push \in Int
          /\ ~ (c.pop > d[s]) /\ ~ (Size[s] - d[s] < c.push - c.pop)
    BY <1>2 DEF Admits, Underflow, Overflow
  <2>3. Safe(checks, s, takes[s], gives[s])
    OBVIOUS
  <2>4. takes[s] <= d[s]
    BY <2>1, <2>2, <2>3 DEF Safe
  <2>5. d[s] - takes[s] + gives[s] <= Size[s]
    BY <2>1, <2>2, <2>3 DEF Safe
  <2> QED
    BY <2>1, <2>4, <2>5
<1>6. Honest(w)
  <2> SUFFICES ASSUME NEW d, Within(d), Fits(w, d), names \cap Overcautious = {},
                      NEW c \in checks
               PROVE  ~ Underflow(c, d) /\ ~ Overflow(c, d)
    BY <1>1, <1>2 DEF Honest, Admits
  <2> DEFINE s == c.stack
  <2>1. /\ takes[s] \in Nat /\ gives[s] \in Nat /\ d[s] \in Int /\ Size[s] \in Nat
        /\ d[s] <= Size[s] /\ c.pop \in Int /\ c.push \in Int
    BY StacksAssumption DEF Within
  <2>2. takes[s] <= d[s] /\ d[s] - takes[s] + gives[s] <= Size[s]
    BY <1>1 DEF Fits
  <2>3. Fair(c, takes[s], gives[s])
    OBVIOUS
  <2> HIDE DEF s
  <2>4. ~ (c.pop > d[s]) /\ ~ (Size[s] - d[s] < c.push - c.pop)
    BY <2>1, <2>2, <2>3 DEF Fair
  <2> QED
    BY <2>4 DEF Underflow, Overflow, s
<1> QED
  BY <1>4, <1>5, <1>6 DEF Sound

(* The same for families that use the data stack only: with one check,     *)
(* with two ...                                                            *)
LEMMA OnDataOne ==
  ASSUME NEW level \in {Instruction, Primitive}, NEW names,
         NEW p \in Int, NEW q \in Int,
         NEW take \in Nat, NEW give \in Nat, NEW open \in SUBSET Stacks,
         "data" \in open \/ (take <= p /\ (give <= take \/ give - take <= q - p)),
         \/ names \cap Overcautious # {}
         \/ p <= take /\ (q <= p \/ q - p <= give - take)
  PROVE  Sound(OnData(level, names, {Check("data", p, q)}, take, give, open))
<1> DEFINE checks == {Check("data", p, q)}
           takes == Cells(take, 0, 0)
           gives == Cells(give, 0, 0)
<1>1. takes \in [Stacks -> Nat] /\ gives \in [Stacks -> Nat]
  BY CellsType
<1>2. /\ \A c \in checks : c = [stack |-> "data", pop |-> p, push |-> q]
      /\ [stack |-> "data", pop |-> p, push |-> q] \in checks
  BY DEF Check
<1>3. takes["data"] = take /\ gives["data"] = give
  BY CellsAt
<1>4. \A s \in Stacks \ {"data"} : takes[s] = 0 /\ gives[s] = 0
  BY DEF Cells, Stacks
<1> HIDE DEF checks, takes, gives
<1>5. \A s \in Stacks \ open : Safe(checks, s, takes[s], gives[s])
  BY <1>2, <1>3, <1>4 DEF Safe
<1>6. \/ names \cap Overcautious # {}
      \/ \A c \in checks : Fair(c, takes[c.stack], gives[c.stack])
  BY <1>2, <1>3 DEF Fair
<1>7. \A c \in checks : c.stack \in Stacks /\ c.pop \in Int /\ c.push \in Int
  BY <1>2 DEF Stacks
<1>8. Sound(Family(level, names, checks, takes, gives, open))
  BY <1>1, <1>5, <1>6, <1>7, FamilySound
<1> QED
  BY <1>8 DEF OnData, checks, takes, gives

LEMMA OnDataTwo ==
  ASSUME NEW level \in {Instruction, Primitive}, NEW names,
         NEW p \in Int, NEW q \in Int, NEW u \in Int, NEW v \in Int,
         NEW take \in Nat, NEW give \in Nat, NEW open \in SUBSET Stacks,
         "data" \in open \/ (take <= u /\ (give <= take \/ give - take <= v - u)),
         \/ names \cap Overcautious # {}
         \/ /\ p <= take /\ (q <= p \/ q - p <= give - take)
            /\ u <= take /\ (v <= u \/ v - u <= give - take)
  PROVE  Sound(OnData(level, names, {Check("data", p, q), Check("data", u, v)},
                      take, give, open))
<1> DEFINE checks == {Check("data", p, q), Check("data", u, v)}
           takes == Cells(take, 0, 0)
           gives == Cells(give, 0, 0)
           one == [stack |-> "data", pop |-> p, push |-> q]
           two == [stack |-> "data", pop |-> u, push |-> v]
<1>1. takes \in [Stacks -> Nat] /\ gives \in [Stacks -> Nat]
  BY CellsType
<1>2. /\ \A c \in checks : c = one \/ c = two
      /\ two \in checks
  BY DEF Check
<1>3. takes["data"] = take /\ gives["data"] = give
  BY CellsAt
<1>4. \A s \in Stacks \ {"data"} : takes[s] = 0 /\ gives[s] = 0
  BY DEF Cells, Stacks
<1> HIDE DEF checks, takes, gives
<1>5. \A s \in Stacks \ open : Safe(checks, s, takes[s], gives[s])
  BY <1>2, <1>3, <1>4 DEF Safe
<1>6. \/ names \cap Overcautious # {}
      \/ \A c \in checks : Fair(c, takes[c.stack], gives[c.stack])
  BY <1>2, <1>3 DEF Fair
<1>7. \A c \in checks : c.stack \in Stacks /\ c.pop \in Int /\ c.push \in Int
  BY <1>2 DEF Stacks
<1>8. Sound(Family(level, names, checks, takes, gives, open))
  BY <1>1, <1>5, <1>6, <1>7, FamilySound
<1> QED
  BY <1>8 DEF OnData, checks, takes, gives

(* ... or the float stack only.                                            *)
LEMMA OnFloatOne ==
  ASSUME NEW level \in {Instruction, Primitive}, NEW names,
         NEW p \in Int, NEW q \in Int,
         NEW take \in Nat, NEW give \in Nat, NEW open \in SUBSET Stacks,
         "float" \in open \/ (take <= p /\ (give <= take \/ give - take <= q - p)),
         \/ names \cap Overcautious # {}
         \/ p <= take /\ (q <= p \/ q - p <= give - take)
  PROVE  Sound(OnFloat(level, names, {Check("float", p, q)}, take, give, open))
<1> DEFINE checks == {Check("float", p, q)}
           takes == Cells(0, take, 0)
           gives == Cells(0, give, 0)
<1>1. takes \in [Stacks -> Nat] /\ gives \in [Stacks -> Nat]
  BY CellsType
<1>2. /\ \A c \in checks : c = [stack |-> "float", pop |-> p, push |-> q]
      /\ [stack |-> "float", pop |-> p, push |-> q] \in checks
  BY DEF Check
<1>3. takes["float"] = take /\ gives["float"] = give
  BY CellsAt
<1>4. \A s \in Stacks \ {"float"} : takes[s] = 0 /\ gives[s] = 0
  BY DEF Cells, Stacks
<1> HIDE DEF checks, takes, gives
<1>5. \A s \in Stacks \ open : Safe(checks, s, takes[s], gives[s])
  BY <1>2, <1>3, <1>4 DEF Safe
<1>6. \/ names \cap Overcautious # {}
      \/ \A c \in checks : Fair(c, takes[c.stack], gives[c.stack])
  BY <1>2, <1>3 DEF Fair
<1>7. \A c \in checks : c.stack \in Stacks /\ c.pop \in Int /\ c.push \in Int
  BY <1>2 DEF Stacks
<1>8. Sound(Family(level, names, checks, takes, gives, open))
  BY <1>1, <1>5, <1>6, <1>7, FamilySound
<1> QED
  BY <1>8 DEF OnFloat, checks, takes, gives

(* A family that drops no more than it gave. *)
LEMMA BriefSound ==
  ASSUME NEW level, NEW names, NEW checks, NEW takes, NEW gives,
         NEW drops \in [Stacks -> Nat], NEW open,
         Sound(Family(level, names, checks, takes, gives, open)),
         \A s \in Stacks \ open : drops[s] <= gives[s]
  PROVE  Sound(Brief(level, names, checks, takes, gives, drops, open))
<1> DEFINE w == Brief(level, names, checks, takes, gives, drops, open)
           v == Family(level, names, checks, takes, gives, open)
<1>1. /\ w.takes = takes /\ w.gives = gives /\ w.names = names /\ w.open = open
      /\ w.drops = drops /\ w.checks = checks /\ w.level = level
      /\ v.takes = takes /\ v.gives = gives /\ v.names = names /\ v.open = open
      /\ v.checks = checks /\ v.level = level
  BY DEF Family, Brief
<1>2. Sound(v)
  OBVIOUS
<1>3. Typed(w)
  BY <1>1, <1>2 DEF Sound, Typed
<1>4. \A d : (Admits(w, d) <=> Admits(v, d)) /\ (Fits(w, d) <=> Fits(v, d))
  BY <1>1 DEF Admits, Enforced, Fits
<1>5. Guarded(w)
  <2> SUFFICES ASSUME NEW d, Within(d), Admits(w, d), NEW s \in Stacks \ open
               PROVE  /\ takes[s] <= d[s]
                      /\ d[s] - takes[s] + gives[s] <= Size[s]
                      /\ drops[s] <= d[s] - takes[s] + gives[s]
    BY <1>1 DEF Guarded
  <2>1. takes[s] <= d[s] /\ d[s] - takes[s] + gives[s] <= Size[s]
    BY <1>1, <1>2, <1>4 DEF Sound, Guarded
  <2>2. takes[s] \in Nat /\ gives[s] \in Nat /\ drops[s] \in Nat /\ d[s] \in Int
    BY <1>1, <1>2 DEF Sound, Typed, Within
  <2> QED
    BY <2>1, <2>2
<1>6. Honest(w)
  BY <1>1, <1>2, <1>4 DEF Sound, Honest
<1> QED
  BY <1>3, <1>5, <1>6 DEF Sound

(* With any checks, when the data stack is open.                           *)
LEMMA OnDataOpen ==
  ASSUME NEW level \in {Instruction, Primitive}, NEW names, NEW checks,
         NEW take \in Nat, NEW give \in Nat,
         \A c \in checks : c.stack = "data" /\ c.pop \in Int /\ c.push \in Int,
         \A c \in checks : Fair(c, take, give)
  PROVE  Sound(OnData(level, names, checks, take, give, {"data"}))
<1> DEFINE takes == Cells(take, 0, 0)
           gives == Cells(give, 0, 0)
<1>1. takes \in [Stacks -> Nat] /\ gives \in [Stacks -> Nat]
  BY CellsType
<1>2. takes["data"] = take /\ gives["data"] = give
  BY CellsAt
<1>3. \A s \in Stacks \ {"data"} : takes[s] = 0 /\ gives[s] = 0
  BY DEF Cells, Stacks
<1> HIDE DEF takes, gives
<1>4. \A s \in Stacks \ {"data"} : Safe(checks, s, takes[s], gives[s])
  BY <1>3 DEF Safe
<1>5. \A c \in checks : Fair(c, takes[c.stack], gives[c.stack])
  BY <1>2
<1>6. {"data"} \in SUBSET Stacks
  BY DEF Stacks
<1>7. \A c \in checks : c.stack \in Stacks
  BY DEF Stacks
<1>8. Sound(Family(level, names, checks, takes, gives, {"data"}))
  BY <1>1, <1>4, <1>5, <1>6, <1>7, FamilySound
<1> QED
  BY <1>8 DEF OnData, takes, gives

(* Families that check the data stack and leave the return stack open.     *)
LEMMA ReturnOpen ==
  ASSUME NEW level \in {Instruction, Primitive}, NEW names,
         NEW p \in Nat, NEW q \in Nat, NEW t \in Nat, NEW g \in Nat,
         NEW r \in Nat, NEW h \in Nat,
         t = p, g = q
  PROVE  Sound(Family(level, names, {Check("data", p, q)},
                      Cells(t, 0, r), Cells(g, 0, h), {"return"}))
<1> DEFINE checks == {Check("data", p, q)}
           takes == Cells(t, 0, r)
           gives == Cells(g, 0, h)
<1>1. takes \in [Stacks -> Nat] /\ gives \in [Stacks -> Nat]
  BY CellsType
<1>2. /\ \A c \in checks : c = [stack |-> "data", pop |-> p, push |-> q]
      /\ [stack |-> "data", pop |-> p, push |-> q] \in checks
  BY DEF Check
<1>3. /\ takes["data"] = t /\ gives["data"] = g
      /\ takes["float"] = 0 /\ gives["float"] = 0
  BY CellsAt
<1>4. \A s \in Stacks \ {"return"} : s = "data" \/ s = "float"
  BY DEF Stacks
<1> HIDE DEF checks, takes, gives
<1>5. \A s \in Stacks \ {"return"} : Safe(checks, s, takes[s], gives[s])
  BY <1>2, <1>3, <1>4 DEF Safe
<1>6. \A c \in checks : Fair(c, takes[c.stack], gives[c.stack])
  BY <1>2, <1>3 DEF Fair
<1>7. /\ \A c \in checks : c.stack \in Stacks /\ c.pop \in Int /\ c.push \in Int
      /\ {"return"} \in SUBSET Stacks
  BY <1>2 DEF Stacks
<1>8. Sound(Family(level, names, checks, takes, gives, {"return"}))
  BY <1>1, <1>5, <1>6, <1>7, FamilySound
<1> QED
  BY <1>8 DEF checks, takes, gives

(* Families that check the data and the float stack, once each.            *)
LEMMA BothSound ==
  ASSUME NEW level \in {Instruction, Primitive}, NEW names,
         NEW p \in Nat, NEW q \in Nat, NEW u \in Int, NEW v \in Int,
         NEW f \in Nat, NEW h \in Nat,
         NEW open, open \subseteq {"float"},
         "float" \in open \/ (f <= u /\ (h <= f \/ h - f <= v - u)),
         \/ names \cap Overcautious # {}
         \/ u <= f /\ (v <= u \/ v - u <= h - f)
  PROVE  Sound(Family(level, names, {Check("data", p, q), Check("float", u, v)},
                      Cells(p, f, 0), Cells(q, h, 0), open))
<1> DEFINE checks == {Check("data", p, q), Check("float", u, v)}
           takes == Cells(p, f, 0)
           gives == Cells(q, h, 0)
           one == [stack |-> "data", pop |-> p, push |-> q]
           two == [stack |-> "float", pop |-> u, push |-> v]
<1>1. takes \in [Stacks -> Nat] /\ gives \in [Stacks -> Nat]
  BY CellsType
<1>2. /\ \A c \in checks : c = one \/ c = two
      /\ one \in checks /\ two \in checks
  BY DEF Check
<1>3. /\ takes["data"] = p /\ gives["data"] = q
      /\ takes["float"] = f /\ gives["float"] = h
      /\ takes["return"] = 0 /\ gives["return"] = 0
  BY CellsAt
<1>4. \A s \in Stacks : s = "data" \/ s = "float" \/ s = "return"
  BY DEF Stacks
<1> HIDE DEF checks, takes, gives
<1>5. \A s \in Stacks \ open : Safe(checks, s, takes[s], gives[s])
  BY <1>2, <1>3, <1>4 DEF Safe
<1>6. \/ names \cap Overcautious # {}
      \/ \A c \in checks : Fair(c, takes[c.stack], gives[c.stack])
  BY <1>2, <1>3 DEF Fair
<1>7. /\ \A c \in checks : c.stack \in Stacks /\ c.pop \in Int /\ c.push \in Int
      /\ open \in SUBSET Stacks
  BY <1>2 DEF Stacks
<1>8. Sound(Family(level, names, checks, takes, gives, open))
  BY <1>1, <1>5, <1>6, <1>7, FamilySound
<1> QED
  BY <1>8 DEF checks, takes, gives

(* ... and leave the float stack open.                                     *)
LEMMA FloatOpen ==
  ASSUME NEW level \in {Instruction, Primitive}, NEW names,
         NEW p \in Nat, NEW q \in Nat, NEW u \in Int, NEW v \in Int,
         NEW f \in Nat, NEW h \in Nat,
         u <= f, v <= u \/ v - u <= h - f
  PROVE  Sound(Family(level, names, {Check("data", p, q), Check("float", u, v)},
                      Cells(p, f, 0), Cells(q, h, 0), {"float"}))
<1> DEFINE checks == {Check("data", p, q), Check("float", u, v)}
           takes == Cells(p, f, 0)
           gives == Cells(q, h, 0)
           one == [stack |-> "data", pop |-> p, push |-> q]
           two == [stack |-> "float", pop |-> u, push |-> v]
<1>1. takes \in [Stacks -> Nat] /\ gives \in [Stacks -> Nat]
  BY CellsType
<1>2. /\ \A c \in checks : c = one \/ c = two
      /\ one \in checks /\ two \in checks
  BY DEF Check
<1>3. /\ takes["data"] = p /\ gives["data"] = q
      /\ takes["float"] = f /\ gives["float"] = h
      /\ takes["return"] = 0 /\ gives["return"] = 0
  BY CellsAt
<1>4. \A s \in Stacks : s = "data" \/ s = "float" \/ s = "return"
  BY DEF Stacks
<1> HIDE DEF checks, takes, gives
<1>5. \A s \in Stacks \ {"float"} : Safe(checks, s, takes[s], gives[s])
  BY <1>2, <1>3, <1>4 DEF Safe
<1>6. \A c \in checks : Fair(c, takes[c.stack], gives[c.stack])
  BY <1>2, <1>3 DEF Fair
<1>7. /\ \A c \in checks : c.stack \in Stacks /\ c.pop \in Int /\ c.push \in Int
      /\ {"float"} \in SUBSET Stacks
  BY <1>2 DEF Stacks
<1>8. Sound(Family(level, names, checks, takes, gives, {"float"}))
  BY <1>1, <1>5, <1>6, <1>7, FamilySound
<1> QED
  BY <1>8 DEF checks, takes, gives

(* What pushes one cell for a moment.                                      *)
LEMMA MomentSound ==
  ASSUME NEW level \in {Instruction, Primitive}, NEW names
  PROVE  Sound(Brief(level, names, {Check("data", 0, 1)},
                     Cells(0, 0, 0), Cells(1, 0, 0), Cells(1, 0, 0), {}))
<1>1. Sound(OnData(level, names, {Check("data", 0, 1)}, 0, 1, {}))
  BY OnDataOne
<1>2. Sound(Family(level, names, {Check("data", 0, 1)},
                   Cells(0, 0, 0), Cells(1, 0, 0), {}))
  BY <1>1 DEF OnData
<1>3. Cells(1, 0, 0) \in [Stacks -> Nat]
  BY CellsType
<1>4. \A s \in Stacks : Cells(1, 0, 0)[s] <= Cells(1, 0, 0)[s]
  BY <1>3
<1> QED
  BY <1>2, <1>3, <1>4, BriefSound

(* A remainder grows by no more than one at a time. *)
LEMMA Multiple ==
  ASSUME NEW s \in Nat \ {0}, NEW k \in Int, s * k > 0
  PROVE  s * k >= s
<1>1. CASE k <= 0
  <2>1. s * k <= 0
    BY <1>1
  <2> QED
    BY <2>1
<1>2. CASE k >= 1
  <2>1. s * (k - 1) >= 0
    BY <1>2
  <2>2. s * k = s * (k - 1) + s
    OBVIOUS
  <2> QED
    BY <2>1, <2>2
<1> QED
  BY <1>1, <1>2

LEMMA DivMod ==
  ASSUME NEW s \in Nat \ {0}, NEW n \in Nat
  PROVE  n = s * (n \div s) + (n % s) /\ n \div s \in Int /\ n % s \in 0..(s-1)
OBVIOUS

LEMMA ModStep ==
  ASSUME NEW s \in Nat \ {0}, NEW n \in Nat
  PROVE  (n + 1) % s <= (n % s) + 1
<1> DEFINE q == n \div s
           r == n % s
           u == (n + 1) \div s
           v == (n + 1) % s
<1>1. n = s * q + r /\ q \in Int /\ r \in 0..(s-1)
  BY DivMod
<1>2. n + 1 = s * u + v /\ u \in Int /\ v \in 0..(s-1)
  BY DivMod
<1> HIDE DEF q, r, u, v
<1>3. s * (q - u) = v - r - 1
  BY <1>1, <1>2
<1>4. SUFFICES ASSUME v > r + 1 PROVE FALSE
  BY <1>1, <1>2 DEF v, r
<1>5. s * (q - u) >= s
  BY <1>1, <1>2, <1>3, <1>4, Multiple
<1> QED
  BY <1>1, <1>2, <1>3, <1>5

LEMMA WrappedStep ==
  ASSUME NEW n \in Nat
  PROVE  Wrapped(n + 1) <= Wrapped(n) + 1
BY ModStep, StacksAssumption DEF Wrapped

LEMMA SureType ==
  ASSUME NEW n \in Nat, NEW T
  PROVE  Sure(n, T) = (IF n < Span THEN {} ELSE T)
BY DEF Sure

LEMMA AnyCountType == AnyCount \subseteq Nat
BY StacksAssumption DEF AnyCount

LEMMA CountsAreNat == Counts \subseteq Nat
BY StacksAssumption

(***************************************************************************)
(* The words, one set of the vocabulary after the other.                   *)
(***************************************************************************)
LEMMA LiteralsSound ==
  \A w \in Literals : Sound(w)
BY DataSound DEF Literals

LEMMA InlineLiteralsSound ==
  \A w \in InlineLiterals : Sound(w)
BY DataSound DEF InlineLiterals

LEMMA SumsSound ==
  \A w \in Sums : Sound(w)
BY DataSound DEF Sums

LEMMA SmallStoresSound ==
  \A w \in SmallStores : Sound(w)
BY DataSound DEF SmallStores

LEMMA TestsSound ==
  \A w \in Tests : Sound(w)
BY DataSound DEF Tests

LEMMA ReturnStackSound ==
  \A w \in ReturnStack : Sound(w)
BY ExactSound, CellsType DEF ReturnStack

LEMMA BitsSound ==
  \A w \in Bits : Sound(w)
BY DataSound DEF Bits

LEMMA StringsSound ==
  \A w \in Strings : Sound(w)
BY DataSound, BareSound, CellsType DEF Strings

LEMMA MemorySound ==
  \A w \in Memory : Sound(w)
BY DataSound, ExactSound, CellsType DEF Memory

LEMMA ProductsSound ==
  \A w \in Products : Sound(w)
BY DataSound DEF Products

LEMMA SteppersSound ==
  \A w \in Steppers : Sound(w)
BY DataSound DEF Steppers

LEMMA ARegisterSound ==
  \A w \in ARegister : Sound(w)
BY DataSound DEF ARegister

LEMMA BRegisterSound ==
  \A w \in BRegister : Sound(w)
BY DataSound DEF BRegister

LEMMA FloatSumsSound ==
  \A w \in FloatSums : Sound(w)
BY FloatSound DEF FloatSums

LEMMA ConversionsSound ==
  \A w \in Conversions : Sound(w)
BY ExactSound, CellsType DEF Conversions

LEMMA FloatTestsSound ==
  \A w \in FloatTests : Sound(w)
BY FloatSound, ExactSound, CellsType DEF FloatTests

LEMMA FloatSteppersSound ==
  \A w \in FloatSteppers : Sound(w)
BY ExactSound, CellsType DEF FloatSteppers

LEMMA FloatARegisterSound ==
  \A w \in FloatARegister : Sound(w)
BY FloatSound DEF FloatARegister

LEMMA FloatBRegisterSound ==
  \A w \in FloatBRegister : Sound(w)
BY FloatSound DEF FloatBRegister

LEMMA BodiesSound ==
  \A w \in Bodies : Sound(w)
BY DataSound, FloatSound, BareSound, CellsType DEF Bodies

LEMMA NestedTextsSound ==
  \A w \in NestedTexts : Sound(w)
BY BareSound, CellsType DEF NestedTexts

LEMMA NestedTokensSound ==
  \A w \in NestedTokens : Sound(w)
BY BareSound, CellsType DEF NestedTokens

LEMMA MarksSound ==
  \A w \in Marks : Sound(w)
BY FreeSound DEF Marks, P

LEMMA ColonsSound ==
  \A w \in Colons : Sound(w)
BY DataSound, FreeSound DEF Colons, P

LEMMA ConstantsSound ==
  \A w \in Constants : Sound(w)
BY DataSound DEF Constants, P

LEMMA PrintingSound ==
  \A w \in Printing : Sound(w)
BY DataSound, FreeSound DEF Printing, P

LEMMA SprintfSound ==
  \A w \in Sprintf : Sound(w)
BY FreeSound, CountsAreNat DEF Sprintf, P

LEMMA OutputSound ==
  \A w \in Output : Sound(w)
BY DataSound DEF Output, P

LEMMA InterpretingSound ==
  \A w \in Interpreting : Sound(w)
BY DataSound, FreeSound DEF Interpreting, P

LEMMA NumbersSound ==
  \A w \in Numbers : Sound(w)
BY FreeSound DEF Numbers, P

LEMMA LiteralWordsSound ==
  \A w \in LiteralWords : Sound(w)
BY FreeSound DEF LiteralWords, P

LEMMA LoopWordsSound ==
  \A w \in LoopWords : Sound(w)
BY DataSound, FreeSound DEF LoopWords, P

LEMMA CellwiseSound ==
  \A w \in Cellwise : Sound(w)
BY DataSound DEF Cellwise, P

LEMMA StringWordsSound ==
  \A w \in StringWords : Sound(w)
BY DataSound, FreeSound DEF StringWords, P

LEMMA HeadersSound ==
  \A w \in Headers : Sound(w)
BY DataSound, FreeSound DEF Headers, P

LEMMA PicturedSound ==
  \A w \in Pictured : Sound(w)
BY DataSound DEF Pictured, P

LEMMA ToNumberSound ==
  \A w \in ToNumber : Sound(w)
BY DataSound DEF ToNumber, P

LEMMA CharactersSound ==
  \A w \in Characters : Sound(w)
BY DataSound DEF Characters, P

LEMMA ParsingSound ==
  \A w \in Parsing : Sound(w)
BY DataSound DEF Parsing, P

LEMMA FindingSound ==
  \A w \in Finding : Sound(w)
BY DataSound DEF Finding, P

LEMMA InputWordsSound ==
  \A w \in InputWords : Sound(w)
BY DataSound, FreeSound DEF InputWords, P

LEMMA LocalWordsSound ==
  \A w \in LocalWords : Sound(w)
BY BareSound, CellsType DEF LocalWords

LEMMA LocalDeclarationsSound ==
  \A w \in LocalDeclarations : Sound(w)
BY DataSound DEF LocalDeclarations, P

LEMMA ValuesSound ==
  \A w \in Values : Sound(w)
BY BareSound, FreeSound, CellsType DEF Values, P

LEMMA DivisionsSound ==
  \A w \in Divisions : Sound(w)
BY DataSound, FreeSound DEF Divisions, P

LEMMA DoublesSound ==
  \A w \in Doubles : Sound(w)
BY FreeSound DEF Doubles, P

LEMMA SourcesSound ==
  \A w \in Sources : Sound(w)
BY DataSound, FreeSound DEF Sources, P

LEMMA HeapSound ==
  \A w \in Heap : Sound(w)
BY FreeSound DEF Heap, P

LEMMA DoubleFloatsSound ==
  \A w \in DoubleFloats : Sound(w)
BY DataSound, ExactSound, CellsType DEF DoubleFloats, P

LEMMA SingleFloatsSound ==
  \A w \in SingleFloats : Sound(w)
BY DataSound, ExactSound, CellsType DEF SingleFloats, P

LEMMA FloatConstantsSound ==
  \A w \in FloatConstants : Sound(w)
BY FloatSound DEF FloatConstants, P

LEMMA RepresentSound ==
  \A w \in Represent : Sound(w)
BY ExactSound, CellsType DEF Represent, P

LEMMA FixedTextsSound ==
  \A w \in FixedTexts : Sound(w)
BY FloatSound, ExactSound, CellsType DEF FixedTexts, P

LEMMA ScientificTextsSound ==
  \A w \in ScientificTexts : Sound(w)
BY FloatSound, ExactSound, CellsType DEF ScientificTexts, P

LEMMA EngineeringTextsSound ==
  \A w \in EngineeringTexts : Sound(w)
BY DataSound, FloatSound, ExactSound, CellsType DEF EngineeringTexts, P

LEMMA FloatLiteralsSound ==
  \A w \in FloatLiterals : Sound(w)
BY DataSound, FloatSound DEF FloatLiterals, P

LEMMA FloatFunctionsSound ==
  \A w \in FloatFunctions : Sound(w)
BY FloatSound DEF FloatFunctions, P

LEMMA TranscendentalsSound ==
  \A w \in Transcendentals : Sound(w)
BY FloatSound DEF Transcendentals, P

LEMMA DoubleConversionsSound ==
  \A w \in DoubleConversions : Sound(w)
BY ExactSound, CellsType DEF DoubleConversions, P

LEMMA FloatPredicatesSound ==
  \A w \in FloatPredicates : Sound(w)
BY ExactSound, CellsType DEF FloatPredicates, P

LEMMA PolynomialsSound ==
  \A w \in Polynomials : Sound(w)
BY ExactSound, CellsType DEF Polynomials, P

LEMMA ClocksSound ==
  \A w \in Clocks : Sound(w)
BY FreeSound DEF Clocks, P

LEMMA TerminalSound ==
  \A w \in Terminal : Sound(w)
BY DataSound, FreeSound DEF Terminal, P

LEMMA CallbacksSound ==
  \A w \in Callbacks : Sound(w)
BY DataSound, FreeSound, CountsAreNat DEF Callbacks, P

LEMMA TasksSound ==
  \A w \in Tasks : Sound(w)
BY DataSound DEF Tasks, P

LEMMA TaskControlsSound ==
  \A w \in TaskControls : Sound(w)
BY DataSound DEF TaskControls, P

LEMMA MutexesSound ==
  \A w \in Mutexes : Sound(w)
BY DataSound DEF Mutexes, P

LEMMA AddressesSound ==
  \A w \in Addresses : Sound(w)
BY DataSound DEF Addresses, P

LEMMA FuzzyLogicSound ==
  \A w \in FuzzyLogic : Sound(w)
<1>1. Sound(OnData(P, {"rulez"}, {Check("data", 3, 0)}, 2, 0, {}))
  BY OnDataOne DEF Overcautious, Stacks, P
<1>2. /\ Sound(Data(P, {"fuzzify"}, 4, 0)) /\ Sound(Data(P, {"defuzzify"}, 3, 1))
      /\ Sound(Data(P, {"wrulez"}, 3, 0))
  BY DataSound DEF P
<1> QED
  BY <1>1, <1>2 DEF FuzzyLogic

LEMMA OpeningFilesSound ==
  \A w \in OpeningFiles : Sound(w)
BY DataSound DEF OpeningFiles, P

LEMMA FileTransfersSound ==
  \A w \in FileTransfers : Sound(w)
BY DataSound DEF FileTransfers, P

LEMMA FileChangesSound ==
  \A w \in FileChanges : Sound(w)
BY DataSound DEF FileChanges, P

LEMMA EnvironmentSound ==
  \A w \in Environment : Sound(w)
BY DataSound DEF Environment, P

LEMMA SearchOrderSound ==
  \A w \in SearchOrder : Sound(w)
BY FreeSound, CountsAreNat DEF SearchOrder, P

LEMMA NewWordListsSound ==
  \A w \in NewWordLists : Sound(w)
BY DataSound, FreeSound DEF NewWordLists, P


LEMMA LocalsSound ==
  \A w \in Locals : Sound(w)
<1>1. \A  n \in Counts : Sound(Bare({"(link)"}, Cells(0, 0, 0), Cells(0, 0, n + 1)) )
  <2>1. \A n \in Counts : n + 1 \in Nat
    BY CountsAreNat
  <2> QED
    BY <2>1, BareSound, CellsType
<1>2. \A  n \in Counts : Sound(Bare({"(unlink)"}, Cells(0, 0, n + 1), Cells(0, 0,
      0)) )
  <2>1. \A n \in Counts : n + 1 \in Nat
    BY CountsAreNat
  <2> QED
    BY <2>1, BareSound, CellsType
<1>3. Sound(Bare({"(@2flocal)"}, Cells(0, 0, 0), Cells(0, 2, 0)))
  BY BareSound, CellsType
<1>4. Sound(Bare({"(@flocal)"}, Cells(0, 0, 0), Cells(0, 1, 0)))
  BY BareSound, CellsType
<1>5. Sound(Bare({"(to2flocal)"}, Cells(0, 2, 0), Cells(0, 0, 0)))
  BY BareSound, CellsType
<1>6. Sound(Bare({"(toflocal)"}, Cells(0, 1, 0), Cells(0, 0, 0)))
  BY BareSound, CellsType
<1>7. Sound(Bare({"(@2local)", "(@2local0)"}, Cells(0, 0, 0), Cells(2, 0, 0)))
  BY BareSound, CellsType
<1>8. Sound(Bare({"(@local)", "(@local0)", "(@local1)"}, Cells(0, 0, 0), Cells(1, 0,
      0)))
  BY BareSound, CellsType
<1>9. Sound(Bare({"(to2local)", "(to2local0)"}, Cells(2, 0, 0), Cells(0, 0, 0)))
  BY BareSound, CellsType
<1>10. Sound(Bare({"(tolocal)", "(tolocal0)", "(tolocal1)"}, Cells(1, 0, 0), Cells(0,
      0, 0)))
  BY BareSound, CellsType
<1> QED
  BY <1>1, <1>2, <1>3, <1>4, <1>5, <1>6, <1>7, <1>8, <1>9, <1>10 DEF Locals

LEMMA ShufflesSound ==
  \A w \in Shuffles : Sound(w)
<1>1. Sound(Family(Instruction, {"dup"}, {Check("data", 0, 1)}, Cells(1, 0, 0),
      Cells(2, 0, 0), {"data"}))
  BY FamilySound, CellsType, CellsAt DEF Check, Cells, Safe, Fair, Stacks
<1>2. Sound(Data(Instruction, {"?dup"}, 1, 2))
  BY DataSound
<1>3. Sound(OnData(Instruction, {"?dup"}, {Check("data", 1, 2)}, 1, 1, {}))
  BY OnDataOne DEF Overcautious, Stacks
<1>4. Sound(Data(Instruction, {"swap"}, 2, 2))
  BY DataSound
<1>5. Sound(Data(Instruction, {"drop"}, 1, 0))
  BY DataSound
<1>6. Sound(Data(Instruction, {"2drop"}, 2, 0))
  BY DataSound
<1>7. Sound(Data(Instruction, {"2dup"}, 2, 4))
  BY DataSound
<1>8. Sound(Data(Instruction, {"over"}, 2, 3))
  BY DataSound
<1>9. Sound(Data(Instruction, {"2over"}, 4, 6))
  BY DataSound
<1> QED
  BY <1>1, <1>2, <1>3, <1>4, <1>5, <1>6, <1>7, <1>8, <1>9 DEF Shuffles

LEMMA IndexedSound ==
  \A w \in Indexed : Sound(w)
<1>1. \A n \in AnyCount :
       Sound(OnData(Instruction, {"pick"},
                      {Check("data", 1, 0), Check("data", Wrapped(n + 2),
                      Wrapped(n + 3))}, n + 2, n + 2, Sure(n + 3, {"data"})))
  <2> SUFFICES ASSUME NEW n \in AnyCount
               PROVE  Sound(OnData(Instruction, {"pick"},
                     {Check("data", 1, 0), Check("data", Wrapped(n + 2),
                     Wrapped(n + 3))}, n + 2, n + 2, Sure(n + 3, {"data"})))
    OBVIOUS
  <2>1. n \in Nat
    BY AnyCountType
  <2>2. n + 2 \in Nat /\ n + 3 \in Nat
    BY <2>1
  <2>3. Wrapped(n + 2) \in Nat /\ Wrapped(n + 3) \in Nat
    BY <2>2, WrappedType
  <2>4. CASE n + 3 < Span
    <3>1. Sure(n + 3, {"data"}) = {} /\ Wrapped(n + 2) = n + 2
      BY <2>1, <2>2, <2>4, SureType, WrappedSmall, StacksAssumption
    <3> QED
      BY <2>1, <2>3, <3>1, OnDataTwo DEF Overcautious
  <2>5. CASE ~ (n + 3 < Span)
    <3>1. Sure(n + 3, {"data"}) = {"data"}
      BY <2>2, <2>5, SureType
    <3> QED
      BY <2>1, <2>3, <3>1, OnDataTwo DEF Overcautious, Stacks
  <2> QED
    BY <2>4, <2>5
<1>2. \A n \in AnyCount \ {0} :
       Sound(OnData(Instruction, {"roll", "-roll"},
                      {Check("data", 1, 0), Check("data", Wrapped(n + 1) + 1,
                      Wrapped(n + 2))}, n + 2, n + 1, Sure(n + 2, {"data"})))
  <2> SUFFICES ASSUME NEW n \in AnyCount \ {0}
               PROVE  Sound(OnData(Instruction, {"roll", "-roll"},
                     {Check("data", 1, 0), Check("data", Wrapped(n + 1) + 1,
                     Wrapped(n + 2))}, n + 2, n + 1, Sure(n + 2, {"data"})))
    OBVIOUS
  <2>1. n \in Nat
    BY AnyCountType
  <2>2. n + 1 \in Nat /\ n + 2 \in Nat /\ (n + 1) + 1 = n + 2
    BY <2>1
  <2>3. /\ Wrapped(n + 1) + 1 \in Nat /\ Wrapped(n + 2) \in Nat
        /\ Wrapped(n + 1) <= n + 1 /\ Wrapped(n + 2) <= Wrapped(n + 1) + 1
    BY <2>2, WrappedType, WrappedStep
  <2>4. CASE n + 2 < Span
    <3>1. Sure(n + 2, {"data"}) = {} /\ Wrapped(n + 1) = n + 1
      BY <2>1, <2>2, <2>4, SureType, WrappedSmall, StacksAssumption
    <3> QED
      BY <2>1, <2>3, <3>1, OnDataTwo
  <2>5. CASE ~ (n + 2 < Span)
    <3> DEFINE p == Wrapped(n + 1) + 1
               q == Wrapped(n + 2)
               checks == {Check("data", 1, 0), Check("data", p, q)}
    <3>1. Sure(n + 2, {"data"}) = {"data"}
      BY <2>2, <2>5, SureType
    <3>2. p \in Nat /\ q \in Nat /\ p <= n + 2 /\ q <= p
      BY <2>1, <2>3, WrappedType, <2>2
    <3> HIDE DEF p, q
    <3>3. \A c \in checks : c.stack = "data" /\ c.pop \in Int /\ c.push \in Int
      BY <3>2 DEF Check
    <3>4. \A c \in checks : Fair(c, n + 2, n + 1)
      BY <2>1, <3>2 DEF Check, Fair
    <3> HIDE DEF checks
    <3>5. Sound(OnData(Instruction, {"roll", "-roll"}, checks, n + 2, n + 1,
          {"data"}))
      BY <2>2, <3>3, <3>4, OnDataOpen
    <3> QED
      BY <3>1, <3>5 DEF checks, p, q
  <2> QED
    BY <2>4, <2>5
<1>3. Sound(OnData(Instruction, {"pick"}, {Check("data", 1, 0)}, 1, 1, {}))
  BY OnDataOne DEF Overcautious, Stacks
<1>4. Sound(OnData(Instruction, {"roll", "-roll"}, {Check("data", 1, 0)}, 1, 0, {}))
  BY OnDataOne DEF Overcautious, Stacks
<1>5. Sound(OnData(Instruction, {"rot", "-rot"}, {Check("data", 3, 4)}, 3, 3, {}))
  BY OnDataOne DEF Overcautious, Stacks
<1>6. Sound(Data(Instruction, {"2swap"}, 4, 4))
  BY DataSound
<1> QED
  BY <1>1, <1>2, <1>3, <1>4, <1>5, <1>6 DEF Indexed

LEMMA BranchesSound ==
  \A w \in Branches : Sound(w)
<1>1. Sound(Bare({"exit", "(;)"}, Cells(0, 0, 1), Cells(0, 0, 0)))
  BY BareSound, CellsType
<1>2. Sound(Data(Instruction, {"(branch0)"}, 1, 0))
  BY DataSound
<1>3. Sound(Data(Instruction, {"(of)"}, 2, 1))
  BY DataSound
<1>4. Sound(OnData(Instruction, {"(of)"}, {Check("data", 2, 1)}, 2, 0, {}))
  BY OnDataOne DEF Overcautious, Stacks
<1> QED
  BY <1>1, <1>2, <1>3, <1>4 DEF Branches

LEMMA LoopsSound ==
  \A w \in Loops : Sound(w)
<1>1. Sound(Family(Instruction, {"(do)", "(?do)"}, {Check("data", 2, 0)}, Cells(2, 0,
      0), Cells(0, 0, 3), {"return"}))
  BY ReturnOpen
<1>2. Sound(Data(Instruction, {"(?do)"}, 2, 0))
  BY DataSound
<1>3. Sound(Bare({"(loop)"}, Cells(0, 0, 2), Cells(0, 0, 2)))
  BY BareSound, CellsType
<1>4. Sound(Bare({"(loop)", "leave", "unloop"}, Cells(0, 0, 3), Cells(0, 0, 0)))
  BY BareSound, CellsType
<1>5. Sound(Family(Instruction, {"(+loop)"}, {Check("data", 1, 0)}, Cells(1, 0, 2),
      Cells(0, 0, 2), {"return"}))
  BY ReturnOpen
<1>6. Sound(Family(Instruction, {"(+loop)"}, {Check("data", 1, 0)}, Cells(1, 0, 3),
      Cells(0, 0, 0), {"return"}))
  BY ReturnOpen
<1>7. Sound(Bare({"i"}, Cells(0, 0, 2), Cells(1, 0, 2)))
  BY BareSound, CellsType
<1>8. Sound(Bare({"j"}, Cells(0, 0, 5), Cells(1, 0, 5)))
  BY BareSound, CellsType
<1>9. Sound(Bare({"k"}, Cells(0, 0, 8), Cells(1, 0, 8)))
  BY BareSound, CellsType
<1> QED
  BY <1>1, <1>2, <1>3, <1>4, <1>5, <1>6, <1>7, <1>8, <1>9 DEF Loops

LEMMA DoesSound ==
  \A w \in Does : Sound(w)
<1>1. Sound(Bare({"(does>)"}, Cells(0, 0, 1), Cells(0, 0, 0)))
  BY BareSound, CellsType
<1>2. Sound(Family(Instruction, {"do-does"}, {Check("data", 0, 1)}, Cells(0, 0, 0),
      Cells(1, 0, 1), {"return"}))
  BY ReturnOpen
<1> QED
  BY <1>1, <1>2 DEF Does

LEMMA FloatShufflesSound ==
  \A w \in FloatShuffles : Sound(w)
<1>1. Sound(Float(Instruction, {"fdrop"}, 1, 0))
  BY FloatSound
<1>2. Sound(Float(Instruction, {"fdup", "f?dup"}, 1, 2))
  BY FloatSound
<1>3. Sound(OnFloat(Instruction, {"f?dup"}, {Check("float", 1, 2)}, 1, 1, {}))
  BY OnFloatOne DEF Overcautious, Stacks
<1>4. Sound(Float(Instruction, {"fswap"}, 2, 2))
  BY FloatSound
<1>5. Sound(Float(Instruction, {"f2drop"}, 2, 0))
  BY FloatSound
<1>6. Sound(Float(Instruction, {"f2dup"}, 2, 4))
  BY FloatSound
<1>7. Sound(Float(Instruction, {"fover"}, 2, 3))
  BY FloatSound
<1>8. Sound(OnFloat(Instruction, {"f2over"}, {Check("float", 4, 6)}, 3, 5, {}))
  BY OnFloatOne DEF Overcautious, Stacks
<1> QED
  BY <1>1, <1>2, <1>3, <1>4, <1>5, <1>6, <1>7, <1>8 DEF FloatShuffles

LEMMA FloatIndexedSound ==
  \A w \in FloatIndexed : Sound(w)
<1>1. \A  n \in Counts \ {0} : Sound(Brief(Instruction, {"fpick"},
      {Check("data", 1, 0), Check("float", 1 - n, 2 - n)}, Cells(1, 0, 0), Cells(0,
      n, 0), Cells(0, n - 1, 0), {"float"}) )
  <2> SUFFICES ASSUME NEW n \in Counts \ {0}
               PROVE  Sound(Brief(Instruction, {"fpick"},
                     {Check("data", 1, 0), Check("float", 1 - n, 2 - n)}, Cells(1, 0,
                     0), Cells(0, n, 0), Cells(0, n - 1, 0), {"float"}))
    OBVIOUS
  <2>1. n \in Nat /\ n - 1 \in Nat
    BY CountsAreNat
  <2>2. Sound(Family(Instruction, {"fpick"},
        {Check("data", 1, 0), Check("float", 1 - n, 2 - n)},
                     Cells(1, 0, 0), Cells(0, n, 0), {"float"}))
    <3> DEFINE u == 1 - n
               v == 2 - n
    <3>1. u \in Int /\ v \in Int /\ u <= 0 /\ v - u = 1
      BY <2>1
    <3> HIDE DEF u, v
    <3>2. u <= 0 /\ (v <= u \/ v - u <= n - 0)
      BY <2>1, <3>1
    <3>3. Sound(Family(Instruction, {"fpick"},
          {Check("data", 1, 0), Check("float", u, v)},
                       Cells(1, 0, 0), Cells(0, n, 0), {"float"}))
      BY <2>1, <3>1, <3>2, FloatOpen
    <3> QED
      BY <3>3 DEF u, v
  <2>3. Cells(0, n - 1, 0) \in [Stacks -> Nat]
    BY <2>1, CellsType
  <2>4. \A s \in Stacks \ {"float"} : Cells(0, n - 1, 0)[s] <= Cells(0, n, 0)[s]
    BY DEF Cells, Stacks
  <2> QED
    BY <2>2, <2>3, <2>4, BriefSound
<1>2. \A n \in AnyCount :
       Sound(Family(Instruction, {"fpick"},
                      {Check("data", 1, 0), Check("float", Wrapped(n + 1),
                      Wrapped(n + 2))}, Cells(1, n + 1, 0), Cells(0, n + 2, 0),
                      Sure(n + 2, {"float"})))
  <2> SUFFICES ASSUME NEW n \in AnyCount
               PROVE  Sound(Family(Instruction, {"fpick"},
                     {Check("data", 1, 0), Check("float", Wrapped(n + 1),
                     Wrapped(n + 2))}, Cells(1, n + 1, 0), Cells(0, n + 2, 0),
                     Sure(n + 2, {"float"})))
    OBVIOUS
  <2>1. n \in Nat
    BY AnyCountType
  <2>2. n + 1 \in Nat /\ n + 2 \in Nat /\ (n + 1) + 1 = n + 2
    BY <2>1
  <2>3. /\ Wrapped(n + 1) \in Nat /\ Wrapped(n + 2) \in Nat /\ Wrapped(n + 1) <= n + 1
        /\ Wrapped(n + 2) <= Wrapped(n + 1) + 1
    BY <2>2, WrappedType, WrappedStep
  <2>4. CASE n + 2 < Span
    <3>1. /\ Sure(n + 2, {"float"}) = {}
          /\ Wrapped(n + 1) = n + 1 /\ Wrapped(n + 2) = n + 2
      BY <2>1, <2>2, <2>4, SureType, WrappedSmall, StacksAssumption
    <3> QED
      BY <2>1, <2>3, <3>1, BothSound
  <2>5. CASE ~ (n + 2 < Span)
    <3>1. Sure(n + 2, {"float"}) = {"float"}
      BY <2>2, <2>5, SureType
    <3> DEFINE u == Wrapped(n + 1)
               v == Wrapped(n + 2)
    <3>2. u \in Nat /\ v \in Nat /\ u <= n + 1 /\ (v <= u \/ v - u <= (n + 2) - (n + 1))
      BY <2>1, <2>3
    <3> HIDE DEF u, v
    <3>3. Sound(Family(Instruction, {"fpick"},
          {Check("data", 1, 0), Check("float", u, v)},
                       Cells(1, n + 1, 0), Cells(0, n + 2, 0), {"float"}))
      BY <2>2, <3>2, FloatOpen
    <3> QED
      BY <3>1, <3>3 DEF u, v
  <2> QED
    BY <2>4, <2>5
<1>3. \A n \in AnyCount \ {0} :
       Sound(Family(Instruction, {"froll", "f-roll"},
                      {Check("data", 1, 0), Check("float", Wrapped(n + 1),
                      Wrapped(n + 2))}, Cells(1, n + 1, 0), Cells(0, n + 1, 0),
                      Sure(n + 2, {"float"})))
  <2> SUFFICES ASSUME NEW n \in AnyCount \ {0}
               PROVE  Sound(Family(Instruction, {"froll", "f-roll"},
                     {Check("data", 1, 0), Check("float", Wrapped(n + 1),
                     Wrapped(n + 2))}, Cells(1, n + 1, 0), Cells(0, n + 1, 0),
                     Sure(n + 2, {"float"})))
    OBVIOUS
  <2>1. n \in Nat
    BY AnyCountType
  <2>2. n + 1 \in Nat /\ n + 2 \in Nat
    BY <2>1
  <2>3. Wrapped(n + 1) \in Nat /\ Wrapped(n + 2) \in Nat /\ Wrapped(n + 1) <= n + 1
    BY <2>2, WrappedType
  <2>4. CASE n + 2 < Span
    <3>1. /\ Sure(n + 2, {"float"}) = {}
          /\ Wrapped(n + 1) = n + 1 /\ Wrapped(n + 2) = n + 2
      BY <2>1, <2>2, <2>4, SureType, WrappedSmall, StacksAssumption
    <3> QED
      BY <2>1, <2>3, <3>1, BothSound DEF Overcautious
  <2>5. CASE ~ (n + 2 < Span)
    <3>1. Sure(n + 2, {"float"}) = {"float"}
      BY <2>2, <2>5, SureType
    <3> QED
      BY <2>1, <2>3, <3>1, BothSound DEF Overcautious
  <2> QED
    BY <2>4, <2>5
<1>4. Sound(Data(Instruction, {"froll", "f-roll"}, 1, 0))
  BY DataSound
<1>5. Sound(OnFloat(Instruction, {"frot", "f-rot"}, {Check("float", 3, 4)}, 3, 3, {}))
  BY OnFloatOne DEF Overcautious, Stacks
<1>6. Sound(Float(Instruction, {"f2swap"}, 4, 4))
  BY FloatSound
<1> QED
  BY <1>1, <1>2, <1>3, <1>4, <1>5, <1>6 DEF FloatIndexed

LEMMA ForwardsSound ==
  \A w \in Forwards : Sound(w)
<1>1. Sound(OnData(P, {"else"}, {Check("data", 1, 0)}, 2, 2, {"data"}))
  BY OnDataOne DEF Overcautious, Stacks, P
<1>2. Sound(Data(P, {"then", "endif"}, 2, 0))
  BY DataSound DEF P
<1> QED
  BY <1>1, <1>2 DEF Forwards

LEMMA CasesSound ==
  \A w \in Cases : Sound(w)
<1>1. Sound(Data(P, {"case"}, 0, 2))
  BY DataSound DEF P
<1>2. Sound(Free({"endcase"}, 1, 1))
  BY FreeSound DEF P
<1>3. Sound(OnData(P, {"endcase"}, {Check("data", 1, 0)}, 2, 0, {"data"}))
  BY OnDataOne DEF Overcautious, Stacks, P
<1>4. Sound(OnData(P, {"endcase"}, {Check("data", 1, 0), Check("data", 3, 0)}, 4, 3,
      {"data"}))
  BY OnDataTwo DEF Overcautious, Stacks, P
<1>5. \A  n \in Counts : Sound(OnData(P, {"endcase"},
      {Check("data", 1, 0), Check("data", 2, 0), Check("data", n + 2, 0)}, n + 2, 0,
      {"data"}) )
  <2> SUFFICES ASSUME NEW n \in Counts
               PROVE  Sound(OnData(P, {"endcase"},
                     {Check("data", 1, 0), Check("data", 2, 0), Check("data", n + 2,
                     0)}, n + 2, 0, {"data"}))
    OBVIOUS
  <2>1. n \in Nat
    BY CountsAreNat
  <2> QED
    BY <2>1, OnDataOpen DEF Check, Fair, P
<1> QED
  BY <1>1, <1>2, <1>3, <1>4, <1>5 DEF Cases

LEMMA OfsSound ==
  \A w \in Ofs : Sound(w)
<1>1. Sound(Data(P, {"of"}, 1, 3))
  BY DataSound DEF P
<1>2. Sound(OnData(P, {"of"}, {Check("data", 1, 3)}, 2, 0, {"data"}))
  BY OnDataOne DEF Overcautious, Stacks, P
<1>3. Sound(OnData(P, {"of"}, {Check("data", 1, 3), Check("data", 3, 0)}, 3, 3, {}))
  BY OnDataTwo DEF Overcautious, Stacks, P
<1>4. Sound(Data(P, {"endof"}, 4, 3))
  BY DataSound DEF P
<1>5. Sound(OnData(P, {"fallthrough"}, {Check("data", 4, 3)}, 3, 3, {}))
  BY OnDataOne DEF Overcautious, Stacks, P
<1> QED
  BY <1>1, <1>2, <1>3, <1>4, <1>5 DEF Ofs

LEMMA TokensSound ==
  \A w \in Tokens : Sound(w)
<1>1. Sound(Data(P, {"'"}, 0, 1))
  BY DataSound DEF P
<1>2. Sound(Held)
  BY MomentSound DEF Held, P
<1>3. Sound(Data(P, {"execute"}, 1, 0))
  BY DataSound DEF P
<1>4. Sound(Free({"?object"}, 1, 1))
  BY FreeSound DEF P
<1>5. Sound(Free({"c-quote"}, 0, 1))
  BY FreeSound DEF P
<1> QED
  BY <1>1, <1>2, <1>3, <1>4, <1>5 DEF Tokens

LEMMA BeginsSound ==
  \A w \in Begins : Sound(w)
<1>1. Sound(Data(P, {"accept"}, 2, 1))
  BY DataSound DEF P
<1>2. Sound(Data(P, {"aligned"}, 1, 1))
  BY DataSound DEF P
<1>3. Sound(Data(P, {"until", "again"}, 2, 0))
  BY DataSound DEF P
<1>4. Sound(OnData(P, {"while"}, {Check("data", 2, 5)}, 2, 4, {}))
  BY OnDataOne DEF Overcautious, Stacks, P
<1>5. Sound(Data(P, {"repeat"}, 4, 0))
  BY DataSound DEF P
<1> QED
  BY <1>1, <1>2, <1>3, <1>4, <1>5 DEF Begins

LEMMA QueriesSound ==
  \A w \in Queries : Sound(w)
<1>1. Sound(Data(P, {"environment?"}, 2, 1))
  BY DataSound DEF P
<1>2. Sound(OnData(P, {"environment?"}, {Check("data", 2, 1)}, 2, 2, {}))
  BY OnDataOne DEF Overcautious, Stacks, P
<1>3. Sound(OnData(P, {"environment?"}, {Check("data", 2, 1)}, 2, 3, {"data"}))
  BY OnDataOpen DEF Check, Fair, P
<1>4. Sound(Data(P, {"evaluate"}, 2, 0))
  BY DataSound DEF P
<1>5. Sound(Free({"s-quote", "s-paren"}, 0, 2))
  BY FreeSound DEF P
<1> QED
  BY <1>1, <1>2, <1>3, <1>4, <1>5 DEF Queries

LEMMA ToValuesSound ==
  \A w \in ToValues : Sound(w)
<1>1. Sound(Brief(P, {"[to]"}, {}, Cells(0, 0, 0), Cells(1, 0, 0), Cells(1, 0, 0),
      {"data"}))
  BY BriefSound, FamilySound, CellsType, CellsAt DEF Check, Cells, Safe, Fair, Stacks, P
<1> QED
  BY <1>1 DEF ToValues

LEMMA VectorsSound ==
  \A w \in Vectors : Sound(w)
<1>1. Sound(Family(P, {"fsolve2"}, {Check("data", 0, 1), Check("float", 3, 2)},
      Cells(0, 3, 0), Cells(1, 2, 0), {}))
  BY BothSound DEF P
<1>2. Sound(Family(P, {"fsolve2"}, {Check("data", 0, 1), Check("float", 3, 2)},
      Cells(0, 3, 0), Cells(1, 0, 0), {}))
  BY BothSound DEF P
<1>3. Sound(Exact(P, {"faxpy"}, Cells(5, 1, 0), Cells(0, 0, 0)))
  BY ExactSound, CellsType DEF P
<1>4. Sound(Exact(P, {"faxpy1"}, Cells(3, 1, 0), Cells(0, 0, 0)))
  BY ExactSound, CellsType DEF P
<1>5. Sound(Exact(P, {"fdot"}, Cells(5, 0, 0), Cells(0, 1, 0)))
  BY ExactSound, CellsType DEF P
<1>6. Sound(Exact(P, {"fdot1"}, Cells(3, 0, 0), Cells(0, 1, 0)))
  BY ExactSound, CellsType DEF P
<1>7. Sound(Data(P, {"fmm"}, 6, 0))
  BY DataSound DEF P
<1> QED
  BY <1>1, <1>2, <1>3, <1>4, <1>5, <1>6, <1>7 DEF Vectors

LEMMA FloatNumbersSound ==
  \A w \in FloatNumbers : Sound(w)
<1>1. Sound(OnFloat(P, {"?float"}, {Check("float", 0, 1)}, 0, 1, {}))
  BY OnFloatOne DEF Overcautious, Stacks, P
<1>2. Sound(OnFloat(P, {"?float"}, {Check("float", 0, 1)}, 0, 0, {}))
  BY OnFloatOne DEF Overcautious, Stacks, P
<1>3. Sound(Brief(P, {"?float"}, {Check("float", 0, 1)}, Cells(0, 0, 0), Cells(0, 1,
      0), Cells(0, 1, 0), {}))
  <2>1. Sound(OnFloat(P, {"?float"}, {Check("float", 0, 1)}, 0, 1, {}))
    BY OnFloatOne DEF P
  <2>2. Sound(Family(P, {"?float"}, {Check("float", 0, 1)},
                     Cells(0, 0, 0), Cells(0, 1, 0), {}))
    BY <2>1 DEF OnFloat
  <2>3. Cells(0, 1, 0) \in [Stacks -> Nat]
    BY CellsType
  <2>4. \A s \in Stacks : Cells(0, 1, 0)[s] <= Cells(0, 1, 0)[s]
    BY <2>3
  <2> QED
    BY <2>2, <2>3, <2>4, BriefSound
<1> QED
  BY <1>1, <1>2, <1>3 DEF FloatNumbers

LEMMA ForeignCallsSound ==
  \A w \in ForeignCalls : Sound(w)
<1>1. \A  n \in Counts : Sound(OnData(P, {"(c-call)"},
      {Check("data", 2, 0), Check("data", n + 2, 1)}, n + 2, 1, {}) )
  BY OnDataTwo, CountsAreNat DEF Overcautious, Stacks, P
<1>2. Sound(Data(P, {"(dlopen)"}, 2, 1))
  BY DataSound DEF P
<1>3. Sound(Data(P, {"(dlsym)"}, 3, 1))
  BY DataSound DEF P
<1> QED
  BY <1>1, <1>2, <1>3 DEF ForeignCalls

LEMMA AtomicsSound ==
  \A w \in Atomics : Sound(w)
<1>1. Sound(Data(P, {"atomic@"}, 1, 1))
  BY DataSound DEF P
<1>2. Sound(Data(P, {"atomic!"}, 2, 0))
  BY DataSound DEF P
<1>3. Sound(Data(P, {"atomic-xchg"}, 2, 1))
  BY DataSound DEF P
<1>4. Sound(Data(P, {"atomic-cas"}, 3, 1))
  BY DataSound DEF P
<1>5. Sound(OnData(P, {"atomic-op"}, {Check("data", 2, 0)}, 2, 1, {}))
  BY OnDataOne DEF Overcautious, Stacks, P
<1>6. Sound(Free({"(atomic-op)"}, 1, 0))
  BY FreeSound DEF P
<1> QED
  BY <1>1, <1>2, <1>3, <1>4, <1>5, <1>6 DEF Atomics

LEMMA FlipsSound ==
  \A w \in Flips : Sound(w)
<1>1. \A n \in AnyCount :
       Sound(OnData(P, {"stick"},
                      {Check("data", 2, 0), Check("data", Wrapped(n + 1) + 2,
                      Wrapped(n + 1))}, n + 3, n + 1, Sure(n + 1, {"data"})))
  <2> SUFFICES ASSUME NEW n \in AnyCount
               PROVE  Sound(OnData(P, {"stick"},
                     {Check("data", 2, 0), Check("data", Wrapped(n + 1) + 2,
                     Wrapped(n + 1))}, n + 3, n + 1, Sure(n + 1, {"data"})))
    OBVIOUS
  <2>1. n \in Nat
    BY AnyCountType
  <2>2. /\ Wrapped(n + 1) + 2 \in Nat /\ Wrapped(n + 1) \in Nat
        /\ Wrapped(n + 1) <= n + 1
        /\ "data" \in Sure(n + 1, {"data"}) \/ Wrapped(n + 1) = n + 1
        /\ Sure(n + 1, {"data"}) \in SUBSET {"data"}
    BY <2>1, WrappedType, WrappedSmall, SureType
  <2> QED
    BY <2>1, <2>2, OnDataTwo DEF P, Stacks
<1>2. Sound(Data(P, {"stick"}, 2, 0))
  BY DataSound DEF P
<1>3. Sound(Data(P, {"wflip", "qflip", "xflip", "flip"}, 1, 1))
  BY DataSound DEF P
<1>4. Sound(Data(P, {"xflip", "flip"}, 2, 2))
  BY DataSound DEF P
<1> QED
  BY <1>1, <1>2, <1>3, <1>4 DEF Flips

LEMMA SingleBitsSound ==
  \A w \in SingleBits : Sound(w)
<1>1. Sound(Data(P, {"bit?"}, 2, 1))
  BY DataSound DEF P
<1>2. Sound(Data(P, {"bit-set", "bit-reset"}, 2, 0))
  BY DataSound DEF P
<1>3. Sound(OnData(P, {"bit-flip"}, {Check("data", 2, 1)}, 2, 0, {}))
  BY OnDataOne DEF Overcautious, Stacks, P
<1>4. Sound(Data(P, {"isqrt"}, 1, 1))
  BY DataSound DEF P
<1> QED
  BY <1>1, <1>2, <1>3, <1>4 DEF SingleBits

LEMMA NamedFilesSound ==
  \A w \in NamedFiles : Sound(w)
<1>1. Sound(Data(P, {"close-file"}, 1, 1))
  BY DataSound DEF P
<1>2. Sound(OnData(P, {"delete-file"}, {Check("data", 1, 1)}, 2, 1, {"data"}))
  BY OnDataOne DEF Overcautious, Stacks, P
<1>3. Sound(Data(P, {"rename-file"}, 4, 1))
  BY DataSound DEF P
<1>4. Sound(Data(P, {"file-status"}, 2, 2))
  BY DataSound DEF P
<1> QED
  BY <1>1, <1>2, <1>3, <1>4 DEF NamedFiles

LEMMA FilePlacesSound ==
  \A w \in FilePlaces : Sound(w)
<1>1. Sound(OnData(P, {"file-position", "file-size"}, {Check("data", 1, 2)}, 1, 3,
      {"data"}))
  BY OnDataOpen DEF Check, Fair, P
<1>2. Sound(Data(P, {"include-file"}, 1, 0))
  BY DataSound DEF P
<1> QED
  BY <1>1, <1>2 DEF FilePlaces

LEMMA SeeingSound ==
  \A w \in Seeing : Sound(w)
<1>1. Sound(Free({"see-xt"}, 1, 0))
  BY FreeSound DEF P
<1>2. Sound(Brief(P, {"see"}, {Check("data", 0, 1)}, Cells(0, 0, 0),
      Cells(1, 0, 0), Cells(1, 0, 0), {}))
  BY MomentSound DEF P
<1> QED
  BY <1>1, <1>2 DEF Seeing

LEMMA DebuggingSound ==
  \A w \in Debugging : Sound(w)
<1>1. Sound(Brief(P, {"debug-xt"}, {}, Cells(1, 0, 0), Cells(1, 0, 0), Cells(1, 0,
      0), {"data"}))
  BY BriefSound, FamilySound, CellsType, CellsAt DEF Check, Cells, Safe, Fair, Stacks, P
<1> QED
  BY <1>1 DEF Debugging

LEMMA StepBreaksSound ==
  \A w \in StepBreaks : Sound(w)
<1>1. Sound(Brief(P, {"step-break"}, {}, Cells(0, 0, 0), Cells(1, 0, 0), Cells(1, 0,
      0), {"data"}))
  BY BriefSound, FamilySound, CellsType, CellsAt DEF Check, Cells, Safe, Fair, Stacks, P
<1> QED
  BY <1>1 DEF StepBreaks

LEMMA ForgettingSound ==
  \A w \in Forgetting : Sound(w)
<1>1. Sound(Free({"forget-wid"}, 1, 0))
  BY FreeSound DEF P
<1>2. Sound(Brief(P, {"forget"}, {Check("data", 0, 1)}, Cells(0, 0, 0),
      Cells(1, 0, 0), Cells(1, 0, 0), {}))
  BY MomentSound DEF P
<1> QED
  BY <1>1, <1>2 DEF Forgetting

LEMMA NameTokensSound ==
  \A w \in NameTokens : Sound(w)
BY DataSound DEF NameTokens, P

LEMMA WordListsSound ==
  \A w \in WordLists : Sound(w)
<1>1. Sound(OnData(P, {"traverse-wordlist"}, {Check("data", 2, 1)}, 2, 1, {}))
  BY OnDataOne DEF Overcautious, Stacks, P
<1>2. Sound(OnData(P, {"traverse-wordlist"}, {Check("data", 2, 1)}, 2, 0, {}))
  BY OnDataOne DEF Overcautious, Stacks, P
<1>3. Sound(Free({"(traverse-wordlist)"}, 1, 1))
  BY FreeSound DEF P
<1>4. Sound(Free({"(traverse-wordlist)"}, 1, 0))
  BY FreeSound DEF P
<1> QED
  BY <1>1, <1>2, <1>3, <1>4 DEF WordLists

(* The whole vocabulary keeps to what its checks allow.                    *)
LEMMA VmWordsSound ==
  \A w \in VmWords : Sound(w)
BY NestedTextsSound, NestedTokensSound, LiteralsSound, InlineLiteralsSound, LocalsSound,
   SumsSound, ShufflesSound, IndexedSound, SmallStoresSound, TestsSound,
   ReturnStackSound, BitsSound, StringsSound, BranchesSound, LoopsSound,
   DoesSound, MemorySound, ProductsSound, SteppersSound, ARegisterSound,
   BRegisterSound, FloatSumsSound, ConversionsSound, FloatShufflesSound,
   FloatIndexedSound, FloatTestsSound, FloatSteppersSound,
   FloatARegisterSound, FloatBRegisterSound, BodiesSound DEF
   VmWords

LEMMA CoreWordsSound ==
  \A w \in CoreWords : Sound(w)
BY MarksSound, ColonsSound, ForwardsSound, CasesSound, OfsSound, ConstantsSound,
   PrintingSound, SprintfSound, OutputSound, InterpretingSound,
   NumbersSound, LiteralWordsSound, LoopWordsSound, CellwiseSound,
   TokensSound, StringWordsSound, HeadersSound, PicturedSound, ToNumberSound, BeginsSound,
   CharactersSound, QueriesSound, ParsingSound, FindingSound, InputWordsSound,
   LocalWordsSound, LocalDeclarationsSound, ValuesSound, ToValuesSound, DivisionsSound,
   DoublesSound, SourcesSound, HeapSound DEF CoreWords

LEMMA FloatWordsSound ==
  \A w \in FloatWords : Sound(w)
BY DoubleFloatsSound, SingleFloatsSound, FloatConstantsSound,
   RepresentSound, FixedTextsSound, ScientificTextsSound,
   EngineeringTextsSound, FloatLiteralsSound, VectorsSound,
   FloatFunctionsSound, TranscendentalsSound, DoubleConversionsSound,
   FloatPredicatesSound, FloatNumbersSound, PolynomialsSound DEF FloatWords

LEMMA SystemWordsSound ==
  \A w \in SystemWords : Sound(w)
BY ClocksSound, TerminalSound, ForeignCallsSound, CallbacksSound,
   TasksSound, TaskControlsSound, MutexesSound, AtomicsSound, FlipsSound, AddressesSound, FuzzyLogicSound,
   SingleBitsSound, OpeningFilesSound, NamedFilesSound, FilePlacesSound,
   FileTransfersSound, FileChangesSound, SeeingSound, DebuggingSound,
   StepBreaksSound, ForgettingSound, WordListsSound, NameTokensSound,
   EnvironmentSound, SearchOrderSound, NewWordListsSound DEF SystemWords, ExtraWords,
   FileWords, ToolWords, SearchWords

LEMMA VocabularySound ==
  \A w \in Vocabulary : Sound(w)
BY VmWordsSound, CoreWordsSound, FloatWordsSound, SystemWordsSound DEF Vocabulary

(***************************************************************************)
(* The invariant: a stack that no open word has touched is within its      *)
(* array, with room for what the word that runs has to give and with what  *)
(* it has to drop; nothing runs while an error is on its way; and what a   *)
(* CATCH keeps has room for the code of the error.                         *)
(***************************************************************************)
StacksHold(d, r, k) ==
  \A s \in Stacks \ k :
    /\ 0 <= d[s]
    /\ d[s] <= Size[s]
    /\ d[s] + r.gives[s] <= Size[s]
    /\ r.drops[s] <= d[s] + r.gives[s]

Works == [gives : [Stacks -> Nat], drops : [Stacks -> Nat], checked : SUBSET Stacks]

IInv ==
  /\ TypeOK
  /\ failing => rest = Idle
  /\ StacksHold(depth, rest, weak)
  /\ CatchHasRoom

LEMMA NoneType ==
  /\ None \in [Stacks -> Nat]
  /\ \A s \in Stacks : None[s] = 0
BY CellsType, CellsAt DEF None, Cells, Stacks

LEMMA IdleType ==
  /\ Idle \in Works
  /\ Idle.gives = None /\ Idle.drops = None
BY NoneType DEF Idle, Works

LEMMA ReadyWithin ==
  ASSUME TypeOK, Ready
  PROVE  Within(depth)
BY StacksAssumption DEF TypeOK, Ready, Inside, Within

LEMMA InitInv == Init => IInv
<1> SUFFICES ASSUME Init PROVE IInv
  OBVIOUS
<1>1. TypeOK
  <2>1. frames \in Seq([data : Int, return : Int])
    BY EmptySeq DEF Init
  <2>2. depth \in [Stacks -> Int] /\ rest \in Works
    BY NoneType, IdleType DEF Init
  <2> QED
    BY <2>1, <2>2 DEF Init, TypeOK, Works
<1>2. StacksHold(depth, rest, weak)
  BY NoneType, IdleType, StacksAssumption DEF Init, StacksHold
<1> QED
  BY <1>1, <1>2 DEF Init, IInv, CatchHasRoom

LEMMA BeginInv ==
  ASSUME IInv, NEW w \in Vocabulary, Begin(w)
  PROVE  IInv'
<1>1. Typed(w) /\ Guarded(w)
  BY VocabularySound DEF Sound
<1>2. Within(depth)
  BY ReadyWithin DEF IInv, Begin
<1>3. \A s \in Stacks \ w.open :
        /\ w.takes[s] <= depth[s]
        /\ depth[s] - w.takes[s] + w.gives[s] <= Size[s]
        /\ w.drops[s] <= depth[s] - w.takes[s] + w.gives[s]
  BY <1>1, <1>2 DEF Guarded, Begin
<1>4. /\ depth' = [s \in Stacks |-> depth[s] - w.takes[s]]
      /\ rest'.gives = w.gives /\ rest'.drops = w.drops
      /\ weak' = weak \cup w.open
  BY DEF Begin, Minus
<1>5. {c.stack : c \in w.checks} \in SUBSET Stacks
  BY <1>1 DEF Typed
<1>6. rest' \in Works
  BY <1>1, <1>5 DEF Begin, Typed, Works
<1>7. depth' \in [Stacks -> Int]
  BY <1>1, <1>2, <1>4 DEF Typed, Within
<1>8. TypeOK'
  BY <1>1, <1>4, <1>6, <1>7 DEF IInv, TypeOK, Begin, Works, Typed
<1>9. StacksHold(depth', rest', weak')
  <2> SUFFICES ASSUME NEW s \in Stacks \ weak'
               PROVE  /\ 0 <= depth'[s]
                      /\ depth'[s] <= Size[s]
                      /\ depth'[s] + rest'.gives[s] <= Size[s]
                      /\ rest'.drops[s] <= depth'[s] + rest'.gives[s]
    BY DEF StacksHold
  <2>1. /\ w.takes[s] \in Nat /\ w.gives[s] \in Nat /\ w.drops[s] \in Nat
        /\ depth[s] \in Int /\ Size[s] \in Nat /\ depth[s] <= Size[s]
    BY <1>1, <1>2, StacksAssumption DEF Typed, Within
  <2>2. s \in Stacks \ w.open
    BY <1>4
  <2>3. depth'[s] = depth[s] - w.takes[s]
    BY <1>4
  <2> QED
    BY <1>3, <1>4, <2>1, <2>2, <2>3
<1> QED
  BY <1>8, <1>9 DEF IInv, Begin, Ready, CatchHasRoom

LEMMA GiveInv ==
  ASSUME IInv, Give
  PROVE  IInv'
<1>1. /\ depth' = [s \in Stacks |-> depth[s] + rest.gives[s]]
      /\ weak' = weak /\ failing' = failing /\ frames' = frames
      /\ depth \in [Stacks -> Int] /\ rest \in Works
  BY DEF Give, Plus, IInv, TypeOK, Works
<1>2. /\ rest' \in Works
      /\ rest'.gives = None
      /\ rest'.drops = rest.drops
  BY <1>1, IdleType, NoneType DEF Give, Works
<1>3. depth' \in [Stacks -> Int]
  BY <1>1 DEF Works
<1>4. TypeOK'
  BY <1>1, <1>2, <1>3 DEF IInv, TypeOK, Works
<1>5. StacksHold(depth', rest', weak')
  <2> SUFFICES ASSUME NEW s \in Stacks \ weak
               PROVE  /\ 0 <= depth'[s]
                      /\ depth'[s] <= Size[s]
                      /\ depth'[s] + rest'.gives[s] <= Size[s]
                      /\ rest'.drops[s] <= depth'[s] + rest'.gives[s]
    BY <1>1 DEF StacksHold
  <2>1. depth'[s] = depth[s] + rest.gives[s] /\ rest'.gives[s] = 0
    BY <1>1, <1>2, NoneType
  <2>2. depth[s] \in Int /\ rest.gives[s] \in Nat /\ rest.drops[s] \in Nat
    BY <1>1 DEF Works
  <2>3. /\ 0 <= depth[s] /\ depth[s] + rest.gives[s] <= Size[s]
        /\ rest.drops[s] <= depth[s] + rest.gives[s]
    BY DEF IInv, StacksHold
  <2>4. Size[s] \in Nat
    BY StacksAssumption
  <2> QED
    BY <1>2, <2>1, <2>2, <2>3, <2>4
<1> QED
  BY <1>1, <1>4, <1>5 DEF IInv, Give, CatchHasRoom

LEMMA DropInv ==
  ASSUME IInv, Drop
  PROVE  IInv'
<1>1. /\ depth' = [s \in Stacks |-> depth[s] - rest.drops[s]]
      /\ rest' = Idle /\ rest.gives = None
      /\ weak' = weak /\ failing' = failing /\ frames' = frames
      /\ depth \in [Stacks -> Int] /\ rest \in Works
  BY DEF Drop, Minus, IInv, TypeOK, Works
<1>2. TypeOK'
  BY <1>1, IdleType DEF IInv, TypeOK, Works
<1>3. StacksHold(depth', rest', weak')
  <2> SUFFICES ASSUME NEW s \in Stacks \ weak
               PROVE  /\ 0 <= depth'[s]
                      /\ depth'[s] <= Size[s]
                      /\ depth'[s] + Idle.gives[s] <= Size[s]
                      /\ Idle.drops[s] <= depth'[s] + Idle.gives[s]
    BY <1>1 DEF StacksHold
  <2>1. depth'[s] = depth[s] - rest.drops[s]
    BY <1>1
  <2>2. rest.gives[s] = 0 /\ Idle.gives[s] = 0 /\ Idle.drops[s] = 0
    BY <1>1, NoneType, IdleType
  <2>3. depth[s] \in Int /\ rest.drops[s] \in Nat /\ Size[s] \in Nat
    BY <1>1, StacksAssumption DEF Works
  <2>4. depth[s] <= Size[s] /\ rest.drops[s] <= depth[s] + rest.gives[s]
    BY DEF IInv, StacksHold
  <2> QED
    BY <2>1, <2>2, <2>3, <2>4
<1> QED
  BY <1>1, <1>2, <1>3 DEF IInv, CatchHasRoom

LEMMA IdleHolds ==
  ASSUME NEW d \in [Stacks -> Int], NEW k,
         \A s \in Stacks \ k : 0 <= d[s] /\ d[s] <= Size[s]
  PROVE  StacksHold(d, Idle, k)
BY IdleType, NoneType, StacksAssumption DEF StacksHold

(* An error, and the ways out of it.                                       *)
LEMMA FailInv ==
  ASSUME IInv, Fail \/ \E w \in Vocabulary : Reject(w)
  PROVE  IInv'
<1>1. /\ rest' = Idle /\ failing' \in BOOLEAN
      /\ depth' = depth /\ weak' = weak /\ frames' = frames
      /\ depth \in [Stacks -> Int]
  BY DEF Fail, Reject, Ready, IInv, TypeOK
<1>2. TypeOK'
  BY <1>1, IdleType DEF IInv, TypeOK, Works
<1>3. \A s \in Stacks \ weak : 0 <= depth[s] /\ depth[s] <= Size[s]
  BY DEF IInv, StacksHold
<1>4. StacksHold(depth', rest', weak')
  BY <1>1, <1>3, IdleHolds
<1> QED
  BY <1>1, <1>2, <1>4 DEF IInv, CatchHasRoom

LEMMA CatchInv ==
  ASSUME IInv, Catch
  PROVE  IInv'
<1> DEFINE saved == [data |-> depth["data"] - 1, return |-> depth["return"]]
           three == Cells(1, 0, -1)
<1>1. Within(depth)
  BY ReadyWithin DEF IInv, Catch
<1>2. depth["data"] \in Int /\ depth["return"] \in Int
  BY <1>1 DEF Within, Stacks
<1>3. 1 <= depth["data"]
  <2>1. Check("data", 1, 0) \in Enforced(CatchChecks)
    BY MachineAssumption DEF Enforced, CatchChecks, Primitive
  <2>2. ~ Underflow(Check("data", 1, 0), depth)
    BY <2>1 DEF Catch, Admits
  <2> QED
    BY <1>2, <2>2 DEF Underflow, Check
<1>4. /\ 0 <= saved.data /\ saved.data < Size["data"]
      /\ 0 <= saved.return /\ saved.return <= Size["return"]
  BY <1>1, <1>2, <1>3, StacksAssumption DEF Within, Stacks
<1>5. three["data"] = 1 /\ three["float"] = 0 /\ three["return"] = -1
  BY CellsAt
<1>6. /\ depth' = [s \in Stacks |-> depth[s] - three[s]]
      /\ frames' = Append(frames, saved)
      /\ weak' = weak \cup {"return"}
      /\ rest' = rest /\ failing' = failing /\ rest = Idle
  BY DEF Catch, Minus, Ready
<1> HIDE DEF three
<1>7. \A s \in Stacks : s = "data" \/ s = "float" \/ s = "return"
  BY DEF Stacks
<1>8. depth' \in [Stacks -> Int]
  BY <1>1, <1>5, <1>6, <1>7 DEF Within
<1>9. frames \in Seq([data : Int, return : Int]) /\ saved \in [data : Int, return : Int]
  BY <1>2 DEF IInv, TypeOK
<1> HIDE DEF saved
<1>10. TypeOK'
  BY <1>6, <1>8, <1>9 DEF IInv, TypeOK, Stacks
<1>11. \A s \in Stacks \ weak' : 0 <= depth'[s] /\ depth'[s] <= Size[s]
  <2> SUFFICES ASSUME NEW s \in Stacks \ weak' PROVE 0 <= depth'[s] /\ depth'[s] <= Size[s]
    OBVIOUS
  <2>1. s = "data" \/ s = "float"
    BY <1>6, <1>7
  <2>2. depth[s] \in Int /\ Size[s] \in Nat /\ 0 <= depth[s] /\ depth[s] <= Size[s]
    BY <1>1, StacksAssumption DEF Within
  <2>3. depth'[s] = depth[s] - three[s]
    BY <1>6
  <2> QED
    BY <1>3, <1>5, <2>1, <2>2, <2>3
<1>12. StacksHold(depth', rest', weak')
  BY <1>6, <1>8, <1>11, IdleHolds
<1>13. CatchHasRoom'
  <2> DEFINE T == [data : Int, return : Int]
  <2>0. frames \in Seq(T) /\ saved \in T
    BY <1>9
  <2> HIDE DEF T
  <2>2. /\ Len(frames') = Len(frames) + 1 /\ Len(frames) \in Nat
        /\ \A i \in 1..Len(frames) : frames'[i] = frames[i]
        /\ frames'[Len(frames) + 1] = saved
    BY <2>0, <1>6, AppendProperties, LenProperties
  <2>1. \A i \in 1..Len(frames') :
          frames'[i] = saved \/ (i \in 1..Len(frames) /\ frames'[i] = frames[i])
    BY <2>2
  <2> QED
    BY <1>4, <2>1 DEF IInv, CatchHasRoom
<1> QED
  BY <1>6, <1>10, <1>12, <1>13 DEF IInv

(* The frames that are left when the last one goes.                        *)
LEMMA FramesLeft ==
  ASSUME IInv, frames # <<>>, frames' = SubSeq(frames, 1, Len(frames) - 1)
  PROVE  frames' \in Seq([data : Int, return : Int]) /\ CatchHasRoom'
<1>1. frames \in Seq([data : Int, return : Int])
  BY DEF IInv, TypeOK
<1>2. /\ Len(frames') = Len(frames) - 1 /\ Len(frames) \in Nat
      /\ \A i \in 1..Len(frames') : frames'[i] = frames[i]
      /\ frames' \in Seq([data : Int, return : Int])
  <2> DEFINE T == [data : Int, return : Int]
             n == Len(frames) - 1
  <2>1. Len(frames) \in Nat /\ n \in Nat /\ n - 1 + 1 = n
        /\ \A i \in 1..n : frames[i] \in T
    <3>1. frames \in Seq(T)
      BY <1>1
    <3> HIDE DEF T
    <3>2. Len(frames) \in Nat /\ Len(frames) # 0
      BY <3>1, LenProperties, EmptySeq
    <3>3. \A i \in 1..Len(frames) : frames[i] \in T
      BY <3>1, ElementOfSeq
    <3> QED
      BY <3>2, <3>3
  <2> HIDE DEF T
  <2>2. /\ SubSeq(frames, 1, n) \in Seq(T)
        /\ Len(SubSeq(frames, 1, n)) = IF 1 <= n THEN n - 1 + 1 ELSE 0
        /\ \A i \in 1..n - 1 + 1 : SubSeq(frames, 1, n)[i] = frames[1 + i - 1]
    BY <2>1, SubSeqProperties
  <2> QED
    BY <2>1, <2>2 DEF T
<1> QED
  BY <1>2 DEF IInv, CatchHasRoom

LEMMA CatchReturnInv ==
  ASSUME IInv, CatchReturn
  PROVE  IInv'
<1> DEFINE three == Cells(1, 0, -1)
<1>1. Within(depth)
  BY ReadyWithin DEF IInv, CatchReturn
<1>2. three["data"] = 1 /\ three["float"] = 0 /\ three["return"] = -1
  BY CellsAt
<1>3. /\ depth' = [s \in Stacks |-> depth[s] + three[s]]
      /\ weak' = weak \cup {"data", "return"}
      /\ rest' = rest /\ failing' = failing /\ rest = Idle
  BY DEF CatchReturn, Plus, Ready
<1> HIDE DEF three
<1>4. \A s \in Stacks : s = "data" \/ s = "float" \/ s = "return"
  BY DEF Stacks
<1>5. depth' \in [Stacks -> Int]
  BY <1>1, <1>2, <1>3, <1>4 DEF Within
<1>6. frames' \in Seq([data : Int, return : Int]) /\ CatchHasRoom'
  BY FramesLeft DEF CatchReturn
<1>7. TypeOK'
  BY <1>3, <1>5, <1>6 DEF IInv, TypeOK, Stacks
<1>8. \A s \in Stacks \ weak' : 0 <= depth'[s] /\ depth'[s] <= Size[s]
  <2> SUFFICES ASSUME NEW s \in Stacks \ weak' PROVE 0 <= depth'[s] /\ depth'[s] <= Size[s]
    OBVIOUS
  <2>1. s = "float"
    BY <1>3, <1>4
  <2>2. depth[s] \in Int /\ 0 <= depth[s] /\ depth[s] <= Size[s]
    BY <1>1 DEF Within
  <2>3. depth'[s] = depth[s] + three[s]
    BY <1>3
  <2> QED
    BY <1>2, <2>1, <2>2, <2>3
<1>9. StacksHold(depth', rest', weak')
  BY <1>3, <1>5, <1>8, IdleHolds
<1> QED
  BY <1>3, <1>6, <1>7, <1>9 DEF IInv

LEMMA UnwindInv ==
  ASSUME IInv, Unwind
  PROVE  IInv'
<1> DEFINE saved == frames[Len(frames)]
<1>1. /\ frames \in Seq([data : Int, return : Int]) /\ frames # <<>>
      /\ depth \in [Stacks -> Int]
  BY DEF IInv, TypeOK, Unwind
<1>2. Len(frames) \in 1..Len(frames)
  BY <1>1
<1>3. /\ saved.data \in Int /\ saved.return \in Int
      /\ 0 <= saved.data /\ saved.data < Size["data"]
      /\ 0 <= saved.return /\ saved.return <= Size["return"]
  <2>1. saved \in [data : Int, return : Int]
    BY <1>1, <1>2, ElementOfSeq
  <2>2. /\ 0 <= saved.data /\ saved.data < Size["data"]
        /\ 0 <= saved.return /\ saved.return <= Size["return"]
    BY <1>2 DEF IInv, CatchHasRoom
  <2> QED
    BY <2>1, <2>2
<1>4. depth' = [depth EXCEPT !["data"] = saved.data + 1, !["return"] = saved.return]
  BY DEF Unwind
<1> HIDE DEF saved
<1>5. /\ depth' \in [Stacks -> Int]
      /\ depth'["data"] = saved.data + 1 /\ depth'["return"] = saved.return
      /\ depth'["float"] = depth["float"]
  BY <1>1, <1>3, <1>4 DEF Stacks
<1>6. rest' = Idle /\ failing' = FALSE /\ weak' = weak /\ rest = Idle
  BY DEF Unwind, IInv
<1>7. frames' \in Seq([data : Int, return : Int]) /\ CatchHasRoom'
  BY FramesLeft DEF Unwind
<1>8. TypeOK'
  BY <1>5, <1>6, <1>7, IdleType DEF IInv, TypeOK, Works
<1>9. \A s \in Stacks \ weak' : 0 <= depth'[s] /\ depth'[s] <= Size[s]
  <2> SUFFICES ASSUME NEW s \in Stacks \ weak' PROVE 0 <= depth'[s] /\ depth'[s] <= Size[s]
    OBVIOUS
  <2>1. CASE s = "data"
    BY <1>3, <1>5, <2>1, StacksAssumption DEF Stacks
  <2>2. CASE s = "return"
    BY <1>3, <1>5, <2>2
  <2>3. CASE s = "float"
    BY <1>5, <1>6, <2>3 DEF IInv, StacksHold
  <2> QED
    BY <2>1, <2>2, <2>3 DEF Stacks
<1>10. StacksHold(depth', rest', weak')
  BY <1>5, <1>6, <1>9, IdleHolds
<1> QED
  BY <1>6, <1>7, <1>8, <1>10 DEF IInv

LEMMA AbortInv ==
  ASSUME IInv, Abort
  PROVE  IInv'
<1>1. /\ depth' = None /\ rest' = Idle /\ weak' = {} /\ frames' = frames
      /\ failing' \in BOOLEAN
  BY DEF Abort, IInv
<1>2. TypeOK'
  BY <1>1, NoneType, IdleType DEF IInv, TypeOK, Works
<1>3. \A s \in Stacks \ weak' : 0 <= depth'[s] /\ depth'[s] <= Size[s]
  BY <1>1, NoneType, StacksAssumption
<1>4. StacksHold(depth', rest', weak')
  BY <1>1, <1>2, <1>3, IdleHolds DEF TypeOK
<1> QED
  BY <1>1, <1>2, <1>4 DEF IInv, CatchHasRoom

LEMMA QuitInv ==
  ASSUME IInv, Quit
  PROVE  IInv'
<1>1. /\ depth' = [depth EXCEPT !["return"] = 0] /\ rest' = Idle
      /\ weak' = weak \ {"return"} /\ frames' = frames
      /\ failing' \in BOOLEAN /\ depth \in [Stacks -> Int]
  BY DEF Quit, IInv, TypeOK
<1>2. depth' \in [Stacks -> Int]
  BY <1>1 DEF Stacks
<1>3. TypeOK'
  BY <1>1, <1>2, IdleType DEF IInv, TypeOK, Works
<1>4. \A s \in Stacks \ weak' : 0 <= depth'[s] /\ depth'[s] <= Size[s]
  <2> SUFFICES ASSUME NEW s \in Stacks \ weak' PROVE 0 <= depth'[s] /\ depth'[s] <= Size[s]
    OBVIOUS
  <2>1. CASE s = "return"
    BY <1>1, <2>1, StacksAssumption DEF Stacks
  <2>2. CASE s # "return"
    <3>1. depth'[s] = depth[s] /\ s \in Stacks \ weak
      BY <1>1, <2>2
    <3> QED
      BY <3>1 DEF IInv, StacksHold
  <2> QED
    BY <2>1, <2>2
<1>5. StacksHold(depth', rest', weak')
  BY <1>1, <1>2, <1>4, IdleHolds
<1> QED
  BY <1>1, <1>3, <1>5 DEF IInv, CatchHasRoom

LEMMA StepInv == IInv /\ [Next]_vars => IInv'
<1> SUFFICES ASSUME IInv, [Next]_vars PROVE IInv'
  OBVIOUS
<1>1. ASSUME NEW w \in Vocabulary, Begin(w) PROVE IInv'
  BY <1>1, BeginInv
<1>2. CASE Give
  BY <1>2, GiveInv
<1>3. CASE Drop
  BY <1>3, DropInv
<1>4. CASE Fail \/ \E w \in Vocabulary : Reject(w)
  BY <1>4, FailInv
<1>5. CASE Catch
  BY <1>5, CatchInv
<1>6. CASE CatchReturn
  BY <1>6, CatchReturnInv
<1>7. CASE Unwind
  BY <1>7, UnwindInv
<1>8. CASE Abort
  BY <1>8, AbortInv
<1>9. CASE Quit
  BY <1>9, QuitInv
<1>10. CASE UNCHANGED vars
  BY <1>10 DEF vars, IInv, TypeOK, StacksHold, CatchHasRoom
<1> QED
  BY <1>1, <1>2, <1>3, <1>4, <1>5, <1>6, <1>7, <1>8, <1>9, <1>10 DEF Next

LEMMA InvHolds == Spec => []IInv
BY InitInv, StepInv, PTL DEF Spec

(***************************************************************************)
(* Every variable keeps its type.  Code: vm.c, the words of every table.   *)
(***************************************************************************)
THEOREM TypeCorrect == Spec => []TypeOK
<1>1. IInv => TypeOK
  BY DEF IInv
<1> QED
  BY <1>1, InvHolds, PTL

(***************************************************************************)
(* A stack that only rightly checked words have touched since its last     *)
(* reset never leaves its array, for every size of the stacks and every    *)
(* count that a program leaves for PICK, ROLL and the like.                *)
(* Code: ficlStackCheck and the check at the head of every word.           *)
(***************************************************************************)
THEOREM StacksKeptIn == Spec => []InBounds
<1>1. IInv => InBounds
  BY DEF IInv, StacksHold, InBounds, Inside
<1> QED
  BY <1>1, InvHolds, PTL

(***************************************************************************)
(* What a CATCH puts back always has room for the code it then pushes      *)
(* without a check.  Code: ficlPrimitiveCatch in primitives.c.             *)
(***************************************************************************)
THEOREM CodeFits == Spec => []CatchHasRoom
<1>1. IInv => CatchHasRoom
  BY DEF IInv
<1> QED
  BY <1>1, InvHolds, PTL

(***************************************************************************)
(* No check stops a program whose word would have fitted, but for the      *)
(* words that check for more than some of their outcomes need.             *)
(* Code: the arguments of CHECK_STACK and FICL_STACK_CHECK in every word.  *)
(***************************************************************************)
THEOREM NoFalseAlarm == Spec => []AlarmsAreTrue
<1>1. IInv => AlarmsAreTrue
  BY VocabularySound, ReadyWithin DEF IInv, AlarmsAreTrue, Sound, Honest
<1> QED
  BY <1>1, InvHolds, PTL

--------------------------------------------------------------------------------
(* The least number of a set.                                              *)
LEMMA Least ==
  ASSUME NEW T \in SUBSET Nat, T # {} PROVE \E x \in T : \A y \in T : x <= y
<1> DEFINE U == {0..n : n \in T}
<1>1. U \subseteq FiniteSubsetsOf(Nat)
  <2>1. ASSUME NEW n \in T PROVE IsFiniteSet(0..n)
    BY FS_Interval
  <2>2. ASSUME NEW n \in T PROVE 0..n \subseteq Nat
    OBVIOUS
  <2> QED BY <2>1, <2>2 DEF FiniteSubsetsOf
<1>2. U # {}
  OBVIOUS
<1> HIDE DEF U
<1>3. PICK u \in U : \A v \in U : <<v, u>> \notin StrictSubsetOrdering(Nat)
  BY <1>1, <1>2, FS_StrictSubsetOrderingWellFounded, WFMin
<1>4. PICK m \in T : u = 0..m
  BY DEF U
<1>5. ASSUME NEW n \in T, n < m PROVE FALSE
  <2>1. 0..n \in U
    BY DEF U
  <2>2. 0..n \in SUBSET Nat /\ u \in SUBSET Nat
    BY <1>4
  <2>3. 0..n \subseteq u /\ 0..n # u
    <3>1. m \in 0..m /\ m \notin 0..n
      BY <1>5
    <3> QED BY <1>4, <1>5, <3>1
  <2>4. <<0..n, u>> \in StrictSubsetOrdering(Nat)
    BY <2>2, <2>3 DEF StrictSubsetOrdering
  <2> QED BY <1>3, <2>1, <2>4
<1> QED BY <1>5

(* What sequences are made of.                                             *)
LEMMA Appending ==
  ASSUME NEW S, NEW p \in Seq(S), NEW x \in S, NEW q, q = Append(p, x)
  PROVE  /\ q \in Seq(S) /\ Len(q) = Len(p) + 1
         /\ \A i \in 1..Len(p) : q[i] = p[i]
         /\ q[Len(p) + 1] = x
  BY AppendProperties

LEMMA Joining ==
  ASSUME NEW S, NEW p \in Seq(S), NEW q \in Seq(S), Len(q) = 3
  PROVE  /\ p \o q \in Seq(S) /\ Len(p \o q) = Len(p) + 3
         /\ \A i \in 1..Len(p) : (p \o q)[i] = p[i]
         /\ (p \o q)[Len(p) + 1] = q[1] /\ (p \o q)[Len(p) + 2] = q[2]
         /\ (p \o q)[Len(p) + 3] = q[3]
<1>1. /\ p \o q \in Seq(S) /\ Len(p \o q) = Len(p) + Len(q)
      /\ \A i \in 1..Len(p) + Len(q) :
           (p \o q)[i] = IF i <= Len(p) THEN p[i] ELSE q[i - Len(p)]
  BY ConcatProperties
<1>2. Len(p) \in Nat
  OBVIOUS
<1>3. \A i \in 1..3 : (p \o q)[Len(p) + i] = q[i]
  <2> SUFFICES ASSUME NEW i \in 1..3 PROVE (p \o q)[Len(p) + i] = q[i]
    OBVIOUS
  <2>1. /\ Len(p) + i \in 1..Len(p) + Len(q) /\ ~(Len(p) + i <= Len(p))
        /\ (Len(p) + i) - Len(p) = i
    BY <1>2
  <2> QED BY <1>1, <2>1
<1> QED BY <1>1, <1>2, <1>3

LEMMA Cutting ==
  ASSUME NEW S, NEW p \in Seq(S), NEW k \in 0..Len(p)
  PROVE  /\ SubSeq(p, 1, k) \in Seq(S) /\ Len(SubSeq(p, 1, k)) = k
         /\ \A i \in 1..k : SubSeq(p, 1, k)[i] = p[i]
<1>1. \A i \in 1..k : p[i] \in S
  OBVIOUS
<1> QED BY <1>1, SubSeqProperties

--------------------------------------------------------------------------------
(***************************************************************************)
(* Registers. What an exception finds in the VM, for every set of threads, *)
(* however deep their inner loops are.                                     *)
(***************************************************************************)

RegisterPlaces == {"host", "run", "primitive", "failed", "thrown"}
RegisterFrames == [entry : Tops, register : Tops]

RegisterTypes ==
  /\ top \in [Threads -> Tops]
  /\ loops \in [Threads -> Seq(RegisterFrames)]
  /\ at \in [Threads -> RegisterPlaces]
  /\ spilled \in BOOLEAN
  /\ kept \in [Threads -> SUBSET Tops]

InLoop(t) == at[t] \in {"run", "primitive", "failed"} => loops[t] # <<>>

(* The thread that wrote spilled last finds in it what it has done.        *)
OwnSpilled(t) ==
  writer = t /\ at[t] # "host" => (spilled <=> at[t] \in {"primitive", "thrown"})

(* Either pair of pointers is right before the handler has chosen.         *)
Chosen(t) == at[t] = "failed" => kept[t] = {Register!Innermost(t).entry, Register!Innermost(t).register}

Kept(t) == at[t] = "thrown" /\ t \notin misled => top[t] \in kept[t]

RegisterInv ==
  /\ RegisterTypes
  /\ \A t \in Threads : InLoop(t) /\ OwnSpilled(t) /\ Chosen(t) /\ Kept(t)

LEMMA LastFrame ==
  ASSUME RegisterTypes, NEW t \in Threads, loops[t] # <<>>
  PROVE  /\ Len(loops[t]) \in Nat \ {0}
         /\ Register!Innermost(t) \in RegisterFrames
         /\ Register!Innermost(t).entry \in Tops /\ Register!Innermost(t).register \in Tops
         /\ Register!Outer(t) \in Seq(RegisterFrames)
<1>1. loops[t] \in Seq(RegisterFrames)
  BY DEF RegisterTypes
<1>2. Len(loops[t]) \in Nat \ {0}
  BY <1>1
<1>3. loops[t][Len(loops[t])] \in RegisterFrames
  BY <1>1, <1>2
<1>4. SubSeq(loops[t], 1, Len(loops[t]) - 1) \in Seq(RegisterFrames)
  BY <1>1, <1>2
<1> QED BY <1>2, <1>3, <1>4 DEF Register!Innermost, Register!Outer, RegisterFrames

(* Setting the register of the innermost loop.                             *)
LEMMA SetRegister ==
  ASSUME RegisterTypes, NEW t \in Threads, loops[t] # <<>>, NEW x \in Tops,
         loops' = [loops EXCEPT ![t][Len(loops[t])].register = x]
  PROVE  /\ loops' \in [Threads -> Seq(RegisterFrames)]
         /\ loops'[t] # <<>>
         /\ \A u \in Threads \ {t} : loops'[u] = loops[u]
<1> DEFINE n == Len(loops[t])
           f == [loops[t][n] EXCEPT !.register = x]
<1>1. loops[t] \in Seq(RegisterFrames) /\ n \in Nat \ {0} /\ n = Len(loops[t])
  BY LastFrame DEF RegisterTypes
<1>2. loops[t][n] \in RegisterFrames
  BY <1>1
<1>3. f \in RegisterFrames
  BY <1>2 DEF RegisterFrames
<1>4. loops' = [loops EXCEPT ![t] = [loops[t] EXCEPT ![n] = f]]
  OBVIOUS
<1> HIDE DEF n, f
<1>5. [loops[t] EXCEPT ![n] = f] \in Seq(RegisterFrames) /\ [loops[t] EXCEPT ![n] = f] # <<>>
  BY <1>1, <1>3
<1> QED BY <1>4, <1>5 DEF RegisterTypes

(* A step of one thread leaves what is said of the others, but for spilled. *)
LEMMA OthersKept ==
  ASSUME RegisterInv, NEW t \in Threads, NEW u \in Threads, u # t,
         at'[u] = at[u], loops'[u] = loops[u], top'[u] = top[u], kept'[u] = kept[u],
         u \notin misled' => u \notin misled,
         \/ spilled' = spilled /\ writer' = writer
         \/ writer' = t
  PROVE  InLoop(u)' /\ OwnSpilled(u)' /\ Chosen(u)' /\ Kept(u)'
<1>1. InLoop(u) /\ OwnSpilled(u) /\ Chosen(u) /\ Kept(u)
  BY DEF RegisterInv
<1>2. InLoop(u)'
  BY <1>1 DEF InLoop
<1>3. OwnSpilled(u)'
  BY <1>1 DEF OwnSpilled
<1>4. Chosen(u)'
  BY <1>1 DEF Chosen, Register!Innermost
<1>5. Kept(u)'
  BY <1>1 DEF Kept
<1> QED BY <1>2, <1>3, <1>4, <1>5

(* The invariant of a step: the type, and what is said of its own thread.  *)
LEMMA StepKeeps ==
  ASSUME RegisterInv, NEW t \in Threads, RegisterTypes',
         InLoop(t)', OwnSpilled(t)', Chosen(t)', Kept(t)',
         \A u \in Threads \ {t} :
           /\ at'[u] = at[u] /\ loops'[u] = loops[u]
           /\ top'[u] = top[u] /\ kept'[u] = kept[u]
           /\ u \notin misled' => u \notin misled,
         \/ spilled' = spilled /\ writer' = writer
         \/ writer' = t
  PROVE  RegisterInv'
<1>1. ASSUME NEW u \in Threads, u # t
      PROVE  InLoop(u)' /\ OwnSpilled(u)' /\ Chosen(u)' /\ Kept(u)'
  BY <1>1, OthersKept
<1> QED BY <1>1 DEF RegisterInv

LEMMA RegistersInitial == ASSUME Register!Init PROVE RegisterInv
<1>1. <<>> \in Seq(RegisterFrames)
  OBVIOUS
<1>2. loops \in [Threads -> Seq(RegisterFrames)] /\ kept \in [Threads -> SUBSET Tops]
  BY <1>1 DEF Register!Init
<1>3. RegisterTypes
  BY <1>2 DEF Register!Init, RegisterTypes, RegisterPlaces
<1>4. \A t \in Threads : at[t] = "host"
  BY DEF Register!Init
<1> QED BY <1>3, <1>4 DEF RegisterInv, InLoop, OwnSpilled, Chosen, Kept

LEMMA EnterKeeps ==
  ASSUME RegisterInv, NEW t \in Threads, Register!Enter(t) PROVE RegisterInv'
<1>1. RegisterTypes
  BY DEF RegisterInv
<1> DEFINE f == [entry |-> top[t], register |-> top[t]]
<1>2. f \in RegisterFrames /\ loops[t] \in Seq(RegisterFrames)
  BY <1>1 DEF RegisterTypes, RegisterFrames
<1>3. loops' = [loops EXCEPT ![t] = Append(loops[t], f)]
  BY DEF Register!Enter
<1> HIDE DEF f
<1>4. Append(loops[t], f) \in Seq(RegisterFrames) /\ Append(loops[t], f) # <<>>
  BY <1>2
<1>5. RegisterTypes'
  BY <1>1, <1>3, <1>4 DEF RegisterTypes, Register!Enter, Register!Refill, Register!Goto,
     RegisterPlaces
<1>6. at'[t] = "run" /\ spilled' = FALSE /\ writer' = t
  BY <1>1 DEF Register!Enter, Register!Refill, Register!Goto, RegisterTypes
<1>7. InLoop(t)' /\ OwnSpilled(t)' /\ Chosen(t)' /\ Kept(t)'
  BY <1>1, <1>3, <1>4, <1>6 DEF InLoop, OwnSpilled, Chosen, Kept, RegisterTypes
<1> QED
  BY <1>1, <1>3, <1>5, <1>6, <1>7, StepKeeps DEF Register!Enter, Register!Refill,
     Register!Goto, RegisterTypes

LEMMA InstructionKeeps ==
  ASSUME RegisterInv, NEW t \in Threads, Register!Instruction(t) PROVE RegisterInv'
<1>1. RegisterTypes /\ loops[t] # <<>>
  BY DEF RegisterInv, Register!Instruction, InLoop
<1>2. PICK x \in Tops : loops' = [loops EXCEPT ![t][Len(loops[t])].register = x]
  BY DEF Register!Instruction
<1>3. /\ loops' \in [Threads -> Seq(RegisterFrames)]
      /\ loops'[t] # <<>>
      /\ \A u \in Threads \ {t} : loops'[u] = loops[u]
  BY <1>1, <1>2, SetRegister
<1>4. RegisterTypes'
  BY <1>1, <1>3 DEF RegisterTypes, Register!Instruction
<1>5. at[t] = "run" /\ OwnSpilled(t)
  BY DEF RegisterInv, Register!Instruction
<1>6. InLoop(t)' /\ OwnSpilled(t)' /\ Chosen(t)' /\ Kept(t)'
  BY <1>3, <1>5 DEF Register!Instruction, InLoop, OwnSpilled, Chosen, Kept
<1> QED BY <1>3, <1>4, <1>6, StepKeeps DEF Register!Instruction

LEMMA CallKeeps ==
  ASSUME RegisterInv, NEW t \in Threads, Register!Call(t) PROVE RegisterInv'
<1>1. RegisterTypes /\ loops[t] # <<>>
  BY DEF RegisterInv, Register!Call, InLoop
<1>2. Register!Innermost(t).register \in Tops
  BY <1>1, LastFrame
<1>3. RegisterTypes'
  BY <1>1, <1>2 DEF RegisterTypes, Register!Call, Register!Spill, Register!Mark,
     Register!Goto, RegisterPlaces
<1>4. at'[t] = "primitive" /\ spilled' = TRUE /\ writer' = t
  BY <1>1 DEF Register!Call, Register!Spill, Register!Mark, Register!Goto, RegisterTypes
<1>5. InLoop(t)' /\ OwnSpilled(t)' /\ Chosen(t)' /\ Kept(t)'
  BY <1>1, <1>4 DEF InLoop, OwnSpilled, Chosen, Kept, Register!Call
<1> QED BY <1>1, <1>3, <1>4, <1>5, StepKeeps DEF Register!Call, Register!Spill,
           Register!Goto, RegisterTypes

LEMMA PrimitiveKeeps ==
  ASSUME RegisterInv, NEW t \in Threads, Register!Primitive(t) PROVE RegisterInv'
<1>1. RegisterTypes /\ InLoop(t) /\ OwnSpilled(t)
  BY DEF RegisterInv
<1>2. RegisterTypes'
  BY <1>1 DEF RegisterTypes, Register!Primitive
<1>3. InLoop(t)' /\ OwnSpilled(t)' /\ Chosen(t)' /\ Kept(t)'
  BY <1>1 DEF Register!Primitive, InLoop, OwnSpilled, Chosen, Kept
<1> QED BY <1>1, <1>2, <1>3, StepKeeps DEF Register!Primitive, RegisterTypes

LEMMA ReturnKeeps ==
  ASSUME RegisterInv, NEW t \in Threads, Register!Return(t) PROVE RegisterInv'
<1>1. RegisterTypes /\ loops[t] # <<>> /\ top[t] \in Tops
  BY DEF RegisterInv, Register!Return, InLoop, RegisterTypes
<1>2. loops' = [loops EXCEPT ![t][Len(loops[t])].register = top[t]]
  BY DEF Register!Return
<1>3. /\ loops' \in [Threads -> Seq(RegisterFrames)]
      /\ loops'[t] # <<>>
      /\ \A u \in Threads \ {t} : loops'[u] = loops[u]
  BY <1>1, <1>2, SetRegister
<1>4. RegisterTypes'
  BY <1>1, <1>3 DEF RegisterTypes, Register!Return, Register!Refill, Register!Goto,
     RegisterPlaces
<1>5. at'[t] = "run" /\ spilled' = FALSE /\ writer' = t
  BY <1>1 DEF Register!Return, Register!Refill, Register!Goto, RegisterTypes
<1>6. InLoop(t)' /\ OwnSpilled(t)' /\ Chosen(t)' /\ Kept(t)'
  BY <1>3, <1>5 DEF InLoop, OwnSpilled, Chosen, Kept
<1> QED BY <1>1, <1>3, <1>4, <1>5, <1>6, StepKeeps DEF Register!Return, Register!Refill,
           Register!Goto, RegisterTypes

LEMMA LeaveKeeps ==
  ASSUME RegisterInv, NEW t \in Threads, Register!Leave(t) PROVE RegisterInv'
<1>1. RegisterTypes /\ loops[t] # <<>>
  BY DEF RegisterInv, Register!Leave, InLoop
<1>2. /\ Register!Innermost(t).register \in Tops /\ Register!Outer(t) \in Seq(RegisterFrames)
      /\ Len(loops[t]) \in Nat \ {0}
  BY <1>1, LastFrame
<1>3. loops' = [loops EXCEPT ![t] = Register!Outer(t)]
  BY DEF Register!Leave
<1>4. Register!Caller(t) \in {"host", "primitive"}
  BY DEF Register!Caller
<1>5. RegisterTypes'
  BY <1>1, <1>2, <1>3, <1>4 DEF RegisterTypes, Register!Leave, Register!Spill,
     Register!Mark, Register!Goto, RegisterPlaces
<1>6. at'[t] = Register!Caller(t) /\ spilled' = TRUE /\ writer' = t
  BY <1>1 DEF Register!Leave, Register!Spill, Register!Mark, Register!Goto, RegisterTypes
<1>7. ASSUME Register!Caller(t) = "primitive" PROVE loops'[t] # <<>>
  <2>1. Len(loops[t]) - 1 \in Nat \ {0}
    BY <1>2, <1>7 DEF Register!Caller
  <2>2. Len(Register!Outer(t)) = Len(loops[t]) - 1
    <3>1. loops[t] \in Seq(RegisterFrames)
      BY <1>1 DEF RegisterTypes
    <3>2. Len(SubSeq(loops[t], 1, Len(loops[t]) - 1)) = Len(loops[t]) - 1
      BY <1>2, <2>1, <3>1
    <3> QED BY <3>2 DEF Register!Outer
  <2>3. Register!Outer(t) # <<>>
    BY <2>1, <2>2
  <2> QED BY <1>1, <1>3, <2>3 DEF RegisterTypes
<1>8. InLoop(t)' /\ OwnSpilled(t)' /\ Chosen(t)' /\ Kept(t)'
  BY <1>4, <1>6, <1>7 DEF InLoop, OwnSpilled, Chosen, Kept
<1> QED BY <1>1, <1>3, <1>5, <1>6, <1>8, StepKeeps DEF Register!Leave, Register!Spill,
           Register!Goto, RegisterTypes

LEMMA ThrowKeeps ==
  ASSUME RegisterInv, NEW t \in Threads, Register!Throw(t) PROVE RegisterInv'
<1>1. RegisterTypes /\ OwnSpilled(t)
  BY DEF RegisterInv
<1>2. RegisterTypes'
  BY <1>1 DEF RegisterTypes, Register!Throw, Register!Goto, RegisterPlaces
<1>3. at'[t] = "thrown" /\ kept'[t] = {top'[t]}
  BY <1>1 DEF Register!Throw, Register!Goto, RegisterTypes
<1>4. InLoop(t)' /\ OwnSpilled(t)' /\ Chosen(t)' /\ Kept(t)'
  BY <1>1, <1>3 DEF Register!Throw, InLoop, OwnSpilled, Chosen, Kept
<1> QED BY <1>1, <1>2, <1>4, StepKeeps DEF Register!Throw, Register!Goto, RegisterTypes

LEMMA FailKeeps ==
  ASSUME RegisterInv, NEW t \in Threads, Register!Fail(t) PROVE RegisterInv'
<1>1. RegisterTypes /\ OwnSpilled(t) /\ loops[t] # <<>>
  BY DEF RegisterInv, Register!Fail, InLoop
<1>2. Register!Innermost(t).entry \in Tops /\ Register!Innermost(t).register \in Tops
  BY <1>1, LastFrame
<1>3. PICK x \in {top[t], Register!Innermost(t).register} : top' = [top EXCEPT ![t] = x]
  BY DEF Register!Fail
<1>4. top' \in [Threads -> Tops] /\ \A u \in Threads \ {t} : top'[u] = top[u]
  BY <1>1, <1>2, <1>3 DEF RegisterTypes
<1>5. RegisterTypes'
  BY <1>1, <1>2, <1>4 DEF RegisterTypes, Register!Fail, Register!Goto, RegisterPlaces
<1>6. /\ at'[t] = "failed"
      /\ kept'[t] = {Register!Innermost(t).entry, Register!Innermost(t).register}
  BY <1>1 DEF Register!Fail, Register!Goto, RegisterTypes
<1>7. InLoop(t)' /\ OwnSpilled(t)' /\ Chosen(t)' /\ Kept(t)'
  BY <1>1, <1>6 DEF Register!Fail, InLoop, OwnSpilled, Chosen, Kept, Register!Innermost
<1> QED BY <1>1, <1>4, <1>5, <1>7, StepKeeps DEF Register!Fail, Register!Goto,
           RegisterTypes

(* A handler that was not misled reads what its own thread wrote: after an *)
(* instruction that the registers are its own, later that the VM has them. *)
LEMMA HandlerKeeps ==
  ASSUME RegisterInv, NEW t \in Threads, Register!Handler(t) PROVE RegisterInv'
<1>1. RegisterTypes /\ OwnSpilled(t) /\ Chosen(t) /\ Kept(t) /\ loops[t] # <<>>
  BY DEF RegisterInv, Register!Handler
<1>2. /\ Register!Innermost(t).entry \in Tops /\ Register!Innermost(t).register \in Tops
      /\ Register!Outer(t) \in Seq(RegisterFrames)
  BY <1>1, LastFrame
<1>3. \/ spilled /\ UNCHANGED <<top, spilled, writer>>
      \/ /\ ~spilled /\ spilled' = TRUE /\ writer' = t
         /\ \E x \in {Register!Innermost(t).entry, Register!Innermost(t).register} :
              top' = [top EXCEPT ![t] = x]
  BY DEF Register!Handler, Register!Spill, Register!Mark
<1>4. top' \in [Threads -> Tops] /\ \A u \in Threads \ {t} : top'[u] = top[u]
  BY <1>1, <1>2, <1>3 DEF RegisterTypes
<1>5. RegisterTypes'
  BY <1>1, <1>2, <1>3, <1>4 DEF RegisterTypes, Register!Handler, Register!Goto,
     RegisterPlaces
<1>6. at'[t] = "thrown" /\ spilled' = TRUE
  BY <1>1, <1>3 DEF Register!Handler, Register!Goto, RegisterTypes
<1>7. ASSUME t \notin misled' PROVE top'[t] \in kept'[t]
  <2>1. writer = t /\ t \notin misled /\ kept' = kept
    BY <1>7 DEF Register!Handler
  <2>2. CASE at[t] = "failed"
    <3>1. ~spilled /\ kept[t] = {Register!Innermost(t).entry, Register!Innermost(t).register}
      BY <1>1, <2>1, <2>2 DEF OwnSpilled, Chosen
    <3> QED BY <1>1, <1>3, <2>1, <3>1 DEF RegisterTypes
  <2>3. CASE at[t] = "thrown"
    BY <1>1, <1>3, <2>1, <2>3 DEF OwnSpilled, Kept
  <2> QED BY <2>2, <2>3 DEF Register!Handler
<1>8. InLoop(t)' /\ OwnSpilled(t)' /\ Chosen(t)' /\ Kept(t)'
  BY <1>6, <1>7 DEF InLoop, OwnSpilled, Chosen, Kept
<1> QED
  BY <1>1, <1>3, <1>4, <1>5, <1>8, StepKeeps DEF Register!Handler, Register!Goto,
     RegisterTypes

LEMMA CatchKeeps ==
  ASSUME RegisterInv, NEW t \in Threads, Register!Catch(t) PROVE RegisterInv'
<1>1. RegisterTypes /\ OwnSpilled(t)
  BY DEF RegisterInv
<1>2. RegisterTypes'
  BY <1>1 DEF RegisterTypes, Register!Catch, Register!Goto, RegisterPlaces
<1>3. /\ at[t] = "thrown"
      /\ at'[t] = IF loops[t] = <<>> THEN "host" ELSE "primitive"
  BY <1>1 DEF Register!Catch, Register!Goto, RegisterTypes
<1>4. InLoop(t)' /\ OwnSpilled(t)' /\ Chosen(t)' /\ Kept(t)'
  BY <1>1, <1>3 DEF Register!Catch, InLoop, OwnSpilled, Chosen, Kept
<1> QED BY <1>1, <1>2, <1>4, StepKeeps DEF Register!Catch, Register!Goto, RegisterTypes

LEMMA RegistersInductive == RegisterInv /\ [Register!Next]_registerVars => RegisterInv'
<1> SUFFICES ASSUME RegisterInv, [Register!Next]_registerVars PROVE RegisterInv'
  OBVIOUS
<1>1. ASSUME NEW t \in Threads, Register!Step(t) PROVE RegisterInv'
  BY <1>1, EnterKeeps, InstructionKeeps, CallKeeps, PrimitiveKeeps, ReturnKeeps,
     LeaveKeeps, ThrowKeeps, FailKeeps, HandlerKeeps, CatchKeeps DEF Register!Step
<1>2. CASE UNCHANGED registerVars
  BY <1>2 DEF registerVars, RegisterInv, RegisterTypes, InLoop, OwnSpilled, Chosen, Kept,
     Register!Innermost
<1> QED BY <1>1, <1>2 DEF Register!Next

--------------------------------------------------------------------------------
(***************************************************************************)
(* Locals. Frames are paired, have room, and names mean what they should.  *)
(***************************************************************************)

LinksIn(c, i) == {k \in 1..i : c[k].op = "link" /\ \A j \in k..i - 1 : c[j].op # "does"}
OpenLinks(c) == {k \in 1..Len(c) : c[k].op = "link" /\ \A j \in k..Len(c) : c[j].op # "does"}
PairedAt(c, i) ==
  /\ c[i].op \in {"exit", "does", "semi"} =>
       (LinksIn(c, i) # {} <=> i > 1 /\ c[i - 1].op = "unlink")
  /\ c[i].op = "link" => LinksIn(c, i) = {i}
  /\ c[i].op = "use" => LinksIn(c, i) # {}
Leftovers ==
  /\ state = "compile" => begun
  /\ ~begun => declared = <<>> /\ localsFixup = 0
  /\ localsCount > 0 /\ ~begun => "count" \in left
  /\ locals # <<>> /\ (~begun \/ localsCount = 0) => "names" \in left
Declared ==
  /\ \A i \in DOMAIN declared : declared[i].index + declared[i].cells <= localsCount
  /\ \A i, j \in DOMAIN declared :
       i < j => declared[i].index + declared[i].cells <= declared[j].index
  /\ begun /\ "names" \notin spoilt => locals = declared
PairedIn(c) == \A i \in DOMAIN c : PairedAt(c, i)

Paired ==
  /\ localsFixup \in 0..Len(code)
  /\ localsFixup # 0 => code[localsFixup].op = "link"
  /\ code # <<>> => code[Len(code)].op # "unlink"
  /\ "count" \notin spoilt => PairedIn(code)
  /\ begun /\ "count" \notin spoilt =>
       /\ localsCount > 0 <=> localsFixup # 0
       /\ OpenLinks(code) = IF localsFixup = 0 THEN {} ELSE {localsFixup}

(* The frame that is open has room for what was declared so far, those     *)
(* before have what their LINK says.                                       *)
RoomIn(c, fixup, count) ==
  \A i \in DOMAIN c : c[i].op = "use" =>
    \A k \in LinksIn(c, i) : c[i].n + c[i].cells <= IF k = fixup THEN count ELSE c[k].n

Room ==
  spoilt = {} =>
    /\ RoomIn(code, localsFixup, localsCount)
    /\ ended /\ localsFixup # 0 => code[localsFixup].n = localsCount

MeantIn(c) == \A i \in DOMAIN c : c[i].op = "use" => c[i].meant = {c[i].n}

Meant == "names" \notin spoilt => MeantIn(code)


LocalCode == [op : {"link", "unlink", "use", "exit", "semi", "does"}, n : Nat,
                 cells : 0..2, meant : SUBSET Nat]
Entries == [name : LocalNames, index : Nat, cells : 1..2]

LocalTypes ==
  /\ state \in {"interpret", "compile"} /\ begun \in BOOLEAN /\ ended \in BOOLEAN
  /\ code \in Seq(LocalCode) /\ locals \in Seq(Entries) /\ declared \in Seq(Entries)
  /\ localsCount \in Nat /\ localsFixup \in Nat
  /\ left \subseteq {"count", "names"} /\ spoilt \subseteq {"count", "names", "room"}


LocalInv == LocalTypes /\ Leftovers /\ Declared /\ Paired /\ Room /\ Meant

(* Appending an instruction: the frames before it stay as they are.        *)
LEMMA Grown ==
  ASSUME NEW c \in Seq(LocalCode), NEW x \in LocalCode
  PROVE  LET d == Append(c, x) IN
         /\ d \in Seq(LocalCode) /\ Len(d) = Len(c) + 1 /\ d # <<>>
         /\ DOMAIN d = DOMAIN c \cup {Len(c) + 1}
         /\ d[Len(c) + 1] = x
         /\ \A i \in DOMAIN c : d[i] = c[i]
         /\ \A i \in DOMAIN c : LinksIn(d, i) = LinksIn(c, i)
         /\ LinksIn(d, Len(c) + 1) =
              OpenLinks(c) \cup (IF x.op = "link" THEN {Len(c) + 1} ELSE {})
         /\ OpenLinks(d) = IF x.op = "does" THEN {}
                           ELSE OpenLinks(c) \cup (IF x.op = "link" THEN {Len(c) + 1} ELSE {})
<1> DEFINE n == Len(c)
           d == Append(c, x)
<1>1. n \in Nat /\ DOMAIN c = 1..n
  OBVIOUS
<1>2. /\ d \in Seq(LocalCode) /\ Len(d) = n + 1 /\ d # <<>>
      /\ \A i \in 1..n : d[i] = c[i]
      /\ d[n + 1] = x
  BY Appending
<1>3. DOMAIN d = 1..n + 1
  BY <1>2
<1> HIDE DEF n, d
<1>4. ASSUME NEW i \in 1..n PROVE LinksIn(d, i) = LinksIn(c, i)
  <2>1. \A k \in 1..i : k \in 1..n
    BY <1>1
  <2>2. \A k \in 1..i : \A j \in k..i - 1 : j \in 1..n
    BY <1>1
  <2> QED BY <1>2, <2>1, <2>2 DEF LinksIn
<1>5. LinksIn(d, n + 1) = OpenLinks(c) \cup (IF x.op = "link" THEN {n + 1} ELSE {})
  <2>1. ASSUME NEW k \in 1..n PROVE k \in LinksIn(d, n + 1) <=> k \in OpenLinks(c)
    <3>1. k \in 1..n + 1 /\ (n + 1) - 1 = n /\ \A j \in k..n : j \in 1..n
      BY <1>1
    <3>2. d[k].op = "link" <=> c[k].op = "link"
      BY <1>2
    <3>3. (\A j \in k..n : d[j].op # "does") <=> (\A j \in k..n : c[j].op # "does")
      BY <1>2, <3>1
    <3> QED BY <3>1, <3>2, <3>3 DEF LinksIn, OpenLinks, n
  <2>2. n + 1 \in LinksIn(d, n + 1) <=> x.op = "link"
    <3>1. n + 1 \in 1..n + 1 /\ ~ \E j \in n + 1..(n + 1) - 1 : TRUE
      BY <1>1
    <3> QED BY <1>2, <3>1 DEF LinksIn
  <2>3. \A k \in LinksIn(d, n + 1) : k \in 1..n \/ k = n + 1
    BY <1>1 DEF LinksIn
  <2>4. OpenLinks(c) \subseteq 1..n
    BY DEF OpenLinks, n
  <2> QED BY <2>1, <2>2, <2>3, <2>4
<1>6. OpenLinks(d) = IF x.op = "does" THEN {} ELSE LinksIn(d, n + 1)
  <2>1. ASSUME NEW k \in 1..n + 1
        PROVE  k \in OpenLinks(d) <=> k \in LinksIn(d, n + 1) /\ x.op # "does"
    <3>1. /\ (n + 1) - 1 = n /\ n + 1 \in k..n + 1
          /\ \A j \in k..n + 1 : j \in k..n \/ j = n + 1
          /\ \A j \in k..n : j \in k..n + 1
      BY <1>1
    <3> QED BY <1>2, <3>1 DEF LinksIn, OpenLinks
  <2>2. OpenLinks(d) \subseteq 1..n + 1 /\ LinksIn(d, n + 1) \subseteq 1..n + 1
    BY <1>2 DEF LinksIn, OpenLinks
  <2> QED BY <2>1, <2>2
<1>7. 1..n + 1 = 1..n \cup {n + 1}
  BY <1>1
<1> QED BY <1>1, <1>2, <1>3, <1>4, <1>5, <1>6, <1>7 DEF n, d

(* What an instruction must find before it.                                *)
Follows(c, x) ==
  /\ x.op \in {"exit", "does", "semi"} =>
       (OpenLinks(c) # {} <=> Len(c) > 0 /\ c[Len(c)].op = "unlink")
  /\ x.op = "link" => OpenLinks(c) = {}
  /\ x.op = "use" => OpenLinks(c) # {}

LEMMA PairedGrown ==
  ASSUME NEW c \in Seq(LocalCode), NEW x \in LocalCode,
         \A i \in DOMAIN c : PairedAt(c, i), Follows(c, x)
  PROVE  \A i \in DOMAIN Append(c, x) : PairedAt(Append(c, x), i)
<1> DEFINE n == Len(c)
           d == Append(c, x)
<1>1. /\ DOMAIN d = DOMAIN c \cup {n + 1} /\ d[n + 1] = x
      /\ \A i \in DOMAIN c : d[i] = c[i] /\ LinksIn(d, i) = LinksIn(c, i)
      /\ LinksIn(d, n + 1) =
           OpenLinks(c) \cup (IF x.op = "link" THEN {n + 1} ELSE {})
  <2>1. DOMAIN d = DOMAIN c \cup {Len(c) + 1} /\ d[Len(c) + 1] = x
    BY Grown
  <2>2. \A i \in DOMAIN c : d[i] = c[i] /\ LinksIn(d, i) = LinksIn(c, i)
    BY Grown
  <2>3. LinksIn(d, Len(c) + 1) =
          OpenLinks(c) \cup (IF x.op = "link" THEN {Len(c) + 1} ELSE {})
    BY Grown
  <2> QED BY <2>1, <2>2, <2>3
<1>2. n \in Nat /\ DOMAIN c = 1..n
  OBVIOUS
<1> HIDE DEF n, d
<1>3. ASSUME NEW i \in DOMAIN c PROVE PairedAt(d, i)
  <2>1. i > 1 => i - 1 \in DOMAIN c
    BY <1>2
  <2>2. i > 1 => d[i - 1] = c[i - 1]
    BY <1>1, <2>1
  <2> QED BY <1>1, <2>2 DEF PairedAt
<1>4. PairedAt(d, n + 1)
  <2>1. n + 1 > 1 <=> n > 0
    BY <1>2
  <2>2. (n + 1) - 1 = n /\ (n > 0 => d[n] = c[n])
    BY <1>1, <1>2
  <2> QED BY <1>1, <2>1, <2>2 DEF PairedAt, Follows, n
<1> QED BY <1>1, <1>3, <1>4 DEF d

LEMMA MeantGrown ==
  ASSUME NEW c \in Seq(LocalCode), NEW x \in LocalCode, MeantIn(c),
         x.op = "use" => x.meant = {x.n}
  PROVE  MeantIn(Append(c, x))
<1> DEFINE d == Append(c, x)
<1>1. /\ DOMAIN d = DOMAIN c \cup {Len(c) + 1} /\ d[Len(c) + 1] = x
      /\ \A i \in DOMAIN c : d[i] = c[i]
  BY Grown
<1> HIDE DEF d
<1>2. MeantIn(d)
  BY <1>1 DEF MeantIn
<1> QED BY <1>2 DEF d

LEMMA RoomGrown ==
  ASSUME NEW c \in Seq(LocalCode), NEW x \in LocalCode,
         NEW f \in 0..Len(c), NEW g \in 0..Len(c) + 1, NEW m \in Nat, NEW n \in Nat,
         g = f \/ (f = 0 /\ g = Len(c) + 1), m <= n, RoomIn(c, f, m), x.op # "link" \/ f = 0,
         x.op = "use" => \A k \in OpenLinks(c) :
                           x.n + x.cells <= IF k = g THEN n ELSE c[k].n
  PROVE  RoomIn(Append(c, x), g, n)
<1> DEFINE d == Append(c, x)
           e == Len(c)
<1>1. /\ DOMAIN d = DOMAIN c \cup {e + 1} /\ d[e + 1] = x
      /\ \A i \in DOMAIN c : d[i] = c[i]
      /\ \A i \in DOMAIN c : LinksIn(d, i) = LinksIn(c, i)
      /\ LinksIn(d, e + 1) =
           OpenLinks(c) \cup (IF x.op = "link" THEN {e + 1} ELSE {})
  BY Grown
<1>2. e \in Nat /\ DOMAIN c = 1..e /\ OpenLinks(c) \subseteq 1..e
  BY DEF OpenLinks
<1>3. c \in [1..e -> LocalCode]
  OBVIOUS
<1> HIDE DEF d, e
<1>4. ASSUME NEW i \in DOMAIN c, c[i].op = "use", NEW k \in LinksIn(c, i)
      PROVE  d[i].n + d[i].cells <= IF k = g THEN n ELSE d[k].n
  <2>1. k \in 1..e
    BY <1>2 DEF LinksIn
  <2>2. d[k] = c[k] /\ d[i] = c[i]
    BY <1>1, <1>2, <2>1
  <2>3. c[i].n + c[i].cells <= IF k = f THEN m ELSE c[k].n
    BY <1>4 DEF RoomIn
  <2>4. c[i].n \in Nat /\ c[i].cells \in Nat
    BY <1>2, <1>3 DEF LocalCode
  <2>5. k = g <=> k = f
    BY <1>2, <2>1 DEF e
  <2> QED BY <2>2, <2>3, <2>4, <2>5
<1>5. ASSUME x.op = "use", NEW k \in LinksIn(d, e + 1)
      PROVE  x.n + x.cells <= IF k = g THEN n ELSE d[k].n
  <2>1. k \in OpenLinks(c)
    BY <1>1, <1>5
  <2>2. d[k] = c[k]
    BY <1>1, <1>2, <2>1
  <2> QED BY <1>5, <2>1, <2>2
<1>6. RoomIn(d, g, n)
  <2> SUFFICES ASSUME NEW i \in DOMAIN d, d[i].op = "use", NEW k \in LinksIn(d, i)
               PROVE  d[i].n + d[i].cells <= IF k = g THEN n ELSE d[k].n
    BY DEF RoomIn
  <2>1. CASE i \in DOMAIN c
    BY <1>1, <1>4, <2>1
  <2>2. CASE i = e + 1
    BY <1>1, <1>5, <2>2
  <2> QED BY <1>1, <2>1, <2>2
<1> QED BY <1>6 DEF d

LEMMA Joins ==
  ASSUME NEW c \in Seq(LocalCode), NEW x \in LocalCode, NEW y \in LocalCode
  PROVE  /\ c \o <<x>> = Append(c, x) /\ c \o <<>> = c /\ <<>> \o <<x>> = <<x>>
         /\ c \o (<<x>> \o <<y>>) = Append(Append(c, x), y)
         /\ (c \o <<x>>) \o <<y>> = Append(Append(c, x), y)
<1>1. c \o <<x>> = Append(c, x)
  BY AppendIsConcat
<1>2. Append(c, x) \in Seq(LocalCode)
  OBVIOUS
<1>3. Append(c, x) \o <<y>> = Append(Append(c, x), y)
  BY <1>2, AppendIsConcat
<1>4. <<x>> \in Seq(LocalCode) /\ <<y>> \in Seq(LocalCode)
  OBVIOUS
<1>5. c \o (<<x>> \o <<y>>) = (c \o <<x>>) \o <<y>>
  BY <1>4, ConcatAssociative
<1>6. c \o <<>> = c
  BY ConcatEmptySeq
<1>7. <<>> \o <<x>> = <<x>>
  BY <1>4, ConcatEmptySeq
<1> QED BY <1>1, <1>3, <1>5, <1>6, <1>7

(* The last declaration of a name exists.                                  *)
LEMMA YoungestIs ==
  ASSUME NEW n \in Nat, NEW S \in SUBSET (1..n), S # {}
  PROVE  Local!Youngest(S) \in S
<1> DEFINE T == {n - i : i \in S}
<1>1. T \in SUBSET Nat /\ T # {}
  <2>1. \A i \in S : i \in 1..n
    OBVIOUS
  <2>2. \A i \in S : n - i \in Nat
    BY <2>1
  <2> QED BY <2>2
<1> HIDE DEF T
<1>2. PICK x \in T : \A y \in T : x <= y
  BY <1>1, Least
<1>3. PICK i \in S : x = n - i
  BY <1>2 DEF T
<1>4. \A j \in S : j <= i
  <2> SUFFICES ASSUME NEW j \in S PROVE j <= i
    OBVIOUS
  <2>1. n - i <= n - j
    BY <1>2, <1>3 DEF T
  <2> QED BY <2>1
<1> QED BY <1>4 DEF Local!Youngest

LEMMA LocalsInitial == ASSUME Local!Init PROVE LocalInv
<1>1. code = <<>> /\ DOMAIN code = {} /\ DOMAIN declared = {} /\ ~begun
      /\ localsFixup = 0 /\ Len(code) = 0
  BY DEF Local!Init
<1>2. LocalTypes
  <2>1. <<>> \in Seq(LocalCode) /\ <<>> \in Seq(Entries)
    OBVIOUS
  <2> QED BY <2>1 DEF Local!Init, LocalTypes
<1>3. Leftovers /\ Declared
  BY <1>1 DEF Local!Init, Leftovers, Declared
<1>4. Paired /\ Room /\ Meant
  BY <1>1 DEF Paired, PairedIn, Room, RoomIn, Meant, MeantIn
<1> QED BY <1>2, <1>3, <1>4 DEF LocalInv

(* With no code there is nothing to be wrong with it.                      *)
LEMMA NoCode ==
  ASSUME LocalTypes', Leftovers', code' = <<>>, declared' = <<>>, localsFixup' = 0,
         begun' => \/ "count" \in spoilt'
                   \/ localsCount' = 0,
         begun' /\ "names" \notin spoilt' => locals' = <<>>
  PROVE  LocalInv'
<1>1. code' = <<>> /\ DOMAIN code' = {} /\ DOMAIN declared' = {} /\ Len(code') = 0
  OBVIOUS
<1>2. Declared'
  BY <1>1 DEF Declared
<1>3. OpenLinks(code') = {}
  BY <1>1 DEF OpenLinks
<1>4. Paired'
  BY <1>1, <1>3 DEF Paired, PairedIn, LocalTypes
<1>5. Room' /\ Meant'
  BY <1>1 DEF Room, RoomIn, Meant, MeantIn
<1> QED BY <1>2, <1>4, <1>5 DEF LocalInv

LEMMA ColonKeeps == ASSUME LocalInv, Local!Colon \/ Local!ColonNoName PROVE LocalInv'
<1>1. PICK stale \in {left, left \ {"count"}} : Local!Begin(stale)
                     /\ localsCount' \in {0, localsCount}
                     /\ (stale = left \/ localsCount' = 0)
  BY DEF Local!Colon, Local!ColonNoName, LocalInv, LocalTypes
<1>2. LocalTypes'
  BY <1>1 DEF Local!Begin, LocalInv, LocalTypes
<1>3. Leftovers'
  BY <1>1 DEF Local!Begin, LocalInv, Leftovers
<1>4. begun' => "count" \in spoilt' \/ localsCount' = 0
  BY <1>1 DEF Local!Begin, LocalInv, Leftovers, LocalTypes
<1>5. "names" \notin spoilt' => locals' = <<>>
  BY <1>1 DEF Local!Begin, LocalInv, Leftovers, LocalTypes
<1> QED BY <1>1, <1>2, <1>3, <1>4, <1>5, NoCode DEF Local!Begin

LEMMA ErrorKeeps == ASSUME LocalInv, Local!Error PROVE LocalInv'
<1>1. LocalTypes'
  <2>1. <<>> \in Seq(LocalCode) /\ <<>> \in Seq(Entries)
    OBVIOUS
  <2>2. locals' \in Seq(Entries) /\ left' \subseteq {"count", "names"}
    BY <2>1 DEF Local!Error, LocalInv, LocalTypes
  <2> QED BY <2>1, <2>2 DEF Local!Error, LocalInv, LocalTypes
<1>2. Leftovers'
  BY DEF Local!Error, LocalInv, Leftovers, LocalTypes
<1> QED BY <1>1, <1>2, NoCode DEF Local!Error

LEMMA BracketKeeps == ASSUME LocalInv, Local!Bracket PROVE LocalInv'
<1> USE DEF Local!Bracket
<1>1. LocalTypes'
  BY DEF LocalInv, LocalTypes
<1>2. Leftovers' /\ Declared'
  BY DEF LocalInv, Leftovers, Declared
<1>3. Paired' /\ Room' /\ Meant'
  BY DEF LocalInv, Paired, Room, Meant
<1> QED BY <1>1, <1>2, <1>3 DEF LocalInv

(* The end of a path: EXIT, ; or DOES>.                                    *)
LEMMA PathEnds ==
  ASSUME LocalInv, begun, NEW op \in {"exit", "does", "semi"},
         code' = code \o Local!Unlinked(op)
  PROVE  /\ code' \in Seq(LocalCode) /\ Len(code') > Len(code)
         /\ code' # <<>> /\ code'[Len(code')].op = op
         /\ "count" \notin spoilt =>
              /\ PairedIn(code')
              /\ OpenLinks(code') = IF op = "does" THEN {} ELSE OpenLinks(code)
         /\ \A i \in DOMAIN code : code'[i] = code[i]
         /\ spoilt = {} => RoomIn(code', localsFixup, localsCount)
         /\ MeantIn(code) => MeantIn(code')
<1> DEFINE x == Local!Op("unlink", 0)
           y == Local!Op(op, 0)
           d == Append(code, x)
<1>1. /\ x \in LocalCode /\ y \in LocalCode /\ x.op = "unlink" /\ y.op = op
  BY DEF Local!Op, LocalCode
<1>2. /\ code \in Seq(LocalCode) /\ Len(code) \in Nat /\ localsFixup \in 0..Len(code)
      /\ localsFixup \in 0..Len(code) + 1 /\ localsCount \in Nat
      /\ code # <<>> => code[Len(code)].op # "unlink"
      /\ spoilt = {} => RoomIn(code, localsFixup, localsCount)
  BY DEF LocalInv, LocalTypes, Paired, Room
<1>3. ASSUME "count" \notin spoilt
      PROVE  PairedIn(code) /\ (localsCount > 0 <=> OpenLinks(code) # {})
  BY <1>3 DEF LocalInv, Paired
<1> HIDE DEF x, y
<1>4. CASE localsCount > 0
  <2>1. code' = Append(d, y)
    <3>1. code' = code \o (<<x>> \o <<y>>)
      BY <1>4 DEF Local!Unlinked, x, y
    <3> QED BY <1>1, <1>2, <3>1, Joins
  <2>2. /\ d \in Seq(LocalCode) /\ Len(d) = Len(code) + 1 /\ d[Len(d)] = x
        /\ DOMAIN d = DOMAIN code \cup {Len(code) + 1}
        /\ \A i \in DOMAIN code : d[i] = code[i]
        /\ OpenLinks(d) = OpenLinks(code)
    <3>1. /\ d \in Seq(LocalCode) /\ Len(d) = Len(code) + 1
          /\ DOMAIN d = DOMAIN code \cup {Len(code) + 1} /\ d[Len(code) + 1] = x
      BY <1>1, <1>2, Grown
    <3>2. \A i \in DOMAIN code : d[i] = code[i]
      BY <1>1, <1>2, Grown
    <3>3. OpenLinks(d) = OpenLinks(code) \cup {}
      BY <1>1, <1>2, Grown
    <3> QED BY <3>1, <3>2, <3>3
  <2>3. "count" \notin spoilt => PairedIn(d)
    BY <1>1, <1>2, <1>3, PairedGrown DEF PairedIn, Follows
  <2>4. spoilt = {} => RoomIn(d, localsFixup, localsCount)
    BY <1>1, <1>2, RoomGrown
  <2>5. MeantIn(code) => MeantIn(d)
    BY <1>1, <1>2, MeantGrown
  <2> HIDE DEF d
  <2>6. /\ code' \in Seq(LocalCode) /\ Len(code') = Len(d) + 1 /\ code' # <<>>
        /\ code'[Len(d) + 1] = y
        /\ \A i \in DOMAIN d : code'[i] = d[i]
        /\ OpenLinks(code') = IF op = "does" THEN {} ELSE OpenLinks(d)
    <3>1. /\ code' \in Seq(LocalCode) /\ Len(code') = Len(d) + 1 /\ code' # <<>>
          /\ code'[Len(d) + 1] = y
      BY <1>1, <2>1, <2>2, Grown
    <3>2. \A i \in DOMAIN d : code'[i] = d[i]
      BY <1>1, <2>1, <2>2, Grown
    <3>3. OpenLinks(code') = IF op = "does" THEN {} ELSE OpenLinks(d)
      <4>1. OpenLinks(Append(d, y)) = IF y.op = "does" THEN {}
              ELSE OpenLinks(d) \cup (IF y.op = "link" THEN {Len(d) + 1} ELSE {})
        BY <1>1, <2>2, Grown
      <4> QED BY <1>1, <2>1, <4>1
    <3> QED BY <3>1, <3>2, <3>3
  <2>7. "count" \notin spoilt => PairedIn(code')
    <3>1. "count" \notin spoilt => Follows(d, y)
      BY <1>1, <1>2, <1>3, <1>4, <2>2 DEF Follows
    <3> QED BY <1>1, <2>1, <2>2, <2>3, <3>1, PairedGrown DEF PairedIn
  <2>8. spoilt = {} => RoomIn(code', localsFixup, localsCount)
    <3>1. localsFixup \in 0..Len(d) /\ localsFixup \in 0..Len(d) + 1
      BY <1>2, <2>2
    <3> QED BY <1>1, <1>2, <2>1, <2>2, <2>4, <3>1, RoomGrown
  <2>9. MeantIn(code) => MeantIn(code')
    BY <1>1, <2>1, <2>2, <2>5, MeantGrown
  <2> QED BY <1>1, <1>2, <2>2, <2>6, <2>7, <2>8, <2>9
<1>5. CASE ~(localsCount > 0)
  <2>1. code' = Append(code, y)
    <3>1. code' = code \o (<<>> \o <<y>>)
      BY <1>5 DEF Local!Unlinked, y
    <3> QED BY <1>1, <1>2, <3>1, Joins
  <2>2. /\ code' \in Seq(LocalCode) /\ Len(code') = Len(code) + 1 /\ code' # <<>>
        /\ code'[Len(code) + 1] = y
        /\ \A i \in DOMAIN code : code'[i] = code[i]
        /\ OpenLinks(code') = IF op = "does" THEN {} ELSE OpenLinks(code)
    <3>1. /\ code' \in Seq(LocalCode) /\ Len(code') = Len(code) + 1 /\ code' # <<>>
          /\ code'[Len(code) + 1] = y
      BY <1>1, <1>2, <2>1, Grown
    <3>2. \A i \in DOMAIN code : code'[i] = code[i]
      BY <1>1, <1>2, <2>1, Grown
    <3>3. OpenLinks(code') = IF op = "does" THEN {} ELSE OpenLinks(code)
      <4>1. OpenLinks(Append(code, y)) = IF y.op = "does" THEN {}
              ELSE OpenLinks(code) \cup (IF y.op = "link" THEN {Len(code) + 1} ELSE {})
        BY <1>1, <1>2, Grown
      <4> QED BY <1>1, <2>1, <4>1
    <3> QED BY <3>1, <3>2, <3>3
  <2>3. "count" \notin spoilt => PairedIn(code')
    <3>1. "count" \notin spoilt => Follows(code, y)
      BY <1>1, <1>2, <1>3, <1>5 DEF Follows
    <3> QED BY <1>1, <1>2, <1>3, <2>1, <3>1, PairedGrown DEF PairedIn
  <2>4. spoilt = {} => RoomIn(code', localsFixup, localsCount)
    BY <1>1, <1>2, <2>1, RoomGrown
  <2>5. MeantIn(code) => MeantIn(code')
    BY <1>1, <1>2, <2>1, MeantGrown
  <2> QED BY <1>1, <1>2, <2>2, <2>3, <2>4, <2>5
<1> QED BY <1>4, <1>5

LEMMA ExitKeeps == ASSUME LocalInv, Local!Exit PROVE LocalInv'
<1>1. /\ state = "compile" /\ begun /\ code' = code \o Local!Unlinked("exit")
      /\ UNCHANGED <<state, begun, locals, localsCount, localsFixup, declared, ended, left, spoilt>>
  BY DEF Local!Exit, Local!Compiling, LocalInv, Leftovers
<1>2. /\ code' \in Seq(LocalCode) /\ Len(code') > Len(code)
      /\ code' # <<>> /\ code'[Len(code')].op = "exit"
      /\ "count" \notin spoilt => PairedIn(code') /\ OpenLinks(code') = OpenLinks(code)
      /\ \A i \in DOMAIN code : code'[i] = code[i]
      /\ spoilt = {} => RoomIn(code', localsFixup, localsCount)
      /\ MeantIn(code) => MeantIn(code')
  <2>1. "exit" \in {"exit", "does", "semi"} /\ "exit" # "does"
    OBVIOUS
  <2> QED BY <1>1, <2>1, PathEnds
<1>3. LocalTypes'
  BY <1>1, <1>2 DEF LocalInv, LocalTypes
<1>4. Leftovers' /\ Declared'
  BY <1>1 DEF LocalInv, Leftovers, Declared
<1>5. Len(code) \in Nat /\ Len(code') \in Nat
  BY <1>2 DEF LocalInv, LocalTypes
<1>6. localsFixup # 0 => localsFixup \in DOMAIN code
  BY <1>5 DEF LocalInv, Paired, LocalTypes
<1>7. Paired'
  BY <1>1, <1>2, <1>5, <1>6 DEF LocalInv, Paired
<1>8. Room' /\ Meant'
  BY <1>1, <1>2, <1>6 DEF LocalInv, Room, Meant
<1> QED BY <1>3, <1>4, <1>7, <1>8 DEF LocalInv

(* ; and DOES> take the frame with them: what it has room for stands now.  *)
LEMMA FrameEnds ==
  ASSUME LocalInv, begun, NEW op \in {"does", "semi"}, Local!EndFrame(op),
         begun' <=> op = "does", state' \in {"interpret", "compile"},
         state' = "compile" => begun'
  PROVE  LocalInv'
<1>1. /\ code' = code \o Local!Unlinked(op)
      /\ locals' = (IF localsCount > 0 THEN <<>> ELSE locals)
      /\ left' = (IF localsCount > 0 THEN {} ELSE left \ {"count"})
      /\ localsCount' = 0 /\ declared' = <<>> /\ ended' = TRUE
      /\ spoilt' = spoilt \cup (IF ended THEN {} ELSE {"room"})
      /\ localsFixup' = 0
  BY DEF Local!EndFrame
<1>2. /\ code' \in Seq(LocalCode) /\ Len(code') > Len(code)
      /\ code' # <<>> /\ code'[Len(code')].op = op
      /\ "count" \notin spoilt =>
           /\ PairedIn(code')
           /\ OpenLinks(code') = IF op = "does" THEN {} ELSE OpenLinks(code)
      /\ \A i \in DOMAIN code : code'[i] = code[i]
      /\ spoilt = {} => RoomIn(code', localsFixup, localsCount)
      /\ MeantIn(code) => MeantIn(code')
  <2>1. op \in {"exit", "does", "semi"}
    OBVIOUS
  <2> QED BY <1>1, <2>1, PathEnds
<1>3. LocalTypes'
  <2>1. <<>> \in Seq(Entries)
    OBVIOUS
  <2> QED BY <1>1, <1>2, <2>1 DEF LocalInv, LocalTypes
<1>4. Leftovers'
  BY <1>1 DEF LocalInv, Leftovers, LocalTypes
<1>5. localsCount = 0 => declared = <<>>
  <2> SUFFICES ASSUME localsCount = 0, declared # <<>> PROVE FALSE
    OBVIOUS
  <2>1. declared \in Seq(Entries) /\ 1 \in DOMAIN declared
    BY DEF LocalInv, LocalTypes
  <2>2. declared[1].index \in Nat /\ declared[1].cells \in 1..2
    <3>1. declared[1] \in Entries
      BY <2>1
    <3> QED BY <3>1 DEF Entries
  <2>3. declared[1].index + declared[1].cells <= localsCount
    BY <2>1 DEF LocalInv, Declared
  <2> QED BY <2>2, <2>3
<1>6. Declared'
  <2>1. "names" \notin spoilt' => locals' = <<>>
    BY <1>1, <1>5 DEF LocalInv, Declared, LocalTypes
  <2>2. DOMAIN declared' = {}
    BY <1>1
  <2> QED BY <1>1, <2>1, <2>2 DEF Declared
<1>7. Len(code) \in Nat /\ Len(code') \in Nat
  BY <1>2 DEF LocalInv, LocalTypes
<1>8. "count" \in spoilt' <=> "count" \in spoilt
  BY <1>1
<1>9. Paired'
  BY <1>1, <1>2, <1>7, <1>8 DEF Paired
<1>10. Room'
  <2> SUFFICES ASSUME spoilt' = {} PROVE RoomIn(code', 0, 0)
    BY <1>1 DEF Room
  <2>1. spoilt = {} /\ ended
    BY <1>1
  <2>2. /\ RoomIn(code', localsFixup, localsCount)
        /\ localsFixup # 0 => code[localsFixup].n = localsCount
        /\ localsFixup \in 0..Len(code)
    BY <1>2, <2>1 DEF LocalInv, Room, Paired
  <2>3. localsFixup # 0 => code'[localsFixup] = code[localsFixup]
    BY <1>2, <1>7, <2>2 DEF LocalInv, LocalTypes
  <2>4. ASSUME NEW i \in DOMAIN code', NEW k \in LinksIn(code', i) PROVE k # 0
    BY <1>2, <2>4 DEF LinksIn
  <2>5. ASSUME NEW i \in DOMAIN code', code'[i].op = "use", NEW k \in LinksIn(code', i)
        PROVE  code'[i].n + code'[i].cells <= code'[k].n
    BY <2>2, <2>3, <2>4, <2>5 DEF RoomIn
  <2> QED BY <2>4, <2>5 DEF RoomIn
<1>11. Meant'
  BY <1>1, <1>2 DEF LocalInv, Meant
<1> QED BY <1>3, <1>4, <1>6, <1>9, <1>10, <1>11 DEF LocalInv

LEMMA EndLocalsKeeps == ASSUME LocalInv, Local!EndLocals PROVE LocalInv'
<1>1. /\ localsCount > 0 /\ ended' = TRUE
      /\ code' = IF localsFixup = 0 THEN code ELSE [code EXCEPT ![localsFixup].n = localsCount]
      /\ UNCHANGED <<state, begun, locals, localsCount, localsFixup, declared, left, spoilt>>
  BY DEF Local!EndLocals
<1>2. /\ code \in Seq(LocalCode) /\ localsFixup \in 0..Len(code) /\ localsCount \in Nat
  BY DEF LocalInv, LocalTypes, Paired
<1>3. /\ code' \in Seq(LocalCode) /\ Len(code') = Len(code)
      /\ \A i \in 1..Len(code) :
           code'[i] = IF i = localsFixup THEN [code[i] EXCEPT !.n = localsCount] ELSE code[i]
  <2>1. CASE localsFixup = 0
    BY <1>1, <1>2, <2>1
  <2>2. CASE localsFixup # 0
    <3> DEFINE e == [code[localsFixup] EXCEPT !.n = localsCount]
    <3>1. localsFixup \in 1..Len(code) /\ code[localsFixup] \in LocalCode
      BY <1>2, <2>2
    <3>2. e \in LocalCode
      BY <1>2, <3>1 DEF LocalCode
    <3>3. code' = [code EXCEPT ![localsFixup] = e]
      BY <1>1, <2>2
    <3> HIDE DEF e
    <3>4. /\ code' \in Seq(LocalCode) /\ Len(code') = Len(code)
          /\ \A i \in 1..Len(code) : code'[i] = IF i = localsFixup THEN e ELSE code[i]
      BY <1>2, <3>1, <3>2, <3>3, ExceptSeq
    <3> QED BY <3>4 DEF e
  <2> QED BY <2>1, <2>2
<1>4. ASSUME NEW i \in 1..Len(code)
      PROVE  /\ code'[i].op = code[i].op /\ code'[i].cells = code[i].cells
             /\ code'[i].meant = code[i].meant
             /\ i # localsFixup => code'[i].n = code[i].n
             /\ i = localsFixup => code'[i].n = localsCount
  <2>1. code[i] \in LocalCode
    BY <1>2
  <2> QED BY <1>3, <2>1 DEF LocalCode
<1>5. /\ DOMAIN code' = 1..Len(code) /\ DOMAIN code = 1..Len(code) /\ Len(code) \in Nat
      /\ code # <<>> <=> Len(code) > 0
      /\ code' # <<>> <=> Len(code) > 0
  BY <1>2, <1>3
<1>6. \A i \in 1..Len(code) : LinksIn(code', i) = LinksIn(code, i)
  <2> SUFFICES ASSUME NEW i \in 1..Len(code) PROVE LinksIn(code', i) = LinksIn(code, i)
    OBVIOUS
  <2>1. \A k \in 1..i : k \in 1..Len(code) /\ \A j \in k..i - 1 : j \in 1..Len(code)
    BY <1>5
  <2> QED BY <1>4, <2>1 DEF LinksIn
<1>7. OpenLinks(code') = OpenLinks(code)
  <2>1. \A k \in 1..Len(code) : \A j \in k..Len(code) : j \in 1..Len(code)
    BY <1>5
  <2> QED BY <1>3, <1>4, <2>1 DEF OpenLinks
<1>8. \A i \in 1..Len(code) : PairedAt(code, i) => PairedAt(code', i)
  <2> SUFFICES ASSUME NEW i \in 1..Len(code), PairedAt(code, i) PROVE PairedAt(code', i)
    OBVIOUS
  <2>1. i > 1 => i - 1 \in 1..Len(code)
    BY <1>5
  <2>2. i > 1 => code'[i - 1].op = code[i - 1].op
    BY <1>4, <2>1
  <2> QED BY <1>4, <1>6, <2>2 DEF PairedAt
<1>9. LocalTypes'
  BY <1>1, <1>3 DEF LocalInv, LocalTypes
<1>10. Leftovers' /\ Declared'
  BY <1>1 DEF LocalInv, Leftovers, Declared
<1>11. Paired'
  <2>1. "count" \notin spoilt => PairedIn(code')
    BY <1>5, <1>8 DEF LocalInv, Paired, PairedIn
  <2>2. localsFixup # 0 => code'[localsFixup].op = "link"
    BY <1>2, <1>4, <1>5 DEF LocalInv, Paired
  <2>3. code' # <<>> => code'[Len(code')].op # "unlink"
    <3>1. Len(code) > 0 => Len(code) \in 1..Len(code)
      BY <1>5
    <3> QED BY <1>3, <1>4, <1>5, <3>1 DEF LocalInv, Paired
  <2> QED BY <1>1, <1>3, <1>7, <2>1, <2>2, <2>3 DEF LocalInv, Paired
<1>12. Room'
  <2> SUFFICES ASSUME spoilt = {} PROVE Room'
    BY <1>1 DEF Room
  <2>1. RoomIn(code, localsFixup, localsCount)
    BY DEF LocalInv, Room
  <2>2. \A i \in 1..Len(code) : code[i].op = "use" => code'[i].n = code[i].n
    BY <1>4 DEF LocalInv, Paired
  <2>3. \A i \in 1..Len(code) : LinksIn(code, i) \subseteq 1..Len(code)
    BY <1>5 DEF LinksIn
  <2>4. RoomIn(code', localsFixup, localsCount)
    <3> SUFFICES ASSUME NEW i \in 1..Len(code), code'[i].op = "use",
                        NEW k \in LinksIn(code', i)
                 PROVE  code'[i].n + code'[i].cells <=
                          IF k = localsFixup THEN localsCount ELSE code'[k].n
      BY <1>5 DEF RoomIn
    <3>1. k \in LinksIn(code, i) /\ k \in 1..Len(code) /\ code[i].op = "use"
      BY <1>4, <1>6, <2>3
    <3>2. code[i].n + code[i].cells <= IF k = localsFixup THEN localsCount ELSE code[k].n
      BY <1>5, <2>1, <3>1 DEF RoomIn
    <3> QED BY <1>4, <2>2, <3>1, <3>2
  <2>5. localsFixup # 0 => code'[localsFixup].n = localsCount
    <3>1. localsFixup # 0 => localsFixup \in 1..Len(code)
      BY <1>2, <1>5
    <3> QED BY <1>4, <3>1
  <2> QED BY <1>1, <2>4, <2>5 DEF Room
<1>13. Meant'
  <2>1. \A i \in 1..Len(code) : code[i].op = "use" => code'[i].n = code[i].n
    BY <1>4 DEF LocalInv, Paired
  <2> QED BY <1>1, <1>4, <1>5, <2>1 DEF LocalInv, Meant, MeantIn
<1> QED BY <1>9, <1>10, <1>11, <1>12, <1>13 DEF LocalInv

(* A declaration: the first of a frame compiles its LINK.                  *)
LEMMA DeclareKeeps ==
  ASSUME LocalInv, NEW nm \in LocalNames, NEW cells \in 1..2, Local!LocalParen(nm, cells)
  PROVE  LocalInv'
<1> DEFINE local == [name |-> nm, index |-> localsCount, cells |-> cells]
           x == Local!Op("link", 0)
           y == [op |-> "use", n |-> localsCount, cells |-> cells, meant |-> {localsCount}]
<1>1. /\ begun /\ state = "compile"
      /\ locals' = Append(locals, local) /\ declared' = Append(declared, local)
      /\ code' = code \o (IF localsCount = 0 THEN <<x>> ELSE <<>>) \o <<y>>
      /\ localsFixup' = (IF localsCount = 0 THEN Len(code) + 1 ELSE localsFixup)
      /\ localsCount' = localsCount + cells /\ ended' = FALSE
      /\ UNCHANGED <<state, begun, left, spoilt>>
  BY DEF Local!LocalParen, Local!Declare, Local!Compiling, LocalInv, Leftovers
<1>2. /\ code \in Seq(LocalCode) /\ Len(code) \in Nat /\ localsFixup \in 0..Len(code)
      /\ localsCount \in Nat /\ locals \in Seq(Entries) /\ declared \in Seq(Entries)
      /\ localsFixup # 0 => code[localsFixup].op = "link"
  BY DEF LocalInv, LocalTypes, Paired
<1>3. /\ x \in LocalCode /\ y \in LocalCode /\ local \in Entries
      /\ x.op = "link" /\ y.op = "use" /\ y.n = localsCount /\ y.cells = cells
      /\ y.meant = {y.n} /\ local.index = localsCount /\ local.cells = cells
  BY <1>2 DEF Local!Op, LocalCode, Entries
<1>4. ASSUME "count" \notin spoilt
      PROVE  /\ PairedIn(code)
             /\ localsCount > 0 <=> localsFixup # 0
             /\ OpenLinks(code) = IF localsFixup = 0 THEN {} ELSE {localsFixup}
  BY <1>1, <1>4 DEF LocalInv, Paired
<1>5. /\ spoilt = {} => RoomIn(code, localsFixup, localsCount)
      /\ "names" \notin spoilt => MeantIn(code)
  BY DEF LocalInv, Room, Meant
<1> HIDE DEF x, y, local
<1>6. Declared'
  <2>1. /\ declared' \in Seq(Entries) /\ Len(declared') = Len(declared) + 1
        /\ \A i \in 1..Len(declared) : declared'[i] = declared[i]
        /\ declared'[Len(declared) + 1] = local
    BY <1>1, <1>2, <1>3, AppendProperties
  <2>2. Len(declared) \in Nat /\ DOMAIN declared = 1..Len(declared)
        /\ DOMAIN declared' = 1..Len(declared) + 1
    BY <1>2, <2>1
  <2>3. ASSUME NEW i \in 1..Len(declared)
        PROVE  /\ declared[i].index \in Nat /\ declared[i].cells \in 1..2
               /\ declared[i].index + declared[i].cells <= localsCount
    <3>1. declared[i] \in Entries
      BY <1>2
    <3> QED BY <2>2, <3>1 DEF Entries, LocalInv, Declared
  <2>4. \A i \in DOMAIN declared' : declared'[i].index + declared'[i].cells <= localsCount'
    <3> SUFFICES ASSUME NEW i \in DOMAIN declared'
                 PROVE  declared'[i].index + declared'[i].cells <= localsCount + cells
      BY <1>1
    <3>1. CASE i \in 1..Len(declared)
      <4>1. /\ declared[i].index \in Nat /\ declared[i].cells \in 1..2
            /\ declared[i].index + declared[i].cells <= localsCount
        BY <2>3, <3>1
      <4>2. declared'[i] = declared[i]
        BY <2>1, <3>1
      <4> QED BY <1>2, <4>1, <4>2
    <3>2. CASE i = Len(declared) + 1
      BY <1>2, <1>3, <2>1, <3>2
    <3> QED BY <2>2, <3>1, <3>2
  <2>5. \A i, j \in DOMAIN declared' :
          i < j => declared'[i].index + declared'[i].cells <= declared'[j].index
    <3> SUFFICES ASSUME NEW i \in DOMAIN declared', NEW j \in DOMAIN declared', i < j
                 PROVE  declared'[i].index + declared'[i].cells <= declared'[j].index
      OBVIOUS
    <3>1. i \in 1..Len(declared) /\ (j \in 1..Len(declared) \/ j = Len(declared) + 1)
      BY <2>2
    <3>2. CASE j \in 1..Len(declared)
      BY <2>1, <2>2, <3>1, <3>2 DEF LocalInv, Declared
    <3>3. CASE j = Len(declared) + 1
      BY <1>3, <2>1, <2>3, <3>1, <3>3
    <3> QED BY <3>1, <3>2, <3>3
  <2>6. begun' /\ "names" \notin spoilt' => locals' = declared'
    BY <1>1 DEF LocalInv, Declared
  <2> QED BY <2>4, <2>5, <2>6 DEF Declared
<1>7. locals' \in Seq(Entries) /\ declared' \in Seq(Entries)
  BY <1>1, <1>2, <1>3
<1>8. Leftovers'
  BY <1>1, <1>2 DEF LocalInv, Leftovers
<1>9. CASE localsCount = 0
  <2> DEFINE d == Append(code, x)
             f == Len(code) + 1
  <2>1. code' = Append(d, y) /\ localsFixup' = f /\ localsCount' = cells
    <3>1. code' = (code \o <<x>>) \o <<y>>
      BY <1>1, <1>9
    <3>2. code' = Append(Append(code, x), y)
      BY <1>2, <1>3, <3>1, Joins
    <3>3. localsFixup' = f /\ localsCount' = cells
      BY <1>1, <1>9
    <3> QED BY <3>2, <3>3
  <2>2. /\ d \in Seq(LocalCode) /\ Len(d) = f /\ d[f] = x
        /\ "count" \notin spoilt => OpenLinks(d) = {f}
    <3>1. d \in Seq(LocalCode) /\ Len(d) = Len(code) + 1 /\ d[Len(code) + 1] = x
      BY <1>2, <1>3, Grown
    <3>2. OpenLinks(Append(code, x)) = IF x.op = "does" THEN {}
            ELSE OpenLinks(code) \cup (IF x.op = "link" THEN {Len(code) + 1} ELSE {})
      BY <1>2, <1>3, Grown
    <3> QED BY <1>3, <1>4, <1>9, <3>1, <3>2
  <2>3. "count" \notin spoilt => PairedIn(d)
    <3>1. "count" \notin spoilt => Follows(code, x)
      BY <1>3, <1>4, <1>9 DEF Follows
    <3> QED BY <1>2, <1>3, <1>4, <3>1, PairedGrown DEF PairedIn
  <2>4. spoilt = {} => RoomIn(d, f, 0)
    <3>1. 0 \in 0..Len(code) /\ f \in 0..Len(code) + 1
      BY <1>2
    <3>2. spoilt = {} => RoomIn(code, 0, 0)
      BY <1>4, <1>5, <1>9
    <3> QED BY <1>2, <1>3, <3>1, <3>2, RoomGrown
  <2>5. "names" \notin spoilt => MeantIn(d)
    BY <1>2, <1>3, <1>5, MeantGrown
  <2> HIDE DEF d, f
  <2>6. /\ code' \in Seq(LocalCode) /\ Len(code') = f + 1 /\ code' # <<>>
        /\ code'[f + 1] = y /\ code'[f] = x
        /\ "count" \notin spoilt => OpenLinks(code') = {f}
    <3>1. /\ code' \in Seq(LocalCode) /\ Len(code') = Len(d) + 1 /\ code' # <<>>
          /\ code'[Len(d) + 1] = y
      BY <1>3, <2>1, <2>2, Grown
    <3>2. \A i \in DOMAIN d : code'[i] = d[i]
      BY <1>3, <2>1, <2>2, Grown
    <3>3. OpenLinks(Append(d, y)) = IF y.op = "does" THEN {}
            ELSE OpenLinks(d) \cup (IF y.op = "link" THEN {Len(d) + 1} ELSE {})
      BY <1>3, <2>2, Grown
    <3>4. f \in DOMAIN d
      BY <1>2, <2>2 DEF f
    <3> QED BY <1>3, <2>1, <2>2, <3>1, <3>2, <3>3, <3>4
  <2>7. "count" \notin spoilt => PairedIn(code')
    <3>1. "count" \notin spoilt => Follows(d, y)
      BY <1>3, <2>2 DEF Follows
    <3> QED BY <1>3, <2>1, <2>2, <2>3, <3>1, PairedGrown DEF PairedIn
  <2>8. spoilt = {} => RoomIn(code', localsFixup', localsCount')
    <3>1. f \in 0..Len(d) /\ f \in 0..Len(d) + 1 /\ cells \in Nat /\ 0 <= cells /\ 0 \in Nat
      BY <1>2, <2>2 DEF f
    <3>2. spoilt = {} => \A k \in OpenLinks(d) :
                           y.n + y.cells <= IF k = f THEN cells ELSE d[k].n
      BY <1>3, <1>9, <2>2
    <3>3. y.op # "link" /\ f = f
      BY <1>3
    <3> QED BY <1>3, <2>1, <2>2, <2>4, <3>1, <3>2, <3>3, RoomGrown
  <2>9. "names" \notin spoilt => MeantIn(code')
    BY <1>3, <2>1, <2>2, <2>5, MeantGrown
  <2>10. LocalTypes'
    <3>1. f \in Nat /\ cells \in Nat
      BY <1>2 DEF f
    <3> QED BY <1>1, <1>7, <2>1, <2>6, <3>1 DEF LocalInv, LocalTypes
  <2>11. Paired'
    <3>1. f \in 1..f + 1 /\ f # 0 /\ f + 1 \in Nat
      BY <1>2 DEF f
    <3>2. localsCount' > 0
      BY <2>1
    <3>3. code'[Len(code')].op # "unlink"
      BY <1>3, <2>6
    <3>4. localsFixup' \in 0..Len(code') /\ localsFixup' # 0
          /\ code'[localsFixup'].op = "link"
      BY <1>3, <2>1, <2>6, <3>1
    <3>5. "count" \notin spoilt' => PairedIn(code') /\ OpenLinks(code') = {localsFixup'}
      BY <1>1, <2>1, <2>6, <2>7
    <3> QED BY <3>2, <3>3, <3>4, <3>5 DEF Paired
  <2>12. Room' /\ Meant'
    BY <1>1, <2>8, <2>9 DEF Room, Meant
  <2> QED BY <1>6, <1>8, <2>10, <2>11, <2>12 DEF LocalInv
<1>10. CASE localsCount # 0
  <2>1. code' = Append(code, y) /\ localsFixup' = localsFixup
    <3>1. code' = (code \o <<>>) \o <<y>>
      BY <1>1, <1>10
    <3> QED BY <1>1, <1>2, <1>3, <1>10, <3>1, Joins
  <2>2. /\ code' \in Seq(LocalCode) /\ Len(code') = Len(code) + 1 /\ code' # <<>>
        /\ code'[Len(code) + 1] = y /\ \A i \in DOMAIN code : code'[i] = code[i]
        /\ OpenLinks(code') = OpenLinks(code)
    <3>1. /\ code' \in Seq(LocalCode) /\ Len(code') = Len(code) + 1 /\ code' # <<>>
          /\ code'[Len(code) + 1] = y
      BY <1>2, <1>3, <2>1, Grown
    <3>2. \A i \in DOMAIN code : code'[i] = code[i]
      BY <1>2, <1>3, <2>1, Grown
    <3>3. OpenLinks(Append(code, y)) = IF y.op = "does" THEN {}
            ELSE OpenLinks(code) \cup (IF y.op = "link" THEN {Len(code) + 1} ELSE {})
      BY <1>2, <1>3, Grown
    <3> QED BY <1>3, <2>1, <3>1, <3>2, <3>3
  <2>3. "count" \notin spoilt => PairedIn(code')
    <3>1. "count" \notin spoilt => Follows(code, y)
      <4>1. localsCount > 0
        BY <1>2, <1>10
      <4> QED BY <1>3, <1>4, <4>1 DEF Follows
    <3> QED BY <1>2, <1>3, <1>4, <2>1, <3>1, PairedGrown DEF PairedIn
  <2>4. spoilt = {} => RoomIn(code', localsFixup', localsCount')
    <3>1. /\ localsFixup \in 0..Len(code) + 1 /\ localsCount + cells \in Nat
          /\ localsCount <= localsCount + cells
      BY <1>2
    <3>2. spoilt = {} => \A k \in OpenLinks(code) :
            y.n + y.cells <= IF k = localsFixup THEN localsCount + cells ELSE code[k].n
      BY <1>2, <1>3, <1>4, <1>10
    <3>3. spoilt = {} => RoomIn(Append(code, y), localsFixup, localsCount + cells)
      BY <1>2, <1>3, <1>5, <3>1, <3>2, RoomGrown
    <3> QED BY <1>1, <2>1, <3>3
  <2>5. "names" \notin spoilt => MeantIn(code')
    BY <1>2, <1>3, <1>5, <2>1, MeantGrown
  <2>6. LocalTypes'
    <3>1. localsCount + cells \in Nat
      BY <1>2
    <3> QED BY <1>1, <1>7, <2>1, <2>2, <3>1 DEF LocalInv, LocalTypes
  <2>7. Paired'
    <3>1. localsFixup # 0 => localsFixup \in DOMAIN code
      BY <1>2
    <3>2. localsCount' > 0 /\ localsCount > 0
      BY <1>1, <1>2, <1>10
    <3>3. code'[Len(code')].op # "unlink"
      BY <1>3, <2>2
    <3>4. localsFixup' \in 0..Len(code')
          /\ (localsFixup' # 0 => code'[localsFixup'].op = "link")
      BY <1>2, <2>1, <2>2, <3>1
    <3>5. "count" \notin spoilt' =>
            /\ PairedIn(code')
            /\ localsFixup' # 0
            /\ OpenLinks(code') = IF localsFixup' = 0 THEN {} ELSE {localsFixup'}
      BY <1>1, <1>4, <2>1, <2>2, <2>3, <3>2
    <3> QED BY <3>2, <3>3, <3>4, <3>5 DEF Paired
  <2>8. Room' /\ Meant'
    BY <1>1, <2>4, <2>5 DEF Room, Meant
  <2> QED BY <1>6, <1>8, <2>6, <2>7, <2>8 DEF LocalInv
<1> QED BY <1>9, <1>10

(* The name of a local: of those declared with it, the last.               *)
LEMMA UseKeeps ==
  ASSUME LocalInv, NEW nm \in LocalNames, Local!Use(nm) PROVE LocalInv'
<1> DEFINE mine == Local!Named(declared, nm)
           all == Local!Named(locals, nm)
           x == [op |-> "use", n |-> Local!Found(nm).index, cells |-> Local!Found(nm).cells,
                 meant |-> {declared[i].index : i \in {Local!Youngest(mine) : m \in mine}}]
<1>1. /\ begun /\ state = "compile" /\ localsCount > 0 /\ all # {}
      /\ code' = Append(code, x)
      /\ UNCHANGED <<state, begun, locals, localsCount, localsFixup, declared, ended,
                     left, spoilt>>
  BY DEF Local!Use, Local!Compiling, LocalInv, Leftovers
<1>2. /\ code \in Seq(LocalCode) /\ Len(code) \in Nat /\ localsFixup \in 0..Len(code)
      /\ localsCount \in Nat /\ locals \in Seq(Entries) /\ declared \in Seq(Entries)
      /\ localsFixup # 0 => code[localsFixup].op = "link"
  BY DEF LocalInv, LocalTypes, Paired
<1>3. Local!Found(nm) \in Entries /\ Local!Youngest(all) \in DOMAIN locals
  <2>1. all \in SUBSET (1..Len(locals)) /\ Len(locals) \in Nat
    BY <1>2 DEF Local!Named
  <2>2. Local!Youngest(all) \in all
    BY <1>1, <2>1, YoungestIs
  <2> QED BY <1>2, <2>1, <2>2 DEF Local!Found
<1>4. \A i \in mine : Local!Youngest(mine) \in DOMAIN declared
  <2>1. mine \in SUBSET (1..Len(declared)) /\ Len(declared) \in Nat
    BY <1>2 DEF Local!Named
  <2>2. mine # {} => Local!Youngest(mine) \in mine
    BY <2>1, YoungestIs
  <2> QED BY <1>2, <2>1, <2>2
<1>5. x \in LocalCode
  <2>1. \A i \in {Local!Youngest(mine) : m \in mine} : declared[i].index \in Nat
    <3>1. \A i \in DOMAIN declared : declared[i] \in Entries
      BY <1>2
    <3> QED BY <1>4, <3>1 DEF Entries
  <2>2. {declared[i].index : i \in {Local!Youngest(mine) : m \in mine}} \in SUBSET Nat
    BY <2>1
  <2>3. Local!Found(nm).index \in Nat /\ Local!Found(nm).cells \in 0..2
    BY <1>3 DEF Entries
  <2> HIDE DEF mine
  <2> QED BY <2>2, <2>3 DEF LocalCode
<1>6. x.op = "use" /\ x.n = Local!Found(nm).index /\ x.cells = Local!Found(nm).cells
  OBVIOUS
<1>7. ASSUME "names" \notin spoilt
      PROVE  /\ x.meant = {x.n}
             /\ x.n + x.cells <= localsCount
  <2>1. locals = declared /\ all = mine
    BY <1>1, <1>7 DEF LocalInv, Declared
  <2>2. {Local!Youngest(mine) : m \in mine} = {Local!Youngest(mine)}
    BY <1>1, <2>1
  <2>3. x.meant = {declared[Local!Youngest(mine)].index}
    BY <2>2
  <2>4. Local!Found(nm) = declared[Local!Youngest(mine)]
    BY <2>1 DEF Local!Found
  <2>5. declared[Local!Youngest(mine)].index + declared[Local!Youngest(mine)].cells <= localsCount
    BY <1>3, <2>1 DEF LocalInv, Declared
  <2> QED BY <1>6, <2>3, <2>4, <2>5
<1>8. ASSUME "count" \notin spoilt
      PROVE  /\ PairedIn(code)
             /\ localsFixup # 0
             /\ OpenLinks(code) = {localsFixup}
  BY <1>1, <1>8 DEF LocalInv, Paired
<1>9. /\ spoilt = {} => RoomIn(code, localsFixup, localsCount)
      /\ "names" \notin spoilt => MeantIn(code)
  BY DEF LocalInv, Room, Meant
<1> HIDE DEF x, mine, all
<1>10. /\ code' \in Seq(LocalCode) /\ Len(code') = Len(code) + 1 /\ code' # <<>>
       /\ code'[Len(code) + 1] = x /\ \A i \in DOMAIN code : code'[i] = code[i]
       /\ OpenLinks(code') = OpenLinks(code)
  <2>1. /\ code' \in Seq(LocalCode) /\ Len(code') = Len(code) + 1 /\ code' # <<>>
        /\ code'[Len(code) + 1] = x
    BY <1>1, <1>2, <1>5, Grown
  <2>2. \A i \in DOMAIN code : code'[i] = code[i]
    BY <1>1, <1>2, <1>5, Grown
  <2>3. OpenLinks(Append(code, x)) = IF x.op = "does" THEN {}
          ELSE OpenLinks(code) \cup (IF x.op = "link" THEN {Len(code) + 1} ELSE {})
    BY <1>2, <1>5, Grown
  <2> QED BY <1>1, <1>6, <2>1, <2>2, <2>3
<1>11. "count" \notin spoilt => PairedIn(code')
  <2>1. "count" \notin spoilt => Follows(code, x)
    BY <1>6, <1>8 DEF Follows
  <2> QED BY <1>1, <1>2, <1>5, <1>8, <2>1, PairedGrown DEF PairedIn
<1>12. spoilt = {} => RoomIn(code', localsFixup, localsCount)
  <2>1. localsFixup \in 0..Len(code) + 1 /\ localsCount <= localsCount
    BY <1>2
  <2>2. spoilt = {} => \A k \in OpenLinks(code) :
          x.n + x.cells <= IF k = localsFixup THEN localsCount ELSE code[k].n
    BY <1>7, <1>8
  <2>3. spoilt = {} => RoomIn(Append(code, x), localsFixup, localsCount)
    BY <1>2, <1>5, <1>6, <1>9, <2>1, <2>2, RoomGrown
  <2> QED BY <1>1, <2>3
<1>13. "names" \notin spoilt => MeantIn(code')
  BY <1>1, <1>2, <1>5, <1>7, <1>9, MeantGrown
<1>14. localsFixup # 0 => localsFixup \in DOMAIN code
  BY <1>2
<1>15. LocalTypes'
  BY <1>1, <1>10 DEF LocalInv, LocalTypes
<1>16. Leftovers' /\ Declared'
  BY <1>1 DEF LocalInv, Leftovers, Declared
<1>17. Paired'
  <2>1. code'[Len(code')].op # "unlink"
    BY <1>6, <1>10
  <2>2. localsFixup \in 0..Len(code') /\ (localsFixup # 0 => code'[localsFixup].op = "link")
    BY <1>2, <1>10, <1>14
  <2> QED BY <1>1, <1>8, <1>10, <1>11, <2>1, <2>2 DEF Paired
<1>18. Room' /\ Meant'
  BY <1>1, <1>9, <1>10, <1>12, <1>13, <1>14 DEF LocalInv, Room, Meant
<1> QED BY <1>15, <1>16, <1>17, <1>18 DEF LocalInv

LEMMA LocalsInductive == LocalInv /\ [Local!Next]_localVars => LocalInv'
<1> SUFFICES ASSUME LocalInv, [Local!Next]_localVars PROVE LocalInv'
  OBVIOUS
<1>1. ASSUME NEW nm \in LocalNames,
             \/ \E cells \in 1..2 : Local!LocalParen(nm, cells)
             \/ Local!Use(nm)
      PROVE  LocalInv'
  BY <1>1, DeclareKeeps, UseKeeps
<1>2. CASE Local!Semicolon
  BY <1>2, FrameEnds DEF Local!Semicolon, Local!Compiling, LocalInv, Leftovers
<1>3. CASE Local!Does
  BY <1>3, FrameEnds DEF Local!Does, Local!Compiling, LocalInv, Leftovers
<1>4. CASE UNCHANGED localVars
  BY <1>4 DEF localVars, LocalInv, LocalTypes, Leftovers, Declared, Paired, Room, Meant
<1> QED
  BY <1>1, <1>2, <1>3, <1>4, ColonKeeps, EndLocalsKeeps, ExitKeeps, BracketKeeps,
     ErrorKeeps
     DEF Local!Next

LEMMA LocalsHold ==
  ASSUME LocalInv PROVE Local!FramesPaired /\ Local!FramesHoldLocals /\ Local!LocalsMeant
<1>1. \A i : Local!Links(i) = LinksIn(code, i)
  BY DEF Local!Links, LinksIn
<1>2. Local!FramesPaired
  BY <1>1 DEF Local!FramesPaired, LocalInv, Paired, PairedIn, PairedAt, Local!Ends,
     Local!Accesses
<1>3. Local!FramesHoldLocals
  <2> SUFFICES ASSUME spoilt = {}, ended, NEW i \in DOMAIN code, code[i].op = "use",
                      NEW k \in LinksIn(code, i)
               PROVE  code[i].n + code[i].cells <= code[k].n
    BY <1>1 DEF Local!FramesHoldLocals, Local!Accesses
  <2>1. code[i].n + code[i].cells <= IF k = localsFixup THEN localsCount ELSE code[k].n
    BY DEF LocalInv, Room, RoomIn
  <2>2. k # 0
    BY DEF LinksIn
  <2>3. k = localsFixup => code[k].n = localsCount
    BY <2>2 DEF LocalInv, Room
  <2> QED BY <2>1, <2>3
<1>4. Local!LocalsMeant
  BY DEF Local!LocalsMeant, Local!Accesses, LocalInv, Meant, MeantIn, Declared
<1> QED BY <1>2, <1>3, <1>4

--------------------------------------------------------------------------------
(***************************************************************************)
(* Loops. The arithmetic of the biased limit and index on the circle of    *)
(* the cells.                                                              *)
(***************************************************************************)

(* Remainders of what is at most one turn out of the circle.               *)
LEMMA Turns ==
  ASSUME NEW m \in Nat \ {0}, NEW x \in Int
  PROVE  /\ x \in 0..m - 1 => x % m = x
         /\ x \in m..2 * m - 1 => x % m = x - m
         /\ x \in -m..-1 => x % m = x + m
<1>1. ASSUME x \in 0..m - 1 PROVE x % m = x
  BY <1>1, SMT
<1>2. ASSUME x \in m..2 * m - 1 PROVE x % m = x - m
  BY <1>2, SMT
<1>3. ASSUME x \in -m..-1 PROVE x % m = x + m
  BY <1>3, SMT
<1> QED BY <1>1, <1>2, <1>3

(* Where a number of at most one turn comes to stand on the circle.        *)
LEMMA WithinCells ==
  ASSUME NEW m \in Nat \ {0}, NEW x \in -m..2 * m - 1
  PROVE  x % m = IF x < 0 THEN x + m ELSE IF x < m THEN x ELSE x - m
<1>1. x \in Int /\ (x \in 0..m - 1 \/ x \in m..2 * m - 1 \/ x \in -m..-1)
  OBVIOUS
<1>2. /\ x \in 0..m - 1 => x % m = x
      /\ x \in m..2 * m - 1 => x % m = x - m
      /\ x \in -m..-1 => x % m = x + m
  BY <1>1, Turns
<1> QED BY <1>1, <1>2

LEMMA Circle ==
  ASSUME NEW b \in Loop!Cells, NEW x \in Loop!Cells, NEW s \in Loop!Steps
  PROVE  /\ (x - b) % Loop!Modulus \in 0..Loop!Modulus - 1
         /\ (x + s) % Loop!Modulus \in 0..Loop!Modulus - 1
         /\ (((x - b) % Loop!Modulus) + s) % Loop!Modulus = (((x + s) % Loop!Modulus) - b) % Loop!Modulus
         /\ (((x - b) % Loop!Modulus) + b) % Loop!Modulus = x
<1> DEFINE On(y) == IF y < 0 THEN y + Loop!Modulus ELSE IF y < Loop!Modulus THEN y ELSE y - Loop!Modulus
<1> USE LoopAssumption DEF Loop!Cells, Loop!Steps
<1>1. Loop!Modulus \in Nat \ {0}
  OBVIOUS
<1>2. \A y \in -Loop!Modulus..2 * Loop!Modulus - 1 : y % Loop!Modulus = On(y)
  BY <1>1, WithinCells
<1>3. (x - b) % Loop!Modulus = On(x - b) /\ (x + s) % Loop!Modulus = On(x + s)
  <2>1. x - b \in -Loop!Modulus..2 * Loop!Modulus - 1 /\ x + s \in -Loop!Modulus..2 * Loop!Modulus - 1
    OBVIOUS
  <2> QED BY <1>2, <2>1
<1>4. On(x - b) \in 0..Loop!Modulus - 1 /\ On(x + s) \in 0..Loop!Modulus - 1
  OBVIOUS
<1>5. /\ (On(x - b) + s) % Loop!Modulus = On(On(x - b) + s)
      /\ (On(x + s) - b) % Loop!Modulus = On(On(x + s) - b)
      /\ (On(x - b) + b) % Loop!Modulus = On(On(x - b) + b)
  <2>1. /\ On(x - b) + s \in -Loop!Modulus..2 * Loop!Modulus - 1 /\ On(x + s) - b \in -Loop!Modulus..2 * Loop!Modulus - 1
        /\ On(x - b) + b \in -Loop!Modulus..2 * Loop!Modulus - 1
    BY <1>4
  <2> HIDE DEF On
  <2> QED BY <1>2, <2>1
<1>6. On(On(x - b) + s) = On(On(x + s) - b) /\ On(On(x - b) + b) = x
  OBVIOUS
<1> HIDE DEF On
<1> QED BY <1>3, <1>4, <1>5, <1>6

(* How far x is from the point opposite to the limit y.                    *)
Off(x, y) == (x - Loop!Biased(y)) % Loop!Modulus

(* The sides of the circle.                                                *)
LEMMA Crossing ==
  ASSUME NEW y \in Loop!Cells, NEW x \in Loop!Cells, NEW k \in 0..Loop!Half - 1
  PROVE  LET a == Loop!Biased(y)
             d == Off(x, y)
         IN
         /\ a \in Loop!Cells /\ d \in Loop!Cells
         /\ k < Loop!Half - 1 => ((x + k) % Loop!Modulus = (y - 1) % Loop!Modulus <=> d + k = Loop!Half - 1)
         /\ k < Loop!Half - 1 => ((x + k) % Loop!Modulus = (a - 1) % Loop!Modulus <=> d + k = Loop!Modulus - 1)
         /\ (x - k) % Loop!Modulus = y <=> d - k = Loop!Half
         /\ (x - k) % Loop!Modulus = a <=> d - k = 0
<1> DEFINE a == Loop!Biased(y)
           d == Off(x, y)
           On(z) == IF z < 0 THEN z + Loop!Modulus ELSE IF z < Loop!Modulus THEN z ELSE z - Loop!Modulus
<1> USE LoopAssumption DEF Loop!Cells
<1>1. \A z \in -Loop!Modulus..2 * Loop!Modulus - 1 : z % Loop!Modulus = On(z)
  <2>1. Loop!Modulus \in Nat \ {0}
    OBVIOUS
  <2> QED BY <2>1, WithinCells
<1>2. a = On(y + Loop!Half) /\ a \in 0..Loop!Modulus - 1
  <2>1. y + Loop!Half \in -Loop!Modulus..2 * Loop!Modulus - 1 /\ On(y + Loop!Half) \in 0..Loop!Modulus - 1
    OBVIOUS
  <2> HIDE DEF On
  <2> QED BY <1>1, <2>1 DEF Loop!Biased
<1>3. d = On(x - a) /\ d \in 0..Loop!Modulus - 1
  <2>1. x - a \in -Loop!Modulus..2 * Loop!Modulus - 1 /\ On(x - a) \in 0..Loop!Modulus - 1
    BY <1>2
  <2> HIDE DEF On
  <2> QED BY <1>1, <2>1 DEF Off
<1> HIDE DEF a, d
<1>4. /\ (x + k) % Loop!Modulus = On(x + k) /\ (x - k) % Loop!Modulus = On(x - k)
      /\ (y - 1) % Loop!Modulus = On(y - 1) /\ (a - 1) % Loop!Modulus = On(a - 1)
  <2>1. /\ x + k \in -Loop!Modulus..2 * Loop!Modulus - 1 /\ x - k \in -Loop!Modulus..2 * Loop!Modulus - 1
        /\ y - 1 \in -Loop!Modulus..2 * Loop!Modulus - 1 /\ a - 1 \in -Loop!Modulus..2 * Loop!Modulus - 1
    BY <1>2
  <2> HIDE DEF On
  <2> QED BY <1>1, <2>1
<1>5. k < Loop!Half - 1 => (On(x + k) = On(y - 1) <=> d + k = Loop!Half - 1)
  BY <1>2, <1>3
<1>6. k < Loop!Half - 1 => (On(x + k) = On(a - 1) <=> d + k = Loop!Modulus - 1)
  BY <1>2, <1>3
<1>7. On(x - k) = y <=> d - k = Loop!Half
  BY <1>2, <1>3
<1>8. On(x - k) = a <=> d - k = 0
  BY <1>2, <1>3
<1> HIDE DEF On
<1> QED BY <1>2, <1>3, <1>4, <1>5, <1>6, <1>7, <1>8 DEF a, d

(* A loop, and the cells of it that the return stack keeps.                *)
Counted == [limit : Loop!Cells, index : Loop!Cells]
OnReturns(r, c, i) ==
  /\ r[3 * i - 2] = i
  /\ r[3 * i - 1] = Loop!Biased(c[i].limit)
  /\ r[3 * i] = (c[i].index - Loop!Biased(c[i].limit)) % Loop!Modulus

LoopInv ==
  /\ counts \in Seq(Counted) /\ returns \in Seq(Int)
  /\ Len(returns) = 3 * Len(counts)
  /\ \A i \in 1..Len(counts) : OnReturns(returns, counts, i)

LEMMA LoopAt ==
  ASSUME LoopInv, NEW i \in 1..Len(counts)
  PROVE  LET b == Loop!Biased(counts[i].limit) IN
         /\ counts[i] \in Counted /\ b \in Loop!Cells
         /\ returns[3 * i - 2] = i /\ returns[3 * i - 1] = b
         /\ returns[3 * i] \in Loop!Cells
         /\ returns[3 * i] = (counts[i].index - b) % Loop!Modulus
         /\ (returns[3 * i] + returns[3 * i - 1]) % Loop!Modulus = counts[i].index
<1> DEFINE b == Loop!Biased(counts[i].limit)
           x == counts[i].index
<1>1. counts[i] \in Counted
  BY DEF LoopInv
<1>2. x \in Loop!Cells /\ counts[i].limit \in Loop!Cells
  BY <1>1 DEF Counted
<1>3. b \in Loop!Cells
  BY <1>2, Crossing, LoopAssumption, 0 \in 0..Loop!Half - 1
<1>4. OnReturns(returns, counts, i)
  BY DEF LoopInv
<1>5. 0 \in Loop!Steps
  BY LoopAssumption DEF Loop!Steps
<1> HIDE DEF b, x
<1>6. (x - b) % Loop!Modulus \in Loop!Cells /\ (((x - b) % Loop!Modulus) + b) % Loop!Modulus = x
  BY <1>2, <1>3, <1>5, Circle DEF Loop!Cells
<1> QED BY <1>1, <1>3, <1>4, <1>6 DEF OnReturns, b, x

LEMMA ExactLoops == ASSUME LoopInv PROVE Loop!LoopsExact
<1> SUFFICES ASSUME counts # <<>>, NEW s \in Loop!Steps,
                    ~Loop!Crosses(s, (Loop!Inner.limit + Loop!Half) % Loop!Modulus)
             PROVE  Loop!Falls(s) <=> Loop!Crosses(s, Loop!Inner.limit)
  BY DEF Loop!LoopsExact
<1> DEFINE n == Len(counts)
           x == Loop!Inner.index
           y == Loop!Inner.limit
           a == Loop!Biased(y)
           d == Off(x, y)
<1>1. n \in Nat \ {0} /\ n \in 1..Len(counts) /\ Len(returns) = 3 * n /\ Loop!Inner = counts[n]
  BY DEF LoopInv, Loop!Inner
<1>2. x \in Loop!Cells /\ y \in Loop!Cells
  BY <1>1, LoopAt DEF Counted
<1>3. Loop!R(0) = d /\ Loop!R(1) = a
  <2>1. returns[3 * n - 1] = a /\ returns[3 * n] = d
    BY <1>1, LoopAt DEF Off
  <2>2. Len(returns) - 0 = 3 * n /\ Len(returns) - 1 = 3 * n - 1
    BY <1>1
  <2> QED BY <2>1, <2>2 DEF Loop!R
<1>4. Loop!Half \in Nat \ {0} /\ Loop!Modulus = 2 * Loop!Half /\ s \in -Loop!Half..Loop!Half - 1
  BY LoopAssumption DEF Loop!Steps
<1> HIDE DEF x, y, a, d, n
<1>5. \A k \in 0..Loop!Half - 1 :
        /\ k < Loop!Half - 1 => ((x + k) % Loop!Modulus = (y - 1) % Loop!Modulus <=> d + k = Loop!Half - 1)
        /\ k < Loop!Half - 1 => ((x + k) % Loop!Modulus = (a - 1) % Loop!Modulus <=> d + k = Loop!Modulus - 1)
        /\ (x - k) % Loop!Modulus = y <=> d - k = Loop!Half
        /\ (x - k) % Loop!Modulus = a <=> d - k = 0
  BY <1>2, Crossing DEF a, d
<1>6. a \in 0..Loop!Modulus - 1 /\ d \in 0..Loop!Modulus - 1
  BY <1>2, <1>4, 0 \in 0..Loop!Half - 1, Crossing DEF a, d, Loop!Cells
<1>7. Loop!Crosses(s, y) <=> \/ \E k \in 0..s - 1 : d + k = Loop!Half - 1
                        \/ \E k \in 0..-s - 1 : d - k = Loop!Half
  BY <1>4, <1>5 DEF Loop!Crosses, x
<1>8. Loop!Crosses(s, a) <=> \/ \E k \in 0..s - 1 : d + k = Loop!Modulus - 1
                        \/ \E k \in 0..-s - 1 : d - k = 0
  BY <1>4, <1>5 DEF Loop!Crosses, x
<1>9. ~Loop!Crosses(s, a)
  BY DEF a, y, Loop!Biased
<1>10. d + s < Loop!Modulus
  <2> SUFFICES ASSUME d + s >= Loop!Modulus PROVE FALSE
    BY <1>4, <1>6
  <2>1. Loop!Modulus - 1 - d \in 0..s - 1 /\ d + (Loop!Modulus - 1 - d) = Loop!Modulus - 1
    BY <1>4, <1>6
  <2> QED BY <1>8, <1>9, <2>1
<1>11. d + s >= 0
  <2> SUFFICES ASSUME d + s < 0 PROVE FALSE
    BY <1>4, <1>6
  <2>1. d \in 0..-s - 1 /\ d - d = 0
    BY <1>4, <1>6
  <2> QED BY <1>8, <1>9, <2>1
<1>12. Loop!Falls(s) <=> ((d >= Loop!Half) # (d + s >= Loop!Half))
  <2>1. (d + s) % Loop!Modulus = d + s
    BY <1>4, <1>6, <1>10, <1>11, Turns
  <2> QED BY <1>3, <2>1 DEF Loop!Falls, Loop!Negative
<1>13. (\E k \in 0..s - 1 : d + k = Loop!Half - 1) <=> d < Loop!Half /\ d + s >= Loop!Half
  <2>1. ASSUME d < Loop!Half, d + s >= Loop!Half PROVE \E k \in 0..s - 1 : d + k = Loop!Half - 1
    <3>1. Loop!Half - 1 - d \in 0..s - 1 /\ d + (Loop!Half - 1 - d) = Loop!Half - 1
      BY <1>4, <1>6, <2>1
    <3> QED BY <3>1
  <2>2. ASSUME NEW k \in 0..s - 1, d + k = Loop!Half - 1 PROVE d < Loop!Half /\ d + s >= Loop!Half
    BY <1>4, <1>6, <2>2
  <2> QED BY <2>1, <2>2
<1>14. (\E k \in 0..-s - 1 : d - k = Loop!Half) <=> d >= Loop!Half /\ d + s < Loop!Half
  <2>1. ASSUME d >= Loop!Half, d + s < Loop!Half PROVE \E k \in 0..-s - 1 : d - k = Loop!Half
    <3>1. d - Loop!Half \in 0..-s - 1 /\ d - (d - Loop!Half) = Loop!Half
      BY <1>4, <1>6, <2>1
    <3> QED BY <3>1
  <2>2. ASSUME NEW k \in 0..-s - 1, d - k = Loop!Half PROVE d >= Loop!Half /\ d + s < Loop!Half
    BY <1>4, <1>6, <2>2
  <2> QED BY <2>1, <2>2
<1>15. Loop!Falls(s) <=> Loop!Crosses(s, y)
  <2>1. (d < Loop!Half) <=> ~(d >= Loop!Half)
    BY <1>4, <1>6
  <2>2. (d + s < Loop!Half) <=> ~(d + s >= Loop!Half)
    BY <1>4, <1>6
  <2> QED BY <1>7, <1>12, <1>13, <1>14, <2>1, <2>2
<1> QED BY <1>15 DEF y

LEMMA BiasedOn ==
  ASSUME NEW y \in Loop!Cells
  PROVE  Loop!Biased(y) \in Loop!Cells /\ \A x \in Loop!Cells : (x - Loop!Biased(y)) % Loop!Modulus \in Loop!Cells
<1>1. 0 \in 0..Loop!Half - 1 /\ 0 \in Loop!Steps
  BY LoopAssumption DEF Loop!Steps
<1>2. Loop!Biased(y) \in Loop!Cells
  BY <1>1, Crossing
<1> QED BY <1>1, <1>2, Circle DEF Loop!Cells

LEMMA ExactIndexes == ASSUME LoopInv PROVE Loop!IndexesExact
<1> DEFINE n == Len(counts)
<1>1. n \in Nat /\ Len(returns) = 3 * n
  BY DEF LoopInv
<1>2. ASSUME NEW j \in 0..2, n > j
      PROVE  /\ returns[3 * (n - j) - 2] = n - j
             /\ (returns[3 * (n - j)] + returns[3 * (n - j) - 1]) % Loop!Modulus
                  = counts[n - j].index
  <2>1. n - j \in 1..Len(counts)
    BY <1>1, <1>2
  <2> QED BY <2>1, LoopAt
<1>3. n >= 1 => /\ Loop!R(2) = n /\ (Loop!R(0) + Loop!R(1)) % Loop!Modulus = counts[n - 0].index
  <2> SUFFICES ASSUME n >= 1 PROVE Loop!R(2) = n /\ (Loop!R(0) + Loop!R(1)) % Loop!Modulus = counts[n - 0].index
    OBVIOUS
  <2>1. /\ returns[3 * (n - 0) - 2] = n - 0
        /\ (returns[3 * (n - 0)] + returns[3 * (n - 0) - 1]) % Loop!Modulus = counts[n - 0].index
    BY <1>1, <1>2
  <2>2. /\ 3 * (n - 0) - 2 = Len(returns) - 2 /\ 3 * (n - 0) = Len(returns) - 0
        /\ 3 * (n - 0) - 1 = Len(returns) - 1 /\ n - 0 = n
    BY <1>1
  <2> QED BY <2>1, <2>2 DEF Loop!R
<1>4. n >= 2 => (Loop!R(3) + Loop!R(4)) % Loop!Modulus = counts[n - 1].index
  <2> SUFFICES ASSUME n >= 2 PROVE (Loop!R(3) + Loop!R(4)) % Loop!Modulus = counts[n - 1].index
    OBVIOUS
  <2>1. (returns[3 * (n - 1)] + returns[3 * (n - 1) - 1]) % Loop!Modulus = counts[n - 1].index
    BY <1>1, <1>2
  <2>2. 3 * (n - 1) = Len(returns) - 3 /\ 3 * (n - 1) - 1 = Len(returns) - 4
    BY <1>1
  <2> QED BY <2>1, <2>2 DEF Loop!R
<1>5. n >= 3 => (Loop!R(6) + Loop!R(7)) % Loop!Modulus = counts[n - 2].index
  <2> SUFFICES ASSUME n >= 3 PROVE (Loop!R(6) + Loop!R(7)) % Loop!Modulus = counts[n - 2].index
    OBVIOUS
  <2>1. (returns[3 * (n - 2)] + returns[3 * (n - 2) - 1]) % Loop!Modulus = counts[n - 2].index
    BY <1>1, <1>2
  <2>2. 3 * (n - 2) = Len(returns) - 6 /\ 3 * (n - 2) - 1 = Len(returns) - 7
    BY <1>1
  <2> QED BY <2>1, <2>2 DEF Loop!R
<1> QED BY <1>1, <1>3, <1>4, <1>5 DEF Loop!IndexesExact, Loop!I, Loop!J, Loop!K

(* A loop begins: three cells, a limit and an index.                       *)
LEMMA DoKeeps ==
  ASSUME LoopInv, NEW limit \in Loop!Cells, NEW index \in Loop!Cells, Loop!Do(limit, index)
  PROVE  LoopInv'
<1> DEFINE n == Len(counts)
           c == [limit |-> limit, index |-> index]
           r == <<Loop!Leave, Loop!Biased(limit), (index - Loop!Biased(limit)) % Loop!Modulus>>
<1>1. n \in Nat /\ Len(returns) = 3 * n /\ counts \in Seq(Counted) /\ returns \in Seq(Int)
  BY DEF LoopInv
<1>2. c \in Counted
  BY DEF Counted
<1>3. Loop!Leave \in Int /\ Loop!Biased(limit) \in Loop!Cells /\ Loop!Leave = n + 1
  BY <1>1, BiasedOn DEF Loop!Leave
<1>4. (index - Loop!Biased(limit)) % Loop!Modulus \in Loop!Cells
  BY BiasedOn
<1>5. r \in Seq(Int) /\ Len(r) = 3 /\ r[1] = n + 1 /\ r[2] = Loop!Biased(limit)
      /\ r[3] = (index - Loop!Biased(limit)) % Loop!Modulus
  BY <1>3, <1>4 DEF Loop!Cells
<1>6. counts' = Append(counts, c) /\ returns' = returns \o r
  BY DEF Loop!Do
<1> HIDE DEF c, r, n
<1>7. /\ counts' \in Seq(Counted) /\ Len(counts') = n + 1 /\ counts'[n + 1] = c
      /\ \A i \in 1..n : counts'[i] = counts[i]
  BY <1>1, <1>2, <1>6 DEF n
<1>8. /\ returns' \in Seq(Int) /\ Len(returns') = 3 * n + 3
      /\ \A i \in 1..3 * n : returns'[i] = returns[i]
      /\ returns'[3 * n + 1] = r[1] /\ returns'[3 * n + 2] = r[2]
      /\ returns'[3 * n + 3] = r[3]
  <2>1. /\ returns' \in Seq(Int) /\ Len(returns') = Len(returns) + 3
        /\ \A i \in 1..Len(returns) : returns'[i] = returns[i]
        /\ returns'[Len(returns) + 1] = r[1] /\ returns'[Len(returns) + 2] = r[2]
        /\ returns'[Len(returns) + 3] = r[3]
    BY <1>1, <1>5, <1>6, Joining
  <2>2. Len(returns) = 3 * n
    BY <1>1
  <2> QED BY <2>1, <2>2
<1>9. ASSUME NEW i \in 1..n PROVE OnReturns(returns', counts', i)
  <2>1. OnReturns(returns, counts, i) /\ counts'[i] = counts[i]
    BY <1>7 DEF LoopInv, n
  <2>2. 3 * i - 2 \in 1..3 * n /\ 3 * i - 1 \in 1..3 * n /\ 3 * i \in 1..3 * n
    BY <1>1
  <2> QED BY <1>8, <2>1, <2>2 DEF OnReturns
<1>10. OnReturns(returns', counts', n + 1)
  <2>1. 3 * (n + 1) - 2 = 3 * n + 1 /\ 3 * (n + 1) - 1 = 3 * n + 2 /\ 3 * (n + 1) = 3 * n + 3
    BY <1>1
  <2>2. c.limit = limit /\ c.index = index
    BY DEF c
  <2> QED BY <1>5, <1>7, <1>8, <2>1, <2>2 DEF OnReturns
<1>11. \A i \in 1..Len(counts') : OnReturns(returns', counts', i)
  <2>1. \A i \in 1..n + 1 : i \in 1..n \/ i = n + 1
    BY <1>1
  <2> QED BY <1>7, <1>9, <1>10, <2>1
<1> QED BY <1>1, <1>7, <1>8, <1>11 DEF LoopInv

(* A loop is left: its three cells go.                                     *)
LEMMA LoopLeft ==
  ASSUME LoopInv, counts # <<>>, returns' = Loop!Dropped(3),
         counts' = SubSeq(counts, 1, Len(counts) - 1)
  PROVE  LoopInv'
<1> DEFINE n == Len(counts)
<1>1. n \in Nat \ {0} /\ Len(returns) = 3 * n /\ counts \in Seq(Counted) /\ returns \in Seq(Int)
  BY DEF LoopInv
<1>2. returns' = SubSeq(returns, 1, 3 * n - 3)
  BY <1>1 DEF Loop!Dropped
<1>3. /\ counts' \in Seq(Counted) /\ Len(counts') = n - 1
      /\ \A i \in 1..n - 1 : counts'[i] = counts[i]
  <2>1. n - 1 \in 0..Len(counts)
    BY <1>1
  <2> QED BY <1>1, <2>1, Cutting
<1> HIDE DEF n
<1>4. /\ returns' \in Seq(Int) /\ Len(returns') = 3 * n - 3
      /\ \A i \in 1..3 * n - 3 : returns'[i] = returns[i]
  <2>1. 3 * n - 3 \in 0..Len(returns)
    BY <1>1
  <2> QED BY <1>1, <1>2, <2>1, Cutting
<1>5. ASSUME NEW i \in 1..n - 1 PROVE OnReturns(returns', counts', i)
  <2>1. OnReturns(returns, counts, i) /\ counts'[i] = counts[i]
    BY <1>1, <1>3 DEF LoopInv, n
  <2>2. /\ 3 * i - 2 \in 1..3 * n - 3 /\ 3 * i - 1 \in 1..3 * n - 3
        /\ 3 * i \in 1..3 * n - 3
    BY <1>1
  <2> QED BY <1>4, <2>1, <2>2 DEF OnReturns
<1>6. Len(returns') = 3 * Len(counts')
  <2>1. 3 * (n - 1) = 3 * n - 3
    BY <1>1
  <2> QED BY <1>3, <1>4, <2>1
<1> QED BY <1>3, <1>4, <1>5, <1>6 DEF LoopInv

(* LOOP and +LOOP, when they go back.                                      *)
LEMMA GoesOn ==
  ASSUME LoopInv, counts # <<>>, NEW s \in Loop!Steps,
         returns' = Append(Loop!Dropped(1), (Loop!R(0) + s) % Loop!Modulus),
         counts' = [counts EXCEPT ![Len(counts)].index = (@ + s) % Loop!Modulus]
  PROVE  LoopInv'
<1> DEFINE n == Len(counts)
           b == Loop!Biased(counts[n].limit)
           x == counts[n].index
           c == [counts[n] EXCEPT !.index = (x + s) % Loop!Modulus]
           r == (returns[3 * n] + s) % Loop!Modulus
<1>1. n \in Nat \ {0} /\ Len(returns) = 3 * n /\ counts \in Seq(Counted) /\ returns \in Seq(Int)
  BY DEF LoopInv
<1>2. /\ counts[n] \in Counted /\ b \in Loop!Cells /\ returns[3 * n - 2] = n
      /\ returns[3 * n - 1] = b /\ returns[3 * n] = (x - b) % Loop!Modulus
      /\ returns[3 * n] \in Loop!Cells
  <2>1. n \in 1..Len(counts)
    BY <1>1
  <2> QED BY <2>1, LoopAt
<1>3. x \in Loop!Cells
  BY <1>2 DEF Counted
<1>4. r = (((x + s) % Loop!Modulus) - b) % Loop!Modulus /\ (x + s) % Loop!Modulus \in Loop!Cells
  <2> HIDE DEF b, x
  <2>1. /\ (x + s) % Loop!Modulus \in Loop!Cells
        /\ (((x - b) % Loop!Modulus) + s) % Loop!Modulus = (((x + s) % Loop!Modulus) - b) % Loop!Modulus
    BY <1>2, <1>3, Circle DEF Loop!Cells
  <2> QED BY <1>2, <2>1
<1>5. r \in Int
  BY <1>2, LoopAssumption DEF Loop!Cells, Loop!Steps
<1>6. c \in Counted /\ c.limit = counts[n].limit /\ c.index = (x + s) % Loop!Modulus
  BY <1>2, <1>4 DEF Counted
<1>7. returns' = Append(SubSeq(returns, 1, 3 * n - 1), r)
  BY <1>1 DEF Loop!Dropped, Loop!R
<1>8. counts' = [counts EXCEPT ![n] = c]
  OBVIOUS
<1> HIDE DEF c, r, b, x
<1>9. /\ counts' \in Seq(Counted) /\ Len(counts') = n /\ counts'[n] = c
      /\ \A i \in 1..n - 1 : counts'[i] = counts[i]
  <2>1. n \in 1..Len(counts) /\ \A i \in 1..n - 1 : i \in 1..n /\ i # n
    BY <1>1
  <2>2. /\ counts' \in Seq(Counted) /\ Len(counts') = Len(counts)
        /\ \A j \in 1..Len(counts) : counts'[j] = IF j = n THEN c ELSE counts[j]
    <3>1. counts \in Seq(Counted) /\ n \in 1..Len(counts) /\ c \in Counted
      BY <1>1, <1>6, <2>1
    <3> HIDE DEF n
    <3> QED BY <1>8, <3>1, ExceptSeq
  <2> QED BY <1>1, <2>1, <2>2
<1> HIDE DEF n
<1>10. /\ returns' \in Seq(Int) /\ Len(returns') = 3 * n
       /\ \A i \in 1..3 * n - 1 : returns'[i] = returns[i]
       /\ returns'[3 * n] = r
  <2> DEFINE p == SubSeq(returns, 1, 3 * n - 1)
  <2>1. 3 * n - 1 \in 0..Len(returns) /\ 3 * n - 1 \in Nat /\ (3 * n - 1) + 1 = 3 * n
    BY <1>1
  <2>2. p \in Seq(Int) /\ Len(p) = 3 * n - 1 /\ \A i \in 1..3 * n - 1 : p[i] = returns[i]
    BY <1>1, <2>1, Cutting
  <2> HIDE DEF p
  <2>3. returns' = Append(p, r)
    BY <1>7 DEF p
  <2>4. /\ returns' \in Seq(Int) /\ Len(returns') = Len(p) + 1
        /\ \A i \in 1..Len(p) : returns'[i] = p[i]
        /\ returns'[Len(p) + 1] = r
    <3>1. p \in Seq(Int) /\ r \in Int
      BY <1>5, <2>2
    <3>2. /\ Append(p, r) \in Seq(Int) /\ Len(Append(p, r)) = Len(p) + 1
          /\ \A i \in 1..Len(p) : Append(p, r)[i] = p[i]
          /\ Append(p, r)[Len(p) + 1] = r
      BY <3>1, Appending
    <3> QED BY <2>3, <3>2
  <2> QED BY <2>1, <2>2, <2>4
<1>11. ASSUME NEW i \in 1..n - 1 PROVE OnReturns(returns', counts', i)
  <2>1. OnReturns(returns, counts, i) /\ counts'[i] = counts[i]
    BY <1>1, <1>9 DEF LoopInv, n
  <2>2. 3 * i - 2 \in 1..3 * n - 1 /\ 3 * i - 1 \in 1..3 * n - 1 /\ 3 * i \in 1..3 * n - 1
    <3>1. n \in Nat /\ i \in Nat /\ i >= 1 /\ i <= n - 1
      BY <1>1
    <3> QED BY <3>1
  <2> QED BY <1>10, <2>1, <2>2 DEF OnReturns
<1>12. OnReturns(returns', counts', n)
  <2>1. 3 * n - 2 \in 1..3 * n - 1 /\ 3 * n - 1 \in 1..3 * n - 1
    BY <1>1
  <2>2. Loop!Biased(c.limit) = b
    BY <1>6 DEF b
  <2> QED BY <1>2, <1>4, <1>6, <1>9, <1>10, <2>1, <2>2 DEF OnReturns
<1>13. \A i \in 1..n : OnReturns(returns', counts', i)
  <2>1. \A i \in 1..n : i \in 1..n - 1 \/ i = n
    BY <1>1
  <2> QED BY <1>11, <1>12, <2>1
<1> QED BY <1>9, <1>10, <1>13 DEF LoopInv

LEMMA LoopsInitial == ASSUME Loop!Init PROVE LoopInv
  BY DEF Loop!Init, LoopInv

LEMMA LoopsInductive == LoopInv /\ [Loop!Next]_loopVars => LoopInv'
<1> SUFFICES ASSUME LoopInv, [Loop!Next]_loopVars PROVE LoopInv'
  OBVIOUS
<1>1. ASSUME NEW limit \in Limits, NEW index \in Loop!Cells,
             Loop!Do(limit, index) \/ Loop!QDo(limit, index)
      PROVE  LoopInv'
  BY <1>1, DoKeeps, LoopAssumption DEF Loop!QDo
<1>2. ASSUME NEW s \in Loop!Steps, Loop!PlusLoop(s) PROVE LoopInv'
  BY <1>2, LoopLeft, GoesOn DEF Loop!PlusLoop
<1>3. CASE Loop!Unloop
  BY <1>3, LoopLeft DEF Loop!Unloop
<1>4. CASE UNCHANGED loopVars
  BY <1>4 DEF loopVars, LoopInv
<1> QED BY <1>1, <1>2, <1>3, <1>4 DEF Loop!Next

--------------------------------------------------------------------------------
(***************************************************************************)
(* What the parts promise, each by itself and as MCMachine runs them.      *)
(***************************************************************************)

(* The registers and the VM keep their types in every thread (vm.c).       *)
THEOREM RegistersTyped == Register!Spec => []RegisterTypes
<1>1. RegisterInv => RegisterTypes
  BY DEF RegisterInv
<1>2. [Register!Next]_(Register!vars) => [Register!Next]_registerVars
  BY DEF Register!vars, registerVars
<1> QED BY <1>1, <1>2, RegistersInitial, RegistersInductive, PTL DEF Register!Spec

(* An exception finds its catcher with the stacks of where it was thrown,  *)
(* for all threads and depths, unless another thread wrote spilled in      *)
(* between (ficlVmInnerLoop of vm.c).                                      *)
THEOREM ExceptionsKeepRegisters == Register!Spec => []Register!RegistersKept
<1>1. RegisterInv => Register!RegistersKept
  BY DEF RegisterInv, Kept, Register!RegistersKept
<1>2. [Register!Next]_(Register!vars) => [Register!Next]_registerVars
  BY DEF Register!vars, registerVars
<1> QED BY <1>1, <1>2, RegistersInitial, RegistersInductive, PTL DEF Register!Spec

(* However many locals are declared and however long a definition is: its  *)
(* frame is made once and dropped on every path, has room for what it is   *)
(* used for, and a name is the local that was declared last with it        *)
(* (ficlLocalParen, EXIT, DOES> and ; of primitives.c).                    *)
THEOREM LocalsKeepFrames ==
  Local!Spec => [](Local!FramesPaired /\ Local!FramesHoldLocals /\ Local!LocalsMeant)
<1>1. [Local!Next]_(Local!vars) => [Local!Next]_localVars
  BY DEF Local!vars, localVars
<1> QED BY <1>1, LocalsInitial, LocalsInductive, LocalsHold, PTL DEF Local!Spec

(* For cells of any width a counted loop ends where its limit is, whatever *)
(* the step, and I, J and K are its indexes at any depth (vm.c).           *)
THEOREM LoopsCount == Loop!Spec => [](Loop!LoopsExact /\ Loop!IndexesExact)
<1>1. [Loop!Next]_(Loop!vars) => [Loop!Next]_loopVars
  BY DEF Loop!vars, loopVars
<1> QED
  BY <1>1, LoopsInitial, LoopsInductive, ExactLoops, ExactIndexes, PTL DEF Loop!Spec

(* All of it, whatever the machine runs.                                   *)
THEOREM FramesAreSound == MCSpec => []FramesSound
<1> DEFINE Inv == RegisterInv /\ LocalInv /\ LoopInv
<1>1. MCInit => Inv
  BY RegistersInitial, LocalsInitial, LoopsInitial DEF MCInit
<1>2. Inv /\ [MCNext]_mcVars => Inv'
  <2> SUFFICES ASSUME Inv, [MCNext]_mcVars PROVE Inv'
    OBVIOUS
  <2>1. /\ [Register!Next]_registerVars
        /\ [Local!Next]_localVars
        /\ [Loop!Next]_loopVars
    BY DEF MCNext, mcVars
  <2> QED BY <2>1, RegistersInductive, LocalsInductive, LoopsInductive
<1>3. Inv => FramesSound
  <2> SUFFICES ASSUME Inv PROVE FramesSound
    OBVIOUS
  <2>1. Register!RegistersKept
    BY DEF RegisterInv, Kept, Register!RegistersKept
  <2> QED BY <2>1, LocalsHold, ExactLoops, ExactIndexes DEF FramesSound
<1> QED BY <1>1, <1>2, <1>3, PTL DEF MCSpec
================================================================================
