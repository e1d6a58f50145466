-------------------------------- MODULE Memory ---------------------------------
(***************************************************************************)
(* The memory of the dictionary, in address units: where the words that    *)
(* define, compile and allot put what they append, what the checks of HERE *)
(* let pass, and what an error gives back.                                 *)
(* Source: dictionary.c, the checks of vm.c and the words of primitives.c. *)
(*                                                                         *)
(* A step is one token of the input.  Dictionary has the word lists and    *)
(* the search order, which are one list here.                              *)
(***************************************************************************)
EXTENDS Integers, Sequences, FiniteSetsExt

CONSTANTS
  Cell,         \* sizeof(ficlCell), which is FICL_PLATFORM_ALIGNMENT
  Size,         \* dictionary->size, in cells
  HeaderSize,   \* ficlWord up to its first parameter, in address units
  NameLength,   \* FICL_NAME_LENGTH
  Span,         \* what an 8 bit length can tell apart, and
                \* FICL_COUNTED_STRING_MAX
  WordNames,    \* names of words, sequences of characters
  Lengths,      \* the lengths of the texts a program writes
  Allots        \* the arguments of ALLOT

(* Names are shorter than what their 8 bit length tells apart; a counted   *)
(* text of just Span characters, which the check lets pass and whose count *)
(* is 0, is left out.                                                      *)
MemoryAssumption ==
  /\ Cell \in Nat \ {0} /\ Size \in Nat /\ HeaderSize \in Nat \ {0}
  /\ NameLength \in Nat \ {0} /\ Span \in Nat \ {0}
  /\ \A n \in WordNames : n \in Seq(Nat) /\ n # <<>> /\ Len(n) < Span
  /\ Lengths \subseteq Nat \ {Span} /\ IsFiniteSet(Lengths)
  /\ Allots \subseteq Int

VARIABLES
  here,     \* dictionary->here, from dictionary->base
  mode,     \* vm->state
  smudge,   \* the hidden header dictionary->smudge points to; a header
            \* that is shown, or given back, is not used through it
  words,    \* the headers in the word list, the last one found first
  held,     \* data space: what was allotted outside headers and code
  open,     \* history: the definition being compiled, if any
  runs      \* history: where the inner interpreter is after its code

vars == <<here, mode, smudge, words, held, open, runs>>

None    == [started |-> -1, inside |-> FALSE]
Nothing == [name |-> <<>>, at |-> 0]

Init ==
  /\ here = 0 /\ mode = "interpret" /\ words = <<>> /\ held = {}
  /\ smudge = Nothing /\ open = None /\ runs = 0

Align(a) == ((a + Cell - 1) \div Cell) * Cell

Smaller(m, n) == IF m < n THEN m ELSE n

(* Bytes and their zero, or nothing but the alignment. *)
AppendData(a, n) == IF n = 0 THEN Align(a) ELSE Align(a + n + 1)

Stored(n) == SubSeq(n, 1, Smaller(Len(n), NameLength))

AppendString(n) == AppendData(here, Len(Stored(n)))

Body(n) == AppendString(n) + HeaderSize

(* The header of AppendWord; cells is what the word appends behind it.     *)
Header(n, cells, kind) ==
  [name |-> Stored(n), length |-> Len(n) % Span, kind |-> kind,
   at |-> IF n = <<>> THEN Align(here) ELSE here,
   head |-> AppendString(n), body |-> Body(n), to |-> Body(n) + cells * Cell]

(* A word without a length is not linked. *)
Unsmudge(h) == IF h.length > 0 THEN Append(words, h) ELSE words

(* The cells that are used are counted from HERE rounded down. *)
CellsUsed == here \div Cell
CellsAvailable == Size - CellsUsed

(* dictionary full, dictionary underflow *)
SimpleCheck(at, n) ==
  /\ n >= 0 => (Size - at \div Cell) * Cell >= n
  /\ n <= 0 => (at \div Cell) * Cell >= -n

TokenUnchecked == TRUE

(* What every token begins with. *)
Token == SimpleCheck(here, 0)

AbortDefinitionAtHead == smudge.head

AbortDefinitionNever == here

(* HERE goes back to the name of the word that is hidden. *)
AbortDefinition == smudge.at

Below(a) ==
  {[from |-> r.from, to |-> Smaller(r.to, a)] : r \in {q \in held : q.from < a}}

(* A piece of data space from HERE on, with the one that ends at HERE.     *)
Hold(to) ==
  LET behind == {r \in held : r.to = here} IN
  (held \ behind) \cup {[from |-> Min({here} \cup {r.from : r \in behind}), to |-> to]}

(* An error, at a token that is not known or at a check, and what the end  *)
(* of the line does about it.                                              *)
Throw ==
  /\ here' = IF mode = "compile" THEN AbortDefinition ELSE here
  /\ held' = Below(here')
  /\ mode' = "interpret" /\ smudge' = Nothing /\ open' = None /\ runs' = 0
  /\ UNCHANGED words

--------------------------------------------------------------------------------
(* Defining words.                                                         *)
Defining == Token /\ mode = "interpret" /\ open = None

(* CREATE and 2VARIABLE append the header and then allot; the check of     *)
(* AllotCells takes the cells for address units.                           *)
Allotting(n, cells) ==
  /\ Defining
  /\ LET body == Body(n)
         fits == SimpleCheck(body, cells)
         h    == Header(n, IF fits THEN cells ELSE 0, "create") IN
     words' = Unsmudge(h) /\ here' = h.to
  /\ UNCHANGED <<mode, smudge, held, open, runs>>

Create(n) == Allotting(n, 1)
TwoVariable(n) == Allotting(n, 2)

(* VARIABLE, CONSTANT and the like append cells that nothing checks. *)
AppendWord(n, cells, kind) ==
  LET h == Header(n, cells, kind) IN
  words' = Unsmudge(h) /\ here' = h.to

Variable(n) ==
  /\ Defining
  /\ AppendWord(n, 1, "variable")
  /\ UNCHANGED <<mode, smudge, held, open, runs>>

NamedByPrefix(w, n) == SubSeq(w.name, 1, Len(Stored(n))) = Stored(n)

Named(w, n) ==
  /\ w.length = Len(n)
  /\ SubSeq(w.name, 1, Smaller(Len(n), NameLength)) = Stored(n)

Hits(n) == {i \in DOMAIN words : Named(words[i], n)}

(* The values a C program sets, of the environment for one: the word found *)
(* is written over, whatever it is, or one is appended, which nothing      *)
(* checks; here that is done only where a token would pass the check.      *)
SetConstant(n) ==
  /\ mode = "interpret" /\ open = None
  /\ IF Hits(n) = {} THEN Token /\ AppendWord(n, 1, "constant")
     ELSE /\ words' = [words EXCEPT ![Max(Hits(n))].kind = "constant"]
          /\ UNCHANGED here
  /\ UNCHANGED <<mode, smudge, held, open, runs>>

ReusableAlways(w) == TRUE

Reusable(w) == w.kind = "2constant"

Set2Constant(n) ==
  /\ mode = "interpret" /\ open = None
  /\ IF Hits(n) # {} /\ Reusable(words[Max(Hits(n))])
     THEN /\ words' = [words EXCEPT ![Max(Hits(n))].kind = "2constant"]
          /\ UNCHANGED here
     ELSE Token /\ AppendWord(n, 2, "2constant")
  /\ UNCHANGED <<mode, smudge, held, open, runs>>

(* : and :NONAME; the header waits in smudge for ; to link it. *)
Colon(n) ==
  /\ Defining
  /\ LET h == Header(n, 0, "colon") IN
     /\ smudge' = h
     /\ here' = h.body /\ runs' = h.body
  /\ mode' = "compile"
  /\ open' = [started |-> here, inside |-> FALSE]
  /\ UNCHANGED <<words, held>>

Semicolon ==
  /\ Token /\ mode = "compile"
  /\ here' = here + Cell
  /\ words' = Unsmudge([smudge EXCEPT !.to = here'])
  /\ held' = Below(smudge.at)
  /\ mode' = "interpret" /\ smudge' = Nothing /\ open' = None /\ runs' = 0

LeftBracket ==
  /\ Token /\ mode = "compile" /\ mode' = "interpret"
  /\ UNCHANGED <<here, smudge, words, held, open, runs>>

(* ] without a definition before it is left out, and so are defining words *)
(* between [ and ].                                                        *)
RightBracket ==
  /\ Token /\ open # None /\ mode = "interpret" /\ mode' = "compile"
  /\ UNCHANGED <<here, smudge, words, held, open, runs>>

--------------------------------------------------------------------------------
(* Data space.                                                             *)
Data(to) ==
  /\ here' = to
  /\ held' = IF to > here THEN Hold(to) ELSE Below(to)
  /\ open' = IF open = None THEN None ELSE [open EXCEPT !.inside = TRUE]
  /\ UNCHANGED <<mode, smudge, words, runs>>

Floor == Max({0} \cup {words[i].to : i \in DOMAIN words})

(* A program gives back no more than it allotted since the last word. *)
Allot(n) ==
  /\ Token /\ mode = "interpret"
  /\ n < 0 => open = None /\ here + n >= Floor
  /\ IF SimpleCheck(here, n) THEN Data(here + n) ELSE Throw

Comma  == Token /\ mode = "interpret" /\ Data(here + Cell)
CComma == Token /\ mode = "interpret" /\ Data(here + 1)
AlignHere == Token /\ mode = "interpret" /\ Data(Align(here))

(* S" and C" copy the text to HERE and then allot its count and its        *)
(* characters, without the zero behind them and without an alignment.      *)
PairedSizeText(length) == length

PairedSize(length) == Cell + length

CountedSize(length) == 1 + (length % Span)

StringQuote(length) ==
  /\ Token /\ mode = "interpret"
  /\ IF SimpleCheck(here, PairedSize(length))
     THEN /\ here' = here + PairedSize(length)
          /\ held' = Hold(here + Cell + length)
          /\ open' = IF open = None THEN None ELSE [open EXCEPT !.inside = TRUE]
          /\ UNCHANGED <<mode, smudge, words, runs>>
     ELSE Throw

CountedStringQuote(length) ==
  /\ Token /\ mode = "interpret"
  /\ IF length <= Span /\ SimpleCheck(here, CountedSize(length))
     THEN Data(here + CountedSize(length))
     ELSE Throw

--------------------------------------------------------------------------------
(* Code: what is compiled, and where the inner interpreter goes over it.   *)
(* StringLiteralParen and CStringLiteralParen skip their text by its count.*)
Compiling == Token /\ mode = "compile"

Code(to, ip) ==
  /\ here' = to /\ runs' = ip
  /\ UNCHANGED <<mode, smudge, words, held, open>>

Compile(cells) ==
  /\ Compiling /\ Code(here + cells * Cell, runs + cells * Cell)

StringLiteralParen(ip, length)  == Align(ip + Cell + length + 1)
CStringLiteralParen(ip, length) == Align(ip + 2 + (length % Span))

StringEndLoose(length) == here + Cell + Cell + length + 1

(* S" and SLITERAL; ." has TYPE behind the text. *)
StringEnd(length) == Align(here + Cell + Cell + length + 1)

CompileString(length) ==
  /\ Compiling
  /\ Code(StringEnd(length), StringLiteralParen(runs + Cell, length))

DotQuote(length) ==
  /\ Compiling
  /\ Code(StringEnd(length) + Cell, StringLiteralParen(runs + Cell, length) + Cell)

(* A text that is too long throws when its instruction is compiled. *)
CompileCounted(length) ==
  /\ Compiling
  /\ IF length <= Span
     THEN Code(Align(here + Cell + 1 + length + 1), CStringLiteralParen(runs + Cell, length))
     ELSE Throw

--------------------------------------------------------------------------------
TokenThrows == Throw

Next ==
  \/ TokenThrows
  \/ \E n \in WordNames : Create(n) \/ TwoVariable(n) \/ Variable(n) \/ Colon(n)
                            \/ SetConstant(n) \/ Set2Constant(n)
  \/ Colon(<<>>) \/ Semicolon \/ LeftBracket \/ RightBracket
  \/ \E n \in Allots : Allot(n)
  \/ Comma \/ CComma \/ AlignHere
  \/ \E length \in Lengths : StringQuote(length) \/ CountedStringQuote(length)
       \/ CompileString(length) \/ DotQuote(length) \/ CompileCounted(length)
  \/ \E cells \in {1, 2} : Compile(cells)

Spec == Init /\ [][Next]_vars

--------------------------------------------------------------------------------
Headers == {[from |-> words[i].at, to |-> words[i].to] : i \in DOMAIN words}

(* Nothing the dictionary holds lies over something else it holds: not the *)
(* headers and bodies of words, not the texts that were interpreted (S" of *)
(* primitives.c moves HERE past them "so it doesn't get overwritten").     *)
Apart ==
  /\ \A a, b \in Headers \cup held : a # b => a.to <= b.from \/ b.to <= a.from
  /\ \A i \in DOMAIN words : Align(words[i].head) = words[i].head
  /\ \A a \in Headers \cup held : a.to <= here

(* The inner interpreter goes over a text in the code to just where the    *)
(* compiler went on (vm.c, StringLiteralParen against primitives.c), in a  *)
(* definition that has no data between [ and ].                            *)
Threaded == (open # None /\ ~open.inside) => runs = here

(* An error in a definition gives its memory back and no other, up to the  *)
(* alignment of a word without a name (AbortDefinition of dictionary.c).   *)
AbortRestores ==
  [][Throw /\ mode = "compile" => here' - open.started \in
       IF smudge.name = <<>> THEN 0..(Cell - 1) ELSE {0}]_vars

Largest == Max({NameLength + 1 + HeaderSize + 3 * Cell} \cup
               {4 * Cell + length + 1 : length \in Lengths})

(* The check before each token is all that keeps HERE inside: what is      *)
(* beyond the end is at most what one token appended (ParseWord of vm.c).  *)
OverrunBounded == here < Size * Cell + Cell + Largest

(* A definition that fills the dictionary does not wedge the system: after *)
(* its error the next token passes the check (ExecuteString of vm.c).  A   *)
(* :NONAME begun in the cell that stands on the end does wedge it.         *)
FullRecovers ==
  [][Throw /\ mode = "compile" =>
       \/ CellsAvailable' >= 0
       \/ smudge.name = <<>> /\ open.started > Size * Cell]_vars

(* A name of up to FICL_NAME_LENGTH characters finds the last word that    *)
(* was given it, and no other (AppendString of dictionary.c, hash.c).      *)
NamesFound ==
  \A n \in WordNames : Len(n) <= NameLength =>
    Hits(n) = {i \in DOMAIN words : words[i].length = Len(n) /\ words[i].name = n}

(* The header of a word ended where the check of CREATE and 2VARIABLE      *)
(* refuses to allot a body.                                                *)
HeaderFills(w) == ~SimpleCheck(w.body, 2)

(* A value that is set over an older word fits in its body, as the comment *)
(* of Set2ConstantInstruction wants it.  SetConstantInstruction writes in  *)
(* any word: in a CREATE that found the dictionary full, which has no      *)
(* cell, it writes over what comes behind.                                 *)
BodyHolds ==
  \A i \in DOMAIN words :
    /\ words[i].kind = "constant" => words[i].to >= words[i].body + Cell
                                       \/ HeaderFills(words[i])
    /\ words[i].kind = "2constant" => words[i].to = words[i].body + 2 * Cell
================================================================================
