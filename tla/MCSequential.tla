----------------------------- MODULE MCSequential ------------------------------
(***************************************************************************)
(* ControlFlow, Memory, Arithmetic, Numbers, Lz, Input and Debugger for    *)
(* TLC.  A behaviour runs one of the seven, chosen at the start.           *)
(***************************************************************************)
EXTENDS ControlFlow

CONSTANTS
  Cell, Size, HeaderSize, NameLength, NameSpan, WordNames, Lengths, Allots,
  Bits, MaxDepth, Bases, PrefixWords, Tokens, LengthSpan, FewDigits,
  OffsetBits, LengthBits, NextBits, ByteSpan, Texts,
  LineBuffer, Files,
  DebugCode, DebugWords, CharsOf, MaxReturns

VARIABLES
  here, mode, smudge, words, held, open, runs,      \* of Memory
  stack, hangs,                                     \* of Arithmetic
  base, conversion, ud, pob, numeral, whole, got,   \* of Numbers
  packing, text, window, windowSize, buffer, stream, header, input, output,
  source,                                           \* of Lz
  feed, file, contents, tib, index, doing, restart, read, rejected,
  swallowed,                                        \* of Input
  cells, ip, returns, bp, at,                       \* of Debugger
  program

(* Names within, at and beyond the length a header keeps. *)
MCNames  == {<<1>>, <<1, 2>>, <<1, 2, 1>>}
MCAllots == {-1, -2, 1, 3, 5}

M == INSTANCE Memory WITH Span <- NameSpan

ASSUME MemoryAssumption == M!MemoryAssumption

A == INSTANCE Arithmetic

ASSUME DoublesAssumption == A!DoublesAssumption

(* The prefixes 0b and 0d of prefix.fr. *)
MCPrefixWords == {[name |-> <<0, 11>>, base |-> 2], [name |-> <<0, 13>>, base |-> 10]}

(* Digits of one and of some of the bases, and every other character; ones *)
(* for the tokens as long as a counted string can say, and longer, also    *)
(* with characters that make no number behind those that count.            *)
MCTokens ==
  UNION {[1..n -> {0, 1, 11, 13, 36, 37, 38, 39}] : n \in 1..4}
    \cup {[i \in 1..n |-> 1] : n \in {LengthSpan, LengthSpan + 1}}
    \cup {[i \in 1..(LengthSpan + 2) |-> IF i <= 2 THEN 1 ELSE 39]}

N == INSTANCE Numbers WITH phase <- conversion, text <- numeral

ASSUME NumbersAssumption == N!NumbersAssumption

(* All short texts of two characters, and longer ones that repeat a part,  *)
(* where the windows slide.                                                *)
Parts == [1..4 -> {0, 1}]
MCTexts ==
  UNION {[1..n -> {0, 1}] : n \in 0..9}
    \cup {p \o p \o p \o p : p \in Parts}
    \cup {p \o <<1, 0, 0>> \o p \o <<1, 1>> \o p : p \in Parts}

L == INSTANCE Lz WITH phase <- packing

ASSUME LzAssumption == L!LzAssumption

(* All short files of every character, and longer ones of some: comments   *)
(* over lines, names at the ends of lines, lines that are too long.        *)
MCFiles ==
  UNION {[1..n -> {" ", "n", "r", "a", "\\", "(", ")", "'", "s"}] : n \in 0..4}
    \cup [1..5 -> {"a", "n", "\\", "(", ")", "'"}]
    \cup [1..6 -> {"a", "n", " ", "'"}]
    \cup [1..6 -> {"a", "n", "(", ")"}]

T == INSTANCE Input WITH whole <- contents

ASSUME InputAssumption == T!InputAssumption

(* The interpreter loop, and two words, at 4 and 17, whose strings,        *)
(* literals and limits look like instructions.                             *)
MCWords == {4, 17}
MCCode ==
  <<-1000, 5, -2,
    13, 2, 7, 4, 6, 4, 14, 3, 34, 15, 1, 16, 4,
    9, 15, 11, 3, 0, 8, 4, 10, 12, 2, 0, 3, 10, -11, 1, 4>>

D == INSTANCE Debugger WITH code <- cells, Code <- DebugCode, Words <- DebugWords

ASSUME DebugAssumption == D!DebuggerAssumption /\ D!CodeAssumption

Programs == {"control", "memory", "arithmetic", "numbers", "lz", "input", "debugger"}

MCInit ==
  /\ program \in Programs
  /\ Init /\ M!Init /\ A!Init /\ N!Init /\ L!Init
  /\ T!Init /\ D!Init
  /\ program # "numbers" => base = 10
  /\ program # "input" => feed = "load" /\ file = <<>>

memoryVars == <<here, mode, smudge, words, held, open, runs>>
stackVars  == <<stack, hangs>>
numberVars == <<base, conversion, ud, pob, numeral, whole, got>>
lzVars     == <<packing, text, window, windowSize, buffer, stream, header, input, output, source>>
inputVars  == <<feed, file, contents, tib, index, doing, restart, read, rejected, swallowed>>
debugVars  == <<cells, ip, returns, bp, at>>
mcVars     == <<vars, memoryVars, stackVars, numberVars, lzVars, inputVars, debugVars, program>>

MCNext ==
  /\ UNCHANGED program
  /\ \/ /\ program = "control" /\ Next
        /\ UNCHANGED <<memoryVars, stackVars, numberVars, lzVars, inputVars, debugVars>>
     \/ /\ program = "memory" /\ M!Next
        /\ UNCHANGED <<vars, stackVars, numberVars, lzVars, inputVars, debugVars>>
     \/ /\ program = "arithmetic" /\ A!Next
        /\ UNCHANGED <<vars, memoryVars, numberVars, lzVars, inputVars, debugVars>>
     \/ /\ program = "numbers" /\ N!Next
        /\ UNCHANGED <<vars, memoryVars, stackVars, lzVars, inputVars, debugVars>>
     \/ /\ program = "lz" /\ L!Next
        /\ UNCHANGED <<vars, memoryVars, stackVars, numberVars, inputVars, debugVars>>
     \/ /\ program = "input" /\ T!Next
        /\ UNCHANGED <<vars, memoryVars, stackVars, numberVars, lzVars, debugVars>>
     \/ /\ program = "debugger" /\ D!Next
        /\ UNCHANGED <<vars, memoryVars, stackVars, numberVars, lzVars, inputVars>>

MCSpec == MCInit /\ [][MCNext]_mcVars

(* The memory of the dictionary: what it holds lies apart, code is gone    *)
(* over as it was compiled, HERE overruns by one token at most, a name     *)
(* finds its last word, and values that are set again fit (dictionary.c,   *)
(* hash.c, vm.c).                                                          *)
DictionarySound ==
  program = "memory" =>
    M!Apart /\ M!Threaded /\ M!OverrunBounded /\ M!NamesFound /\ M!BodyHolds

(* After an error: the memory of the definition is given back, also when   *)
(* it filled the dictionary, and BASE is what it was but for a prefix that *)
(* failed (ficlVmExecuteString of vm.c, dictionary.c, prefix.c).           *)
ErrorsRecover == M!AbortRestores /\ M!FullRecovers /\ N!BaseKept

(* Products, quotients in three roundings, order and roots of doubles are  *)
(* exact (double.c, primitives.c, extras.c).                               *)
ArithmeticExact ==
  program = "arithmetic" =>
    A!ProductsExact /\ A!QuotientsExact /\ A!OrderExact /\ A!RootExact

(* A number that is output, pictured or not, is read as the same number,   *)
(* and what is read as a number means what its digits mean (utility.c,     *)
(* primitives.c, vm.c).                                                    *)
NumeralsExact ==
  program = "numbers" => N!PicturedExact /\ N!ReadsBack /\ N!ReadsNumerals

(* What was compressed is uncompressed to the same text; the fields of the *)
(* phrases and of the header hold their numbers (lzcompress.c,             *)
(* lzuncompress.c).                                                        *)
RoundTrip == program = "lz" => L!RoundTrip /\ L!PhraseFits /\ L!HeaderRead

(* A file means the same whoever reads it, the lines that are too long are *)
(* refused, and >IN stays in the text (extras.c, main.c, vm.c,             *)
(* primitives.c).                                                          *)
FilesRead ==
  program = "input" => T!WordsRead /\ T!LongLines /\ T!IndexInText

(* A breakpoint keeps the code, the prompt shows it, and SEE shows what is *)
(* executed as instructions (tools.c, dictionary.c, word.c).               *)
DebuggerSound ==
  program = "debugger" => D!CodeKept /\ D!PromptClean /\ D!SeeInStep
================================================================================
