--------------------------------- MODULE Input ---------------------------------
(***************************************************************************)
(* How a file becomes words: the lines of LOAD and of the main loop, the   *)
(* one text of INCLUDE-FILE, and the parsing of names, comments and        *)
(* strings out of them.                                                    *)
(* Source: extras.c, main.c, fileaccess.c, the parser of vm.c, the words   *)
(* of primitives.c that parse.  Interpreter has what nests and what throws.*)
(***************************************************************************)
EXTENDS Integers, Sequences, FiniteSetsExt

CONSTANTS
  LineBuffer,  \* LINE_BUFFER_SIZE
  Files        \* the contents of files, sequences of characters

Eols   == {"n", "r"}
Blanks == Eols \cup {" "}
Chars  == Blanks \cup {"a", "\\", "(", ")", "'", "s"}

(* A line has room for a character, its newline and the zero behind them.  *)
InputAssumption == LineBuffer \in Nat /\ LineBuffer > 2 /\ Files \subseteq Seq(Chars)

VARIABLES
  feed,      \* who reads the file: "load", "include" or "main"
  file,      \* what of the file is not read yet
  whole,     \* history: the file
  tib,       \* vm->tib, the text that is interpreted
  index,     \* >IN
  doing,     \* what the interpreter is about
  restart,   \* vm->restart, of a word that takes a name
  read,      \* history: what was interpreted, in order
  rejected,  \* history: a line was too long
  swallowed  \* history: the newline behind a word that parses to the end
             \* of its line was taken for the blank behind its name

textVars == <<tib, index>>
vars == <<feed, file, whole, textVars, doing, restart, read, rejected, swallowed>>

Init ==
  /\ feed \in {"load", "include", "main"} /\ file \in Files /\ whole = file
  /\ tib = <<>> /\ index = 0 /\ doing = "fetch" /\ restart = FALSE
  /\ read = <<>> /\ rejected = FALSE /\ swallowed = FALSE

(* From an index on, the first one whose character is in S, or the end.    *)
Upto(text, i, S) ==
  Min({j \in i..(Len(text) - 1) : text[j + 1] \in S} \cup {Len(text)})

--------------------------------------------------------------------------------
(* Lines.                                                                  *)
PushTib(text) == tib' = text /\ index' = 0

FgetsFull == Min({LineBuffer, Upto(file, 0, {"n"}) + 1, Len(file)})

(* fgets *)
Fgets == Min({LineBuffer - 1, Upto(file, 0, {"n"}) + 1, Len(file)})

Ended(line) == line[Len(line)] = "n"

Stripped(line) == SubSeq(line, 1, Len(line) - 1)

(* LOAD passes over a line of one character, whichever it is.              *)
LoadLine ==
  /\ doing = "fetch" /\ feed = "load" /\ file # <<>>
  /\ LET line == SubSeq(file, 1, Fgets) IN
     \/ /\ Len(line) = 1
        /\ UNCHANGED <<textVars, doing, rejected>>
     \/ /\ Len(line) > 1 /\ Ended(line)
        /\ PushTib(Stripped(line)) /\ doing' = "text" /\ UNCHANGED rejected
     \/ /\ Len(line) > 1 /\ ~Ended(line)
        /\ rejected' = TRUE /\ doing' = "done" /\ UNCHANGED textVars
  /\ file' = SubSeq(file, Fgets + 1, Len(file))
  /\ UNCHANGED <<feed, whole, restart, read, swallowed>>

(* The main loop goes on behind a part of a line it complains about.       *)
MainLine ==
  /\ doing = "fetch" /\ feed = "main" /\ file # <<>>
  /\ LET line == SubSeq(file, 1, Fgets) IN
     \/ /\ Ended(line)
        /\ PushTib(line) /\ doing' = "text" /\ UNCHANGED <<restart, rejected>>
     \/ /\ ~Ended(line)
        /\ rejected' = TRUE /\ restart' = FALSE /\ UNCHANGED <<textVars, doing>>
  /\ file' = SubSeq(file, Fgets + 1, Len(file))
  /\ UNCHANGED <<feed, whole, read, swallowed>>

IncludeFile ==
  /\ doing = "fetch" /\ feed = "include" /\ file # <<>>
  /\ PushTib(file) /\ file' = <<>> /\ doing' = "text"
  /\ UNCHANGED <<feed, whole, restart, read, rejected, swallowed>>

(* LOAD and INCLUDE-FILE end with an empty text, which completes no word.  *)
EndOfFile ==
  /\ doing = "fetch" /\ file = <<>>
  /\ PushTib(<<>>) /\ doing' = "done"
  /\ UNCHANGED <<feed, file, whole, restart, read, rejected, swallowed>>

--------------------------------------------------------------------------------
(* Names.                                                                  *)
GetWord0 ==
  LET from == Upto(tib, index, Chars \ Blanks)
      to   == Upto(tib, from, Blanks) IN
  [word |-> SubSeq(tib, from + 1, to),
   next |-> IF to < Len(tib) THEN to + 1 ELSE to]

Parsers == {<<"\\">>, <<"(">>, <<"'">>, <<"s">>}

(* Whether a name took the end of its line with it, and there is more.     *)
TookEol(next) ==
  /\ next > 0 /\ next < Len(tib)
  /\ tib[next] \in Eols /\ tib[next + 1] \notin Eols

(* ExecuteString and the interpreter loop: a word that waits for its name  *)
(* runs again, before the text is gone on with.                            *)
OutOfText == doing' = "fetch"

Restarted == restart /\ restart' = FALSE /\ doing' = "'"

Interpret ==
  /\ doing = "text"
  /\ \/ Restarted /\ UNCHANGED <<index, read, swallowed>>
     \/ /\ ~restart /\ GetWord0.word = <<>>
        /\ OutOfText /\ index' = GetWord0.next
        /\ UNCHANGED <<restart, read, swallowed>>
     \/ /\ ~restart /\ GetWord0.word # <<>>
        /\ LET w == GetWord0.word IN
           /\ read' = IF w \in {<<"\\">>, <<"(">>} THEN read ELSE Append(read, w)
           /\ doing' = IF w \in Parsers THEN w[1] ELSE "text"
           /\ swallowed' = (swallowed \/ (w \in {<<"\\">>, <<"s">>}
                                            /\ TookEol(GetWord0.next)))
        /\ index' = GetWord0.next
        /\ UNCHANGED restart
  /\ UNCHANGED <<feed, file, whole, tib, rejected>>

(* ' and the like, with GetWord: no name leaves the text and waits.        *)
GetWord ==
  /\ doing = "'"
  /\ index' = GetWord0.next
  /\ IF GetWord0.word = <<>>
     THEN restart' = TRUE /\ OutOfText /\ UNCHANGED read
     ELSE read' = Append(read, GetWord0.word) /\ doing' = "text" /\ UNCHANGED restart
  /\ UNCHANGED <<feed, file, whole, tib, rejected, swallowed>>

--------------------------------------------------------------------------------
(* Comments and strings.                                                   *)
ParseStringEx(delimiter, findEol) ==
  LET stop == Upto(tib, index, {delimiter} \cup (IF findEol THEN Eols ELSE {})) IN
  [text |-> SubSeq(tib, index + 1, stop),
   next |-> IF stop < Len(tib) /\ tib[stop + 1] = delimiter THEN stop + 1 ELSE stop]

(* What an end of line of one or two characters ends with. *)
OverEolAlways(stop) == stop + 2

OverEol(stop) ==
  IF stop = Len(tib) THEN stop
  ELSE IF stop + 1 < Len(tib) /\ {tib[stop + 1], tib[stop + 2]} = Eols THEN stop + 2
  ELSE stop + 1

Backslash ==
  /\ doing = "\\" /\ index' = OverEol(Upto(tib, index, Eols)) /\ UNCHANGED read

ParenthesisInLine ==
  /\ doing = "(" /\ index' = ParseStringEx(")", TRUE).next /\ UNCHANGED read

(* ( and .( *)
Parenthesis ==
  /\ doing = "(" /\ index' = ParseStringEx(")", FALSE).next /\ UNCHANGED read

(* PARSE *)
Parse ==
  /\ doing = "s" /\ index' = ParseStringEx(")", TRUE).next
  /\ read' = Append(read, ParseStringEx(")", TRUE).text)

ParseText ==
  /\ Backslash \/ Parenthesis \/ Parse
  /\ doing' = "text"
  /\ UNCHANGED <<feed, file, whole, tib, restart, rejected, swallowed>>

Next ==
  \/ LoadLine \/ MainLine \/ IncludeFile \/ EndOfFile
  \/ Interpret \/ GetWord \/ ParseText

Spec == Init /\ [][Next]_vars

--------------------------------------------------------------------------------
(* What a file means, without regard to who reads it: a name is a longest  *)
(* run of characters that are not blank; \ ends with its line, and so does *)
(* the text of a PARSE without its delimiter; a ( goes on over the lines   *)
(* only where they are one text; a word that takes a name takes it from a  *)
(* later line if it must.                                                  *)
Meant(text) ==
  LET After(i, S) == Upto(text, i, S) + 1
      Limit(i, S) ==  \* of the text behind a name that ends at i
        LET first == IF i < Len(text) /\ text[i + 1] \in S THEN i ELSE i + 1
            last  == Upto(text, first, S) IN
        [text |-> SubSeq(text, first + 1, last),
         next |-> IF last < Len(text) /\ text[last + 1] = ")" THEN last + 1 ELSE last]
      M[i \in 0..(Len(text) + 2)] ==
        LET from == Upto(text, i, Chars \ Blanks)
            to   == Upto(text, from, Blanks)
            name == SubSeq(text, from + 1, to)
            f2   == Upto(text, to, Chars \ Blanks)
            t2   == Upto(text, f2, Blanks) IN
        IF name = <<>> THEN <<>>
        ELSE IF name = <<"\\">> THEN M[After(to, Eols)]
        ELSE IF name = <<"(">>
        THEN M[Limit(to, IF feed = "include" THEN {")"} ELSE {")", "n"}).next]
        ELSE IF name = <<"s">>
        THEN LET t == Limit(to, Eols \cup {")"}) IN
             <<name, t.text>> \o M[t.next]
        ELSE IF name = <<"'">>
        THEN IF f2 = t2 THEN <<name>> ELSE <<name, SubSeq(text, f2 + 1, t2)>> \o M[t2]
        ELSE <<name>> \o M[to] IN
  M[0]

(* The line that is left over at the end of a file. *)
Rest(text) ==
  SubSeq(text, Max({0} \cup {i \in DOMAIN text : text[i] = "n"}) + 1, Len(text))

Dropped(text) == feed = "load" /\ Len(Rest(text)) = 1

Heard(text) == IF Dropped(text) THEN SubSeq(text, 1, Len(text) - 1) ELSE text

(* A file that is read to its end means the same from LOAD, INCLUDE-FILE   *)
(* and the main loop, but for a last line of one character that LOAD       *)
(* passes over, and where the newline behind \ was taken for the blank     *)
(* behind a name (the parser of vm.c, LOAD of extras.c).                   *)
WordsRead ==
  doing = "done" /\ ~rejected /\ ~swallowed => read = Meant(Heard(whole))

(* >IN stays in the text, though the words that parse look at the          *)
(* character behind an end of line (Backslash of primitives.c).            *)
IndexInText == index \in 0..Len(tib)

TooLong(text) ==
  \/ Rest(text) # <<>> /\ ~Dropped(text)
  \/ \E i \in 0..(Len(text) - 1) :
       /\ i = 0 \/ text[i] = "n"
       /\ Upto(text, i, {"n"}) + 1 - i > LineBuffer - 1

(* A line is too long when it does not fit with its newline, or has none   *)
(* (LOAD of extras.c, main of main.c).                                     *)
LongLines ==
  doing = "done" => (rejected <=> feed # "include" /\ TooLong(whole))
================================================================================
