------------------------------ MODULE Dictionary ------------------------------
(***************************************************************************)
(* The dictionary of one VM: headers laid out in a growing region, linked  *)
(* into word lists, hidden while they are compiled, searched through the   *)
(* search order, and given back by an error, by FORGET or by a MARKER.     *)
(* Source: dictionary.c, hash.c, search.c, tools.c, softcore/marker.fr and *)
(* the defining words of primitives.c.                                     *)
(*                                                                         *)
(* A header, a word list or a cell of data takes one address; a word list  *)
(* has one chain, that of the names which share a bucket of its table.     *)
(* The loops over chains are steps of their own.                           *)
(***************************************************************************)
EXTENDS Naturals, Sequences, FiniteSets

CONSTANTS
  Names,      \* names of words
  Anon,       \* the empty name of a :NONAME word
  MaxHere,    \* bound: the last address of the dictionary
  MaxLists,   \* bound: word lists that exist at once
  MaxOrder,   \* FICL_MAX_WORDLISTS, the most lists in the search order
  MaxOpen,    \* bound: colon tags on the data stack
  Liberties   \* the ambiguous conditions a program steps into

Null  == 0
Forth == 1           \* dictionary->forthWordlist, the first thing allotted
First == 2           \* a word defined by ficlSystemCompileCore
Addr  == 1..MaxHere

(* "nested": defining, allotting lists and forgetting inside a definition; *)
(* "forget": FORGET of a word older than something the current list does   *)
(* not hold; "marker": a MARKER that does not know every list.             *)
ASSUME DictionaryAssumption ==
  /\ Names # {} /\ Anon \notin Names
  /\ MaxHere \in Nat /\ MaxHere >= First
  /\ MaxLists \in Nat \ {0} /\ MaxOrder \in Nat \ {0} /\ MaxOpen \in Nat \ {0}
  /\ Liberties \subseteq {"nested", "forget", "marker"}

VARIABLES
  here,     \* dictionary->here
  kind,     \* what stands at an address
  name,     \* word->name
  link,     \* word->link
  smudged,  \* FICL_WORD_SMUDGED in word->flags
  saved,    \* the body of a marker: the compilation list and the order
  head,     \* hash->table[0] of a word list
  order,    \* dictionary->wordlists, the last one searched first
  current,  \* dictionary->compilationWordlist
  smudge,   \* dictionary->smudge
  state,    \* vm->state
  open,     \* colon tags on the data stack
  op,       \* the word in progress, "idle" between words
  target,   \* the name looked up
  path,     \* the lists it walks over
  index,    \* how far it is in path
  list,     \* the list whose chain it walks
  cursor,   \* where in the chain it is
  found,    \* the xt the lookup returned
  inlist    \* history: the list a definition belongs to, if any

cellVars == <<kind, name, link, smudged, saved>>
memVars  == <<cellVars, head>>
listVars == <<order, current>>
compVars == <<smudge, state, open>>
walkVars == <<op, target, path, index, list, cursor>>
vars == <<here, memVars, listVars, compVars, walkVars, found, inlist>>

Lists   == {l \in Addr : l < here /\ kind[l] = "list"}
Looking == {"interpret", "tick", "search"}

NoBody  == [current |-> Forth, order |-> <<>>]

Init ==
  /\ here = First + 1
  /\ kind = [a \in Addr |-> CASE a = Forth -> "list"
                              [] a = First -> "word" [] OTHER -> "free"]
  /\ \E n \in Names : name = [a \in Addr |-> IF a = First THEN n ELSE Anon]
  /\ link = [a \in Addr |-> Null]
  /\ smudged = [a \in Addr |-> FALSE]
  /\ saved = [a \in Addr |-> NoBody]
  /\ head = [l \in Addr |-> IF l = Forth THEN First ELSE Null]
  /\ order = <<Forth>> /\ current = Forth
  /\ smudge = First /\ state = "interpret" /\ open = 0
  /\ op = "idle" /\ target = Anon /\ path = <<>> /\ index = 0
  /\ list = Null /\ cursor = Null /\ found = Null
  /\ inlist = [a \in Addr |-> IF a = First THEN Forth ELSE Null]

--------------------------------------------------------------------------------
(* Memory.  What lies above HERE was never written or is garbage that a    *)
(* program does not read: it is kept blank.                                *)

(* Write one thing at HERE and move HERE past it.                          *)
Put(k) == /\ here <= MaxHere
          /\ kind' = [kind EXCEPT ![here] = k]
          /\ here' = here + 1

(* Memory from h on is given back.                                         *)
KeepCells(h) ==
  /\ kind'    = [a \in Addr |-> IF a < h THEN kind[a] ELSE "free"]
  /\ name'    = [a \in Addr |-> IF a < h THEN name[a] ELSE Anon]
  /\ link'    = [a \in Addr |-> IF a < h THEN link[a] ELSE Null]
  /\ smudged' = [a \in Addr |-> IF a < h THEN smudged[a] ELSE FALSE]
  /\ saved'   = [a \in Addr |-> IF a < h THEN saved[a] ELSE NoBody]

KeepBelow(h) == /\ here' = h /\ KeepCells(h)
                /\ head' = [l \in Addr |-> IF l < h THEN head[l] ELSE Null]

(* Mutant of Insert: the list is set first and then read.                  *)
InsertSwapped(l, w) == /\ head' = [head EXCEPT ![l] = w]
                       /\ link' = [link EXCEPT ![w] = w]
                       /\ inlist' = [inlist EXCEPT ![w] = l]

(* Mutant of Insert: the link is not set.                                  *)
InsertUnlinked(l, w) == /\ head' = [head EXCEPT ![l] = w]
                        /\ inlist' = [inlist EXCEPT ![w] = l]
                        /\ UNCHANGED link

(* ficlHashInsertWord                                                      *)
Insert(l, w) == /\ link' = [link EXCEPT ![w] = head[l]]
                /\ head' = [head EXCEPT ![l] = w]
                /\ inlist' = [inlist EXCEPT ![w] = l]

(* Between two words; the xt found last has been used.                     *)
Ready == op = "idle" /\ found' = Null /\ UNCHANGED walkVars

(* A definition whose semicolon has not come yet.                          *)
InDefinition == open > 0 /\ smudged[smudge] /\ smudge < here

(* May a word be executed that moves HERE for good?                        *)
Settled == state = "interpret" /\ (InDefinition => "nested" \in Liberties)

--------------------------------------------------------------------------------
(* Defining words.                                                         *)

(* ficlDictionaryAppendWord with FICL_WORD_SMUDGED: not linked yet.        *)
Begin(n) == /\ Ready /\ Settled /\ open < MaxOpen
            /\ Put("word")
            /\ name' = [name EXCEPT ![here] = n]
            /\ smudged' = [smudged EXCEPT ![here] = TRUE]
            /\ smudge' = here
            /\ state' = "compile"
            /\ open' = open + 1
            /\ UNCHANGED <<link, saved, head, listVars, inlist>>

Colon       == \E n \in Names : Begin(n)
ColonNoName == Begin(Anon)

(* ficlDictionaryAppendWord of a finished word: linked at once.            *)
Define(n, k) == /\ Ready /\ Settled
                /\ Put(k)
                /\ name' = [name EXCEPT ![here] = n]
                /\ smudge' = here
                /\ Insert(current, here)
                /\ UNCHANGED <<smudged, listVars, state, open>>

Create == \E n \in Names : Define(n, "word") /\ UNCHANGED saved

Marker == \E n \in Names :
            /\ Define(n, "marker")
            /\ saved' = [saved EXCEPT ![here] =
                           [current |-> current, order |-> order]]

Comma == /\ Ready
         /\ Put("data")
         /\ UNCHANGED <<name, link, smudged, saved, head, listVars, compVars, inlist>>

(* ficlPrimitiveSemicolonCoIm and ficlDictionaryUnsmudge.                  *)
Semicolon == /\ Ready /\ state = "compile" /\ open > 0
             /\ Put("data")
             /\ smudged' = [smudged EXCEPT ![smudge] = FALSE]
             /\ IF name[smudge] = Anon THEN UNCHANGED <<link, head, inlist>>
                                       ELSE Insert(current, smudge)
             /\ state' = "interpret"
             /\ open' = open - 1
             /\ UNCHANGED <<name, saved, listVars, smudge>>

LeftBracket == /\ Ready /\ state = "compile"
               /\ state' = "interpret"
               /\ UNCHANGED <<here, memVars, listVars, smudge, open, inlist>>

RightBracket == /\ Ready /\ state = "interpret"
                /\ InDefinition \/ (open > 0 /\ "nested" \in Liberties)
                /\ state' = "compile"
                /\ UNCHANGED <<here, memVars, listVars, smudge, open, inlist>>

(* Mutant of AbortDefinition: FICL_WORD_SMUDGED is not looked at either.   *)
AbortStale == KeepBelow(smudge)

(* ficlDictionaryAbortDefinition, called while compiling.                  *)
AbortDefinition == KeepBelow(IF state = "compile" /\ smudged[smudge]
                             THEN smudge ELSE here)

(* ficlVmExecuteString's cases for an error and for QUIT.                  *)
Abort == /\ Ready
         /\ AbortDefinition
         /\ state' = "interpret"
         /\ open' = 0
         /\ UNCHANGED <<listVars, smudge, inlist>>

Quit == /\ Ready
        /\ AbortDefinition
        /\ state' = "interpret"
        /\ UNCHANGED <<listVars, smudge, open, inlist>>

--------------------------------------------------------------------------------
(* Word lists and the search order.                                        *)

Wordlist == /\ Ready /\ Settled
            /\ Cardinality(Lists) < MaxLists
            /\ Put("list")
            /\ head' = [head EXCEPT ![here] = Null]
            /\ UNCHANGED <<name, link, smudged, saved, listVars, compVars, inlist>>

(* A word of the search order set, executed.                               *)
Searching == /\ Ready /\ state = "interpret"
             /\ UNCHANGED <<here, memVars, compVars, inlist>>

SetCurrent  == Searching /\ current' \in Lists /\ UNCHANGED order
Definitions == /\ Searching /\ order # <<>>
               /\ current' = order[Len(order)] /\ UNCHANGED order
SetOrder    == /\ Searching
               /\ \E n \in 0..MaxOrder : order' \in [1..n -> Lists]
               /\ UNCHANGED current
Only        == Searching /\ order' = <<Forth>> /\ current' = Forth
SearchPush  == /\ Searching /\ Len(order) < MaxOrder
               /\ \E l \in Lists : order' = Append(order, l)
               /\ UNCHANGED current
SearchPop   == /\ Searching /\ order # <<>>
               /\ order' = SubSeq(order, 1, Len(order) - 1)
               /\ UNCHANGED current

--------------------------------------------------------------------------------
(* What a careful program knows of a word before it forgets.               *)

Members(l) == {a \in Addr : inlist[a] = l}
Named(n)   == {a \in Addr : inlist[a] # Null /\ name[a] = n}

(* Every definition as young as a belongs to one of the lists of ls.       *)
Covered(a, ls) == \A b \in Addr : inlist[b] # Null /\ b >= a => inlist[b] \in ls

SavedLists(m) == {saved[m].current} \cup
                   {saved[m].order[i] : i \in DOMAIN saved[m].order}

MayForget(a) == \/ "forget" \in Liberties
                \/ /\ Covered(a, {current}) /\ current < a
                   /\ \A i \in DOMAIN order : order[i] < a

MayRestore(m) == "marker" \in Liberties \/ Covered(m, SavedLists(m))

--------------------------------------------------------------------------------
(* Lookups: ficlDictionaryLookupSmudged over the order, for the text       *)
(* interpreter and for ' in FORGET; ficlHashLookup in one list.            *)

Look(o, n, p) == /\ op = "idle" /\ op' = o
                 /\ found' = Null
                 /\ target' = n /\ path' = p /\ index' = Len(p)
                 /\ list' = Null /\ cursor' = Null
                 /\ UNCHANGED <<here, memVars, listVars, compVars, inlist>>

Interpret(n) == /\ state = "interpret" =>
                     \A m \in Named(n) : kind[m] = "marker" => Settled /\ MayRestore(m)
                /\ state = "compile" => here <= MaxHere
                /\ Look("interpret", n, order)

Forget(n) == /\ Settled
             /\ \A a \in Named(n) : MayForget(a)
             /\ Look("tick", n, order)

SearchWordlist(n) == \E l \in Lists : Look("search", n, <<l>>)

(* Mutant of NextList: the order is searched from its bottom.              *)
NextListUp == /\ op \in Looking /\ cursor = Null /\ index > 0
              /\ list' = path[Len(path) + 1 - index]
              /\ cursor' = head[list']
              /\ index' = index - 1
              /\ UNCHANGED <<here, memVars, listVars, compVars, op, target, path, found, inlist>>

NextList == /\ op \in Looking /\ cursor = Null /\ index > 0
            /\ list' = path[index]
            /\ cursor' = head[list']
            /\ index' = index - 1
            /\ UNCHANGED <<here, memVars, listVars, compVars, op, target, path, found, inlist>>

Match == /\ name[cursor] = target
         /\ op = "search" \/ ~smudged[cursor]

NextWord == /\ op \in Looking /\ cursor # Null /\ ~Match
            /\ cursor' = link[cursor]
            /\ UNCHANGED <<here, memVars, listVars, compVars, op, target, path, index,
                           list, found, inlist>>

(* The word in progress is done.                                           *)
Done == op' = "idle" /\ target' = Anon /\ path' = <<>> /\ index' = 0
          /\ list' = Null /\ cursor' = Null

Hit(o) == op = o /\ cursor # Null /\ Match /\ found' = cursor

(* The xt found is compiled, or a word runs that does not concern us.      *)
HitWord == /\ Hit("interpret") \/ Hit("search")
           /\ IF op = "interpret" /\ state = "compile"
              THEN Put("data") ELSE UNCHANGED <<here, kind>>
           /\ op = "interpret" /\ state = "interpret" => kind[cursor] # "marker"
           /\ Done
           /\ UNCHANGED <<name, link, smudged, saved, head, listVars, compVars, inlist>>

HitMarker == /\ Hit("interpret") /\ state = "interpret" /\ kind[cursor] = "marker"
             /\ op' = "restore" /\ list' = Null /\ cursor' = Null
             /\ UNCHANGED <<here, memVars, listVars, compVars, target, path, index, inlist>>

HitForget == /\ Hit("tick")
             /\ op' = "forget" /\ list' = current /\ cursor' = head[current]
             /\ UNCHANGED <<here, memVars, listVars, compVars, target, path, index, inlist>>

Missed == op \in Looking /\ cursor = Null /\ index = 0 /\ found' = Null /\ Done

(* The name is none, or a number that is left on the stack or compiled.    *)
MissWord == /\ Missed /\ op # "tick"
            /\ IF op = "interpret" /\ state = "compile"
               THEN Put("data") ELSE UNCHANGED <<here, kind>>
            /\ UNCHANGED <<name, link, smudged, saved, head, listVars, compVars, inlist>>

(* The name is not found and that is an error.                             *)
MissError == /\ Missed /\ op # "search"
             /\ AbortDefinition
             /\ state' = "interpret" /\ open' = 0
             /\ UNCHANGED <<listVars, smudge, inlist>>

--------------------------------------------------------------------------------
(* ficlHashForget, on behalf of FORGET and of FORGET-WID in a MARKER.      *)

Young(c) == c >= found

Unlink == /\ op \in {"forget", "marker"} /\ Young(cursor)
          /\ cursor' = link[cursor]
          /\ UNCHANGED <<here, memVars, listVars, compVars, op, target, path, index,
                         list, found, inlist>>

(* The chain of the list now begins at the cursor.                         *)
CutHead == [head EXCEPT ![list] = cursor]

Cut == /\ ~Young(cursor)
       /\ inlist' = [a \in Addr |-> IF inlist[a] = list /\ a >= found
                                    THEN Null ELSE inlist[a]]
       /\ UNCHANGED compVars

(* What is left when memory from FOUND on is given back.                   *)
Shorten == /\ KeepCells(found)
           /\ head' = [l \in Addr |-> IF l < found THEN CutHead[l] ELSE Null]
           /\ Done /\ found' = Null

ForgetEnds == op = "forget" /\ Cut /\ here' = found /\ Shorten /\ UNCHANGED listVars

(* Mutant of Restore: the search order is not cleared first.               *)
RestoreOnTop == /\ op = "restore" /\ op' = "marker"
                /\ order' = SubSeq(order, 1, 1)
                /\ here' = found
                /\ current' = saved[found].current
                /\ path' = saved[found].order /\ index' = 0
                /\ list' = current' /\ cursor' = head[list']
                /\ UNCHANGED <<memVars, compVars, target, found, inlist>>

(* 0 SET-ORDER, HERE := the marker, SET-CURRENT, FORGET-WID begins.        *)
Restore == /\ op = "restore" /\ op' = "marker"
           /\ order' = <<>>
           /\ here' = found
           /\ current' = saved[found].current
           /\ path' = saved[found].order /\ index' = 0
           /\ list' = current' /\ cursor' = head[list']
           /\ UNCHANGED <<memVars, compVars, target, found, inlist>>

(* >SEARCH and FORGET-WID of the next list the marker knows.               *)
NextSaved == /\ op = "marker" /\ Cut /\ index < Len(path)
             /\ head' = CutHead
             /\ order' = Append(order, path[index + 1])
             /\ list' = path[index + 1]
             /\ cursor' = head'[list']
             /\ index' = index + 1
             /\ UNCHANGED <<here, cellVars, current, op, target, path, found>>

MarkerEnds == /\ op = "marker" /\ index = Len(path) /\ Cut /\ Shorten
              /\ UNCHANGED <<here, listVars>>

--------------------------------------------------------------------------------
Defining == Colon \/ ColonNoName \/ Create \/ Marker \/ Comma \/ Semicolon
              \/ LeftBracket \/ RightBracket \/ Abort \/ Quit
Ordering == Wordlist \/ SetCurrent \/ Definitions \/ SetOrder \/ Only
              \/ SearchPush \/ SearchPop
Asking   == \E n \in Names : Interpret(n) \/ Forget(n) \/ SearchWordlist(n)

(* The steps of the word in progress.                                      *)
Step == NextList \/ NextWord \/ HitWord \/ HitMarker \/ HitForget \/ Restore \/ MissWord
          \/ MissError \/ Unlink \/ ForgetEnds \/ NextSaved \/ MarkerEnds

Next == Defining \/ Ordering \/ Asking \/ Step

Spec     == Init /\ [][Next]_vars
FairSpec == Spec /\ WF_vars(Step)

--------------------------------------------------------------------------------
(* Properties.                                                             *)

(* What every variable may hold; lists and words lie below HERE.           *)
TypeOK ==
  /\ here \in First..MaxHere + 1
  /\ kind \in [Addr -> {"free", "data", "list", "word", "marker"}]
  /\ name \in [Addr -> Names \cup {Anon}]
  /\ link \in [Addr -> Addr \cup {Null}]
  /\ smudged \in [Addr -> BOOLEAN]
  /\ head \in [Addr -> Addr \cup {Null}]
  /\ saved \in [Addr -> [current : Addr, order : Seq(Addr)]]
  /\ order \in Seq(Addr) /\ current \in Addr
  /\ smudge \in Addr
  /\ state \in {"interpret", "compile"}
  /\ open \in 0..MaxOpen
  /\ op \in Looking \cup {"idle", "forget", "restore", "marker"}
  /\ target \in Names \cup {Anon}
  /\ path \in Seq(Addr) /\ index \in 0..Len(path)
  /\ list \in Addr \cup {Null}
  /\ cursor \in Addr \cup {Null} /\ found \in Addr \cup {Null}
  /\ inlist \in [Addr -> Addr \cup {Null}]

(* x is the youngest of the definitions S, or there is none.               *)
Top(x, S) == IF S = {} THEN x = Null ELSE x \in S /\ \A a \in S : a <= x

(* The chain of a word list holds its definitions, all of them and no      *)
(* other, the youngest first: what hashInsertWord, hashForget and the      *)
(* reclaiming of memory make of the links is what the lookup needs.        *)
ChainExact ==
  \A l \in Lists : /\ Top(head[l], Members(l))
                   /\ \A a \in Members(l) : Top(link[a], {b \in Members(l) : b < a})

(* Between words nothing the dictionary refers to lies in memory that was  *)
(* given back: not a definition, not a list in the order.                  *)
NoDangling ==
  op = "idle" =>
    /\ \A a \in Addr : inlist[a] # Null => a < here /\ inlist[a] \in Lists
    /\ \A l \in Lists : head[l] < here
    /\ current \in Lists /\ \A i \in DOMAIN order : order[i] \in Lists

(* A MARKER brings back the order and the compilation list it was made     *)
(* with, in that order, though it pushes the lists one by one.             *)
MarkerRestores ==
  [][op = "marker" /\ op' = "idle" =>
       /\ order' = saved[found].order
       /\ current' = saved[found].current]_vars

(* A word never links to itself (the assertion of ficlHashLookup).         *)
NoSelfLink == \A a \in Addr : inlist[a] # Null => link[a] # a

(* Every lookup, FORGET and MARKER comes to its end.                       *)
WordsEnd == op # "idle" ~> op = "idle"

(* The dictionary implements the name space.                               *)
Defs == {[at |-> a, list |-> inlist[a], name |-> name[a]] :
           a \in {b \in Addr : inlist[b] # Null /\ b < here}}

Answer == IF op = "marker" THEN Null ELSE found

Asked == IF op \in Looking THEN <<target, path>> ELSE <<>>

NS == INSTANCE NameSpace WITH defs <- Defs, asked <- Asked, answer <- Answer
Implements == NS!Spec

================================================================================
