--------------------------- MODULE Dictionary_proof ---------------------------
(***************************************************************************)
(* Theorems about the dictionary, for programs that keep away from the     *)
(* ambiguous conditions and for every bound: the chains are exact, nothing *)
(* dangles, and the dictionary implements the name space.                  *)
(***************************************************************************)
EXTENDS Dictionary, TLAPS, SequenceTheorems

USE DictionaryAssumption

(* The program defines nothing inside a definition and forgets only what   *)
(* FORGET and the MARKER at hand can take away.                            *)
Careful == Liberties = {}

(* A definition that can be found is complete, and younger than its list.  *)
LiveInv == \A a \in Addr : inlist[a] # Null =>
             /\ inlist[a] \in Lists /\ inlist[a] < a
             /\ op # "marker" => a < here
             /\ name[a] \in Names /\ ~smudged[a]

(* What the search order, and a marker, refer to.                          *)
ListsInv == /\ Forth \in Lists /\ current \in Lists
            /\ \A i \in DOMAIN order : order[i] \in Lists
            /\ \A m \in Addr : inlist[m] # Null /\ kind[m] = "marker" =>
                 \A l \in SavedLists(m) : l < m /\ kind[l] = "list"

(* While a definition is open everything that can be found, and every      *)
(* list, is older: an error gives only the definition back.                *)
OpenInv == /\ state = "compile" => InDefinition
           /\ InDefinition => /\ kind[smudge] = "word"
                              /\ \A a \in Addr : inlist[a] # Null => a < smudge
                              /\ \A l \in Lists : l < smudge
           /\ op # "marker" => \A a \in Addr : a >= here => ~smudged[a]
           /\ op \in {"tick", "forget", "restore", "marker"} =>
                state = "interpret" /\ ~InDefinition

(* A walk stands at a definition of its list, or at the end.               *)
WalkInv ==
  /\ op \in {"idle", "restore"} => cursor = Null /\ list = Null
  /\ cursor # Null => list # Null /\ inlist[cursor] = list
  /\ list # Null => list \in Lists
  /\ op \in {"forget", "marker"} =>
       /\ list # Null /\ found \in Addr /\ found <= here
       /\ \A a \in Members(list) : a > cursor => a >= found

(* What a lookup has passed has not the name.                              *)
LookInv ==
  op \in Looking =>
    /\ target \in Names
    /\ path = order \/ \E l \in Addr : path = <<l>>
    /\ \A i \in DOMAIN path : path[i] \in Lists
    /\ list # Null => index < Len(path) /\ path[index + 1] = list
    /\ list = Null => cursor = Null /\ index = Len(path)
    /\ \A i \in DOMAIN path : i > index =>
         \A a \in Members(path[i]) : name[a] = target => i = index + 1 /\ a <= cursor

(* What is forgotten is in the lists that are still to be cut.             *)
ForgetInv ==
  /\ op = "tick" => \A a \in Named(target) : MayForget(a)
  /\ op = "forget" => MayForget(found) /\ list = current
  /\ op = "interpret" /\ state = "interpret" =>
       \A m \in Named(target) : kind[m] = "marker" => Settled /\ MayRestore(m)
  /\ op = "restore" => /\ found \in Addr /\ inlist[found] # Null
                       /\ kind[found] = "marker" /\ MayRestore(found)
  /\ op = "marker" =>
       /\ here = found
       /\ path = saved[found].order /\ current = saved[found].current
       /\ \A i \in DOMAIN path : path[i] \in Lists
       /\ Len(order) = index /\ \A i \in DOMAIN order : order[i] = path[i]
       /\ \A a \in Addr : inlist[a] # Null /\ a >= found =>
            inlist[a] = list \/ \E i \in DOMAIN path : i > index /\ inlist[a] = path[i]

IInv == TypeOK /\ ChainExact /\ LiveInv /\ ListsInv /\ OpenInv /\ WalkInv
          /\ LookInv /\ ForgetInv

--------------------------------------------------------------------------------
USE DEF Null, First, Addr, Lists, Members, Top, InDefinition, Looking

(* A chain is walked downwards.                                            *)
LEMMA LinkDown ==
  ASSUME TypeOK, ChainExact, LiveInv, WalkInv, cursor # Null
  PROVE  /\ list \in Lists /\ cursor \in Addr /\ inlist[cursor] = list
         /\ link[cursor] \in Addr \cup {Null} /\ link[cursor] < cursor
         /\ link[cursor] # Null => inlist[link[cursor]] = list
         /\ \A a \in Members(list) : a < cursor => a <= link[cursor]
<1>1. cursor \in Addr /\ list \in Lists /\ inlist[cursor] = list
  BY DEF TypeOK, WalkInv, LiveInv
<1>2. Top(link[cursor], {b \in Members(list) : b < cursor})
  BY <1>1 DEF ChainExact
<1>3. link[cursor] \in Addr \cup {Null}
  BY <1>1 DEF TypeOK
<1> QED
  BY <1>1, <1>2, <1>3

(* Steps of a walk along a chain.                                          *)
LEMMA WalkSteps == ASSUME Careful, IInv, NextWord \/ Unlink
                   PROVE  IInv'
<1> USE DEF IInv, memVars, cellVars, listVars, compVars
<1>0. cursor # Null
  BY DEF NextWord, Unlink, Young, WalkInv
<1>1. /\ list \in Lists /\ cursor \in Addr /\ inlist[cursor] = list
      /\ link[cursor] \in Addr \cup {Null} /\ link[cursor] < cursor
      /\ link[cursor] # Null => inlist[link[cursor]] = list
      /\ \A a \in Members(list) : a < cursor => a <= link[cursor]
  BY <1>0, LinkDown
<1>2. /\ cursor' = link[cursor]
      /\ UNCHANGED <<here, memVars, listVars, compVars, op, target, path, index,
                     list, found, inlist>>
  BY DEF NextWord, Unlink
<1>3. TypeOK'
  BY <1>1, <1>2 DEF TypeOK
<1>4. ChainExact' /\ LiveInv' /\ ListsInv' /\ OpenInv'
  BY <1>2 DEF ChainExact, LiveInv, ListsInv, OpenInv, SavedLists
<1>5. WalkInv'
  <2>1. ASSUME op \in {"forget", "marker"}, NEW a \in Members(list), a > link[cursor]
        PROVE  a >= found
    <3>1. CASE a > cursor
      BY <2>1, <3>1 DEF WalkInv
    <3>2. CASE a = cursor
      BY <2>1, <3>2 DEF Unlink, NextWord, Young
    <3> QED
      BY <1>1, <2>1, <3>1, <3>2
  <2> QED
    BY <1>1, <1>2, <2>1 DEF WalkInv
<1>6. LookInv'
  <2>1. ASSUME op \in Looking, NEW i \in DOMAIN path, i > index,
               NEW a \in Members(path[i]), name[a] = target
        PROVE  i = index + 1 /\ a <= link[cursor]
    <3>1. i = index + 1 /\ path[i] = list /\ a <= cursor
      BY <1>0, <2>1 DEF LookInv, WalkInv
    <3>2. a # cursor
      BY <2>1, <3>1, <1>1 DEF NextWord, Unlink, Match, LiveInv
    <3> QED
      BY <1>1, <3>1, <3>2
  <2> QED
    BY <1>0, <1>1, <1>2, <2>1 DEF LookInv
<1>7. ForgetInv'
  BY <1>2 DEF ForgetInv, Named, MayForget, MayRestore, Covered, SavedLists, Settled
<1> QED
  BY <1>3, <1>4, <1>5, <1>6, <1>7

(* A lookup goes on with the next list of its path.                        *)
LEMMA ListStep == ASSUME Careful, IInv, NextList PROVE IInv'
<1> USE DEF IInv, memVars, cellVars, listVars, compVars
<1>0. /\ path \in Seq(Addr) /\ index \in 1..Len(path) /\ path[index] \in Lists
      /\ cursor = Null /\ op \in Looking
      /\ head[path[index]] \in Addr \cup {Null}
      /\ Top(head[path[index]], Members(path[index]))
  <2>1. path \in Seq(Addr) /\ index \in 1..Len(path) /\ cursor = Null /\ op \in Looking
    BY DEF NextList, TypeOK
  <2>2. path[index] \in Lists
    BY <2>1 DEF LookInv
  <2> QED
    BY <2>1, <2>2 DEF TypeOK, ChainExact
<1>1. /\ list' = path[index] /\ cursor' = head[path[index]] /\ index' = index - 1
      /\ UNCHANGED <<here, memVars, listVars, compVars, op, target, path, found, inlist>>
  BY DEF NextList
<1>2. TypeOK'
  <2>1. list' \in Addr /\ cursor' \in Addr \cup {Null} /\ index' \in 0..Len(path')
    BY <1>0, <1>1
  <2> QED
    BY <1>1, <2>1 DEF TypeOK
<1>3. ChainExact' /\ LiveInv' /\ ListsInv' /\ OpenInv'
  BY <1>1 DEF ChainExact, LiveInv, ListsInv, OpenInv, SavedLists
<1>4. WalkInv'
  <2>1. cursor' # Null => inlist'[cursor'] = list'
    BY <1>0, <1>1
  <2>2. list' # Null /\ list' \in Lists'
    BY <1>0, <1>1
  <2> QED
    BY <1>0, <1>1, <2>1, <2>2 DEF WalkInv
<1>5. LookInv'
  <2>1. ASSUME NEW i \in DOMAIN path, i > index - 1,
               NEW a \in Members(path[i]), name[a] = target
        PROVE  i = index /\ a <= head[path[index]]
    <3>1. CASE i > index
      BY <1>0, <2>1, <3>1 DEF LookInv
    <3>2. CASE i = index
      BY <1>0, <2>1, <3>2
    <3> QED
      BY <1>0, <2>1, <3>1, <3>2
  <2> QED
    BY <1>0, <1>1, <2>1 DEF LookInv
<1>6. ForgetInv'
  BY <1>0, <1>1 DEF ForgetInv, Named, MayForget, MayRestore, Covered, SavedLists, Settled
<1> QED
  BY <1>2, <1>3, <1>4, <1>5, <1>6

--------------------------------------------------------------------------------
(* Steps between two words.  Nothing is walked before or after.            *)
Resting == op = "idle" /\ op' = "idle"

LEMMA RestingWalk ==
  ASSUME IInv, Resting, cursor' = Null, list' = Null
  PROVE  WalkInv' /\ LookInv' /\ ForgetInv'
BY DEF Resting, WalkInv, LookInv, ForgetInv

(* Words that change neither memory nor what can be found.                 *)
LEMMA BracketSteps == ASSUME Careful, IInv, LeftBracket \/ RightBracket PROVE IInv'
<1> USE DEF IInv, Ready, memVars, cellVars, listVars, walkVars, Careful
<1>1. /\ op = "idle" /\ found' = Null /\ state' \in {"interpret", "compile"}
      /\ (state' = "compile" => InDefinition)
      /\ UNCHANGED <<here, memVars, listVars, smudge, open, walkVars, inlist>>
  BY DEF LeftBracket, RightBracket
<1>2. TypeOK'
  BY <1>1 DEF TypeOK
<1>3. ChainExact' /\ LiveInv' /\ ListsInv'
  BY <1>1 DEF ChainExact, LiveInv, ListsInv, SavedLists
<1>4. OpenInv'
  BY <1>1 DEF OpenInv
<1>5. WalkInv' /\ LookInv' /\ ForgetInv'
  BY <1>1, RestingWalk DEF Resting, WalkInv
<1> QED
  BY <1>2, <1>3, <1>4, <1>5

(* What the words of the search order set are word lists there are.        *)
LEMMA OrderSteps ==
  ASSUME Careful, IInv,
         SetCurrent \/ Definitions \/ SetOrder \/ Only \/ SearchPush \/ SearchPop
  PROVE  IInv'
<1> USE DEF IInv, Ready, memVars, cellVars, listVars, compVars, walkVars
<1>1. /\ op = "idle" /\ found' = Null
      /\ UNCHANGED <<here, memVars, compVars, walkVars, inlist>>
  BY DEF Searching, SetCurrent, Definitions, SetOrder, Only, SearchPush, SearchPop
<1>2. Forth \in Lists
  BY DEF ListsInv
<1>3. current' \in Lists /\ order' \in Seq(Lists)
  <2>0. current \in Lists /\ order \in Seq(Lists)
    BY DEF ListsInv, TypeOK
  <2>1. CASE SetCurrent
    BY <2>0, <2>1 DEF SetCurrent
  <2>2. CASE Definitions
    BY <2>0, <2>2 DEF Definitions
  <2>3. CASE SetOrder
    BY <2>0, <2>3 DEF SetOrder
  <2>4. CASE Only
    BY <1>2, <2>4 DEF Only
  <2>5. CASE SearchPush
    BY <2>0, <2>5 DEF SearchPush
  <2>6. CASE SearchPop
    <3>1. SubSeq(order, 1, Len(order) - 1) \in Seq(Lists)
      BY <2>0, <2>6, SubSeqProperties DEF SearchPop
    <3> QED
      BY <2>0, <2>6, <3>1 DEF SearchPop
  <2> QED
    BY <2>1, <2>2, <2>3, <2>4, <2>5, <2>6
<1>4. TypeOK'
  <2>1. order' \in Seq(Addr) /\ current' \in Addr
    BY <1>3
  <2> QED
    BY <1>1, <2>1 DEF TypeOK
<1>5. ChainExact' /\ LiveInv' /\ OpenInv'
  BY <1>1 DEF ChainExact, LiveInv, OpenInv
<1>6. ListsInv'
  BY <1>1, <1>3 DEF ListsInv, SavedLists
<1>7. WalkInv' /\ LookInv' /\ ForgetInv'
  BY <1>1, RestingWalk DEF Resting, WalkInv
<1> QED
  BY <1>4, <1>5, <1>6, <1>7

--------------------------------------------------------------------------------
(* Steps that write one thing at HERE.                                     *)

(* Anything but a list leaves the lists as they are; nothing that can be   *)
(* found stands at HERE or belongs to a list there.                        *)
LEMMA PutFacts ==
  ASSUME TypeOK, LiveInv, op # "marker", NEW k \in {"data", "list", "word", "marker"},
         Put(k)
  PROVE  /\ here \in Addr /\ here' = here + 1 /\ here' \in First..MaxHere + 1
         /\ kind' = [kind EXCEPT ![here] = k]
         /\ kind' \in [Addr -> {"free", "data", "list", "word", "marker"}]
         /\ k # "list" => Lists' = Lists
         /\ k = "list" => Lists' = Lists \cup {here}
         /\ \A a \in Addr : inlist[a] # Null => a < here /\ inlist[a] < here
<1>1. here \in Addr /\ here' = here + 1 /\ here' \in First..MaxHere + 1
      /\ kind' = [kind EXCEPT ![here] = k] /\ kind \in [Addr -> {"free", "data", "list", "word", "marker"}]
  BY DEF Put, TypeOK, First
<1>2. k # "list" => Lists' = Lists
  BY <1>1
<1>3. k = "list" => Lists' = Lists \cup {here}
  BY <1>1
<1> QED
  BY <1>1, <1>2, <1>3 DEF LiveInv

LEMMA CommaStep == ASSUME Careful, IInv, Comma PROVE IInv'
<1> USE DEF IInv, Ready, cellVars, listVars, compVars, walkVars
<1>1. /\ op = "idle" /\ found' = Null
      /\ UNCHANGED <<name, link, smudged, saved, head, listVars, compVars, inlist, walkVars>>
      /\ Put("data")
  BY DEF Comma
<1>2. /\ here \in Addr /\ here' = here + 1 /\ here' \in First..MaxHere + 1
      /\ kind' = [kind EXCEPT ![here] = "data"]
      /\ kind' \in [Addr -> {"free", "data", "list", "word", "marker"}]
      /\ Lists' = Lists
      /\ \A a \in Addr : inlist[a] # Null => a < here /\ inlist[a] < here
  BY <1>1, PutFacts
<1>3. TypeOK'
  BY <1>1, <1>2 DEF TypeOK
<1>4. ChainExact'
  BY <1>1, <1>2 DEF ChainExact
<1>5. LiveInv'
  BY <1>1, <1>2 DEF LiveInv
<1>6. ListsInv'
  BY <1>1, <1>2 DEF ListsInv, SavedLists
<1>7. OpenInv'
  <2>1. smudge \in Addr /\ (smudged[smudge] => smudge < here)
    BY <1>1, <1>2 DEF OpenInv, TypeOK
  <2>2. InDefinition' <=> InDefinition
    BY <1>1, <1>2, <2>1
  <2> QED
    BY <1>1, <1>2, <2>2 DEF OpenInv
<1>8. WalkInv' /\ LookInv' /\ ForgetInv'
  BY <1>1, RestingWalk DEF Resting, WalkInv
<1> QED
  BY <1>3, <1>4, <1>5, <1>6, <1>7, <1>8

LEMMA WordlistStep == ASSUME Careful, IInv, Wordlist PROVE IInv'
<1> USE DEF IInv, Ready, listVars, compVars, walkVars, Careful
<1>1. /\ op = "idle" /\ found' = Null
      /\ UNCHANGED <<name, link, smudged, saved, listVars, compVars, inlist, walkVars>>
      /\ Put("list") /\ head' = [head EXCEPT ![here] = Null]
      /\ ~InDefinition /\ state = "interpret"
  BY DEF Wordlist, Settled
<1>2. /\ here \in Addr /\ here' = here + 1 /\ here' \in First..MaxHere + 1
      /\ kind' = [kind EXCEPT ![here] = "list"]
      /\ kind' \in [Addr -> {"free", "data", "list", "word", "marker"}]
      /\ Lists' = Lists \cup {here}
      /\ \A a \in Addr : inlist[a] # Null => a < here /\ inlist[a] < here
  BY <1>1, PutFacts
<1>3. TypeOK'
  BY <1>1, <1>2 DEF TypeOK
<1>4. ChainExact'
  <2>1. head'[here] = Null /\ \A l \in Lists : head'[l] = head[l]
    BY <1>1, <1>2 DEF TypeOK
  <2>2. Members(here)' = {}
    BY <1>1, <1>2
  <2>3. Top(head'[here], Members(here)')
    BY <2>1, <2>2
  <2> QED
    BY <1>1, <1>2, <2>1, <2>2, <2>3 DEF ChainExact
<1>5. LiveInv'
  BY <1>1, <1>2 DEF LiveInv
<1>6. ListsInv'
  BY <1>1, <1>2 DEF ListsInv, SavedLists
<1>7. OpenInv'
  <2>1. smudge \in Addr /\ (smudged[smudge] => smudge < here)
    BY <1>1, <1>2 DEF OpenInv, TypeOK
  <2>2. ~InDefinition'
    BY <1>1, <1>2, <2>1
  <2> QED
    BY <1>1, <1>2, <2>2 DEF OpenInv
<1>8. WalkInv' /\ LookInv' /\ ForgetInv'
  BY <1>1, RestingWalk DEF Resting, WalkInv
<1> QED
  BY <1>3, <1>4, <1>5, <1>6, <1>7, <1>8

LEMMA BeginStep == ASSUME Careful, IInv, Colon \/ ColonNoName PROVE IInv'
<1> USE DEF IInv, Ready, listVars, walkVars, Careful
<1>1. PICK n \in Names \cup {Anon} : Begin(n)
  BY DEF Colon, ColonNoName
<1>2. /\ op = "idle" /\ found' = Null
      /\ UNCHANGED <<link, saved, head, listVars, inlist, walkVars>>
      /\ Put("word") /\ name' = [name EXCEPT ![here] = n]
      /\ smudged' = [smudged EXCEPT ![here] = TRUE] /\ smudge' = here
      /\ state' = "compile" /\ open' = open + 1 /\ open < MaxOpen
      /\ ~InDefinition /\ state = "interpret"
  BY <1>1 DEF Begin, Settled
<1>3. /\ here \in Addr /\ here' = here + 1 /\ here' \in First..MaxHere + 1
      /\ kind' = [kind EXCEPT ![here] = "word"]
      /\ kind' \in [Addr -> {"free", "data", "list", "word", "marker"}]
      /\ Lists' = Lists
      /\ \A a \in Addr : inlist[a] # Null => a < here /\ inlist[a] < here
  BY <1>2, PutFacts
<1>4. TypeOK'
  <2>1. name' \in [Addr -> Names \cup {Anon}] /\ smudged' \in [Addr -> BOOLEAN]
    BY <1>2, <1>3 DEF TypeOK
  <2>2. open' \in 0..MaxOpen /\ smudge' \in Addr
    BY <1>2, <1>3 DEF TypeOK
  <2> QED
    BY <1>2, <1>3, <2>1, <2>2 DEF TypeOK
<1>5. ChainExact'
  BY <1>2, <1>3 DEF ChainExact
<1>6. LiveInv'
  BY <1>2, <1>3 DEF LiveInv, TypeOK
<1>7. ListsInv'
  BY <1>2, <1>3 DEF ListsInv, SavedLists
<1>8. OpenInv'
  <2>1. smudged'[here] /\ \A a \in Addr : a # here => smudged'[a] = smudged[a]
    BY <1>2, <1>3 DEF TypeOK
  <2>2. InDefinition'
    BY <1>2, <1>3, <2>1 DEF TypeOK
  <2>3. \A a \in Addr : a >= here' => ~smudged'[a]
    BY <1>2, <1>3, <2>1 DEF OpenInv
  <2> QED
    BY <1>2, <1>3, <2>2, <2>3 DEF OpenInv
<1>9. WalkInv' /\ LookInv' /\ ForgetInv'
  BY <1>2, RestingWalk DEF Resting, WalkInv
<1> QED
  BY <1>4, <1>5, <1>6, <1>7, <1>8, <1>9

(* A definition younger than all others becomes the head of its list.      *)
LEMMA InsertFacts ==
  ASSUME TypeOK, ChainExact, NEW l \in Lists, NEW w \in Addr, Insert(l, w),
         \A a \in Addr : inlist[a] # Null => a < w
  PROVE  /\ link' \in [Addr -> Addr \cup {Null}] /\ head' \in [Addr -> Addr \cup {Null}]
         /\ inlist' \in [Addr -> Addr \cup {Null}]
         /\ inlist' = [inlist EXCEPT ![w] = l]
         /\ \A k \in Lists : Top(head'[k], Members(k)')
         /\ \A k \in Lists : \A a \in Members(k)' :
              Top(link'[a], {b \in Members(k)' : b < a})
<1>0. /\ link \in [Addr -> Addr \cup {Null}] /\ head \in [Addr -> Addr \cup {Null}]
      /\ inlist \in [Addr -> Addr \cup {Null}] /\ l \in Addr /\ l # Null
  <2>1. l \in Addr /\ l # Null
    OBVIOUS
  <2>2. /\ link \in [Addr -> Addr \cup {Null}] /\ head \in [Addr -> Addr \cup {Null}]
        /\ inlist \in [Addr -> Addr \cup {Null}]
    BY DEF TypeOK
  <2> QED
    BY <2>1, <2>2
<1>1. /\ link' = [link EXCEPT ![w] = head[l]] /\ head' = [head EXCEPT ![l] = w]
      /\ inlist' = [inlist EXCEPT ![w] = l] /\ inlist[w] = Null
  BY DEF Insert
<1>2. /\ link' \in [Addr -> Addr \cup {Null}] /\ head' \in [Addr -> Addr \cup {Null}]
      /\ inlist' \in [Addr -> Addr \cup {Null}]
  BY <1>0, <1>1
<1>3. /\ Members(l)' = Members(l) \cup {w}
      /\ \A k \in Lists : k # l => Members(k)' = Members(k)
  BY <1>0, <1>1
<1>4. \A k \in Lists : Top(head'[k], Members(k)')
  <2> TAKE k \in Lists
  <2>1. CASE k = l
    BY <1>0, <1>1, <1>3, <2>1
  <2>2. CASE k # l
    BY <1>0, <1>1, <1>3, <2>2 DEF ChainExact
  <2> QED
    BY <2>1, <2>2
<1>5. ASSUME NEW k \in Lists, NEW a \in Members(k)'
      PROVE  Top(link'[a], {b \in Members(k)' : b < a})
  <2>1. CASE a = w
    <3>1. k = l /\ {b \in Members(k)' : b < a} = Members(l)
      BY <1>0, <1>1, <1>3, <2>1, <1>5
    <3>2. link'[a] = head[l]
      BY <1>0, <1>1, <2>1
    <3> QED
      BY <3>1, <3>2 DEF ChainExact
  <2>2. CASE a # w
    <3>1. a \in Members(k) /\ link'[a] = link[a]
      BY <1>0, <1>1, <1>5, <2>2
    <3>2. {b \in Members(k)' : b < a} = {b \in Members(k) : b < a}
      BY <1>0, <1>1, <1>3, <3>1
    <3> QED
      BY <3>1, <3>2 DEF ChainExact
  <2> QED
    BY <2>1, <2>2
<1> QED
  BY <1>0, <1>1, <1>2, <1>4, <1>5

LEMMA CreateStep == ASSUME Careful, IInv, Create \/ Marker PROVE IInv'
<1> USE DEF IInv, Ready, listVars, walkVars, Careful
<1>1. PICK n \in Names, k \in {"word", "marker"} :
        /\ Define(n, k)
        /\ k = "word" => UNCHANGED saved
        /\ k = "marker" => saved' = [saved EXCEPT ![here] =
                                       [current |-> current, order |-> order]]
  BY DEF Create, Marker
<1>2. /\ op = "idle" /\ found' = Null /\ Put(k) /\ Insert(current, here)
      /\ UNCHANGED <<smudged, listVars, state, open, walkVars>>
      /\ name' = [name EXCEPT ![here] = n] /\ smudge' = here
      /\ ~InDefinition /\ state = "interpret"
  BY <1>1 DEF Define, Settled
<1>3. /\ here \in Addr /\ here' = here + 1 /\ here' \in First..MaxHere + 1
      /\ kind' = [kind EXCEPT ![here] = k]
      /\ kind' \in [Addr -> {"free", "data", "list", "word", "marker"}]
      /\ Lists' = Lists
      /\ \A a \in Addr : inlist[a] # Null => a < here /\ inlist[a] < here
  BY <1>2, PutFacts
<1>4. current \in Lists
  BY DEF ListsInv
<1>5. /\ link' \in [Addr -> Addr \cup {Null}] /\ head' \in [Addr -> Addr \cup {Null}]
      /\ inlist' \in [Addr -> Addr \cup {Null}]
      /\ inlist' = [inlist EXCEPT ![here] = current]
      /\ \A l \in Lists : Top(head'[l], Members(l)')
      /\ \A l \in Lists : \A a \in Members(l)' :
           Top(link'[a], {b \in Members(l)' : b < a})
  BY <1>2, <1>3, <1>4, InsertFacts
<1>6. saved' \in [Addr -> [current : Addr, order : Seq(Addr)]]
  <2>1. [current |-> current, order |-> order] \in [current : Addr, order : Seq(Addr)]
    BY DEF TypeOK
  <2> QED
    <3>1. saved \in [Addr -> [current : Addr, order : Seq(Addr)]]
      BY DEF TypeOK
    <3>2. ASSUME NEW b \in [current : Addr, order : Seq(Addr)],
                 saved' = [saved EXCEPT ![here] = b]
          PROVE  saved' \in [Addr -> [current : Addr, order : Seq(Addr)]]
      <4> HIDE DEF Addr
      <4> DEFINE Body == [current : Addr, order : Seq(Addr)]
      <4>1. b \in Body /\ saved \in [Addr -> Body] /\ saved' = [saved EXCEPT ![here] = b]
        BY <3>1, <3>2
      <4> HIDE DEF Body
      <4>2. saved' \in [Addr -> Body]
        BY <4>1
      <4> QED
        BY <4>2 DEF Body
    <3>3. CASE k = "word"
      BY <1>1, <3>1, <3>3
    <3>4. CASE k = "marker"
      BY <1>1, <2>1, <3>2, <3>4
    <3> QED
      BY <3>3, <3>4
<1>7. TypeOK'
  <2>1. name' \in [Addr -> Names \cup {Anon}]
    BY <1>2, <1>3 DEF TypeOK
  <2> QED
    BY <1>2, <1>3, <1>5, <1>6, <2>1 DEF TypeOK
<1>8. ChainExact'
  BY <1>3, <1>5 DEF ChainExact
<1>9. LiveInv'
  <2> SUFFICES ASSUME NEW a \in Addr, inlist'[a] # Null
               PROVE  /\ inlist'[a] \in Lists /\ inlist'[a] < a /\ a < here'
                      /\ name'[a] \in Names /\ ~smudged[a]
    BY <1>2, <1>3 DEF LiveInv
  <2>1. CASE a = here
    <3>1. inlist'[a] = current /\ name'[a] = n /\ ~smudged[a]
      BY <1>2, <1>3, <1>5, <2>1 DEF TypeOK, OpenInv
    <3> QED
      BY <1>3, <1>4, <2>1, <3>1
  <2>2. CASE a # here
    <3>1. inlist'[a] = inlist[a] /\ name'[a] = name[a]
      BY <1>2, <1>3, <1>5, <2>2 DEF TypeOK
    <3> QED
      BY <1>2, <1>3, <3>1 DEF LiveInv
  <2> QED
    BY <2>1, <2>2
<1>10. ListsInv'
  <2>1. ASSUME NEW m \in Addr, inlist'[m] # Null, kind'[m] = "marker",
               NEW l \in SavedLists(m)'
        PROVE  l < m /\ kind'[l] = "list"
    <3>1. CASE m = here
      <4>1. saved'[m] = [current |-> current, order |-> order]
        BY <1>1, <1>3, <2>1, <3>1 DEF TypeOK
      <4>2. l \in Lists
        BY <2>1, <4>1 DEF SavedLists, ListsInv
      <4> QED
        BY <1>3, <3>1, <4>2
    <3>2. CASE m # here
      <4>1. saved'[m] = saved[m] /\ inlist[m] # Null /\ kind[m] = "marker"
        <5>1. inlist'[m] = inlist[m] /\ kind'[m] = kind[m]
          BY <1>3, <1>5, <3>2 DEF TypeOK
        <5> QED
          BY <1>1, <2>1, <3>2, <5>1 DEF TypeOK
      <4>2. l \in SavedLists(m)
        BY <2>1, <4>1 DEF SavedLists
      <4> QED
        BY <1>3, <4>1, <4>2 DEF ListsInv
    <3> QED
      BY <3>1, <3>2
  <2>2. Forth \in Lists' /\ current' \in Lists' /\ \A i \in DOMAIN order' : order'[i] \in Lists'
    BY <1>2, <1>3 DEF ListsInv
  <2> QED
    BY <2>1, <2>2 DEF ListsInv
<1>11. OpenInv'
  <2>1. ~InDefinition'
    BY <1>2, <1>3 DEF OpenInv
  <2> QED
    BY <1>2, <1>3, <2>1 DEF OpenInv
<1>12. WalkInv' /\ LookInv' /\ ForgetInv'
  BY <1>2, RestingWalk DEF Resting, WalkInv
<1> QED
  BY <1>7, <1>8, <1>9, <1>10, <1>11, <1>12

LEMMA SemicolonStep == ASSUME Careful, IInv, Semicolon PROVE IInv'
<1> USE DEF IInv, Ready, listVars, walkVars, Careful
<1>1. /\ op = "idle" /\ found' = Null /\ Put("data") /\ state = "compile"
      /\ UNCHANGED <<name, saved, listVars, smudge, walkVars>>
      /\ smudged' = [smudged EXCEPT ![smudge] = FALSE]
      /\ state' = "interpret" /\ open > 0 /\ open' = open - 1
  BY DEF Semicolon
<1>2. /\ here \in Addr /\ here' = here + 1 /\ here' \in First..MaxHere + 1
      /\ kind' = [kind EXCEPT ![here] = "data"]
      /\ kind' \in [Addr -> {"free", "data", "list", "word", "marker"}]
      /\ Lists' = Lists
      /\ \A a \in Addr : inlist[a] # Null => a < here /\ inlist[a] < here
  BY <1>1, PutFacts
<1>3. /\ current \in Lists /\ smudge \in Addr /\ InDefinition
      /\ \A a \in Addr : inlist[a] # Null => a < smudge
      /\ \A l \in Lists : l < smudge
  BY <1>1 DEF ListsInv, OpenInv, TypeOK
<1>4. /\ link' \in [Addr -> Addr \cup {Null}] /\ head' \in [Addr -> Addr \cup {Null}]
      /\ inlist' \in [Addr -> Addr \cup {Null}]
      /\ \/ inlist' = [inlist EXCEPT ![smudge] = current] /\ name[smudge] # Anon
         \/ inlist' = inlist
      /\ \A l \in Lists : Top(head'[l], Members(l)')
      /\ \A l \in Lists : \A a \in Members(l)' :
           Top(link'[a], {b \in Members(l)' : b < a})
  <2>1. CASE name[smudge] = Anon
    <3>1. UNCHANGED <<link, head, inlist>>
      BY <2>1 DEF Semicolon
    <3>2. Lists' = Lists /\ \A l \in Lists : Members(l)' = Members(l)
      BY <1>2, <3>1
    <3>3. /\ link \in [Addr -> Addr \cup {Null}] /\ head \in [Addr -> Addr \cup {Null}]
          /\ inlist \in [Addr -> Addr \cup {Null}]
      BY DEF TypeOK
    <3> QED
      BY <3>1, <3>2, <3>3 DEF ChainExact
  <2>2. CASE name[smudge] # Anon
    <3>1. Insert(current, smudge)
      BY <2>2 DEF Semicolon
    <3> QED
      BY <1>3, <2>2, <3>1, InsertFacts
  <2> QED
    BY <2>1, <2>2
<1>5. TypeOK'
  <2>1. smudged' \in [Addr -> BOOLEAN] /\ open' \in 0..MaxOpen
    BY <1>1 DEF TypeOK
  <2> QED
    BY <1>1, <1>2, <1>4, <2>1 DEF TypeOK
<1>6. ChainExact'
  BY <1>2, <1>4 DEF ChainExact
<1>7. LiveInv'
  <2>1. ~smudged'[smudge] /\ \A a \in Addr : smudged'[a] => smudged[a]
    BY <1>1, <1>3 DEF TypeOK
  <2>2. name[smudge] \in Names \cup {Anon}
    BY <1>3 DEF TypeOK
  <2> SUFFICES ASSUME NEW a \in Addr, inlist'[a] # Null
               PROVE  /\ inlist'[a] \in Lists /\ inlist'[a] < a /\ a < here'
                      /\ name[a] \in Names /\ ~smudged'[a]
    BY <1>1, <1>2 DEF LiveInv
  <2>3. CASE inlist'[a] = inlist[a]
    BY <1>1, <1>2, <2>1, <2>3 DEF LiveInv
  <2>4. CASE inlist'[a] # inlist[a]
    <3>1. a = smudge /\ inlist'[a] = current /\ name[smudge] # Anon
      <4>1. inlist \in [Addr -> Addr \cup {Null}]
        BY DEF TypeOK
      <4> QED
        BY <1>3, <1>4, <2>4, <4>1
    <3> QED
      BY <1>2, <1>3, <2>1, <2>2, <3>1
  <2> QED
    BY <2>3, <2>4
<1>8. ListsInv'
  <2>1. ASSUME NEW m \in Addr, inlist'[m] # Null, kind'[m] = "marker",
               NEW l \in SavedLists(m)'
        PROVE  l < m /\ kind'[l] = "list"
    <3>1. m # here /\ kind[m] = "marker" /\ l \in SavedLists(m)
      BY <1>1, <1>2, <2>1 DEF TypeOK, SavedLists
    <3>2. kind[smudge] = "word"
      BY <1>3 DEF OpenInv
    <3>3. inlist[m] # Null
      <4>1. inlist \in [Addr -> Addr \cup {Null}]
        BY DEF TypeOK
      <4> QED
        BY <1>3, <1>4, <2>1, <3>1, <3>2, <4>1
    <3>4. l < m /\ kind[l] = "list"
      BY <3>1, <3>3 DEF ListsInv
    <3>5. l \in Addr
      <4>1. saved[m] \in [current : Addr, order : Seq(Addr)]
        BY DEF TypeOK
      <4> QED
        BY <3>1, <4>1 DEF SavedLists
    <3> QED
      BY <1>2, <3>3, <3>4, <3>5
  <2> QED
    BY <1>1, <1>2, <2>1 DEF ListsInv
<1>9. OpenInv'
  <2>1. ~smudged'[smudge] /\ \A a \in Addr : smudged'[a] => smudged[a]
    BY <1>1, <1>3 DEF TypeOK
  <2> QED
    BY <1>1, <1>2, <2>1 DEF OpenInv
<1>10. WalkInv' /\ LookInv' /\ ForgetInv'
  BY <1>1, RestingWalk DEF Resting, WalkInv
<1> QED
  BY <1>5, <1>6, <1>7, <1>8, <1>9, <1>10

--------------------------------------------------------------------------------
(* Steps that give memory back.                                            *)

(* What stands below h stays.                                              *)
LEMMA KeepFacts ==
  ASSUME TypeOK, NEW h \in First..MaxHere + 1, h <= here, KeepCells(h)
  PROVE  /\ kind' \in [Addr -> {"free", "data", "list", "word", "marker"}]
         /\ name' \in [Addr -> Names \cup {Anon}]
         /\ link' \in [Addr -> Addr \cup {Null}]
         /\ smudged' \in [Addr -> BOOLEAN]
         /\ saved' \in [Addr -> [current : Addr, order : Seq(Addr)]]
         /\ \A a \in Addr : a < h =>
              /\ kind'[a] = kind[a] /\ name'[a] = name[a] /\ link'[a] = link[a]
              /\ smudged'[a] = smudged[a] /\ saved'[a] = saved[a]
         /\ \A a \in Addr : a >= h => ~smudged'[a] /\ kind'[a] = "free"
         /\ here' = h => Lists' = {l \in Lists : l < h}
<1>1. kind' \in [Addr -> {"free", "data", "list", "word", "marker"}]
  BY DEF KeepCells, TypeOK
<1>2. name' \in [Addr -> Names \cup {Anon}] /\ link' \in [Addr -> Addr \cup {Null}]
  BY DEF KeepCells, TypeOK
<1>3. smudged' \in [Addr -> BOOLEAN]
  BY DEF KeepCells, TypeOK
<1>4. saved' \in [Addr -> [current : Addr, order : Seq(Addr)]]
  <2>1. NoBody \in [current : Addr, order : Seq(Addr)]
    BY DEF NoBody, Forth, First
  <2>2. \A a \in Addr : saved[a] \in [current : Addr, order : Seq(Addr)]
    BY DEF TypeOK
  <2> HIDE DEF Addr
  <2> QED
    BY <2>1, <2>2 DEF KeepCells
<1>5. \A a \in Addr : a < h =>
        /\ kind'[a] = kind[a] /\ name'[a] = name[a] /\ link'[a] = link[a]
        /\ smudged'[a] = smudged[a] /\ saved'[a] = saved[a]
  BY DEF KeepCells
<1>6. \A a \in Addr : a >= h => ~smudged'[a] /\ kind'[a] = "free"
  BY DEF KeepCells
<1>7. here' = h => Lists' = {l \in Lists : l < h}
  <2>1. here \in Nat
    BY DEF TypeOK
  <2> QED
    BY <2>1, <1>5, <1>6
<1> QED
  BY <1>1, <1>2, <1>3, <1>4, <1>5, <1>6, <1>7

(* An error, or QUIT, gives back at most the open definition, and nothing  *)
(* that can be found is in it.                                             *)
LEMMA AbortFacts ==
  ASSUME TypeOK, ChainExact, LiveInv, ListsInv, OpenInv, op # "marker",
         AbortDefinition, state' = "interpret", open' \in {0, open},
         UNCHANGED <<listVars, smudge, inlist>>, op' = "idle",
         target' \in Names \cup {Anon}, path' \in Seq(Addr), index' \in 0..Len(path'),
         list' = Null, cursor' = Null, found' = Null
  PROVE  TypeOK' /\ ChainExact' /\ LiveInv' /\ ListsInv' /\ OpenInv'
<1> DEFINE h == IF state = "compile" /\ smudged[smudge] THEN smudge ELSE here
<1>1. KeepBelow(h)
  BY DEF AbortDefinition
<1>2. /\ h \in First..MaxHere + 1 /\ h <= here
      /\ \A a \in Addr : inlist[a] # Null => a < h
      /\ \A l \in Lists : l < h
  <2>1. here \in First..MaxHere + 1 /\ smudge \in Addr
    BY DEF TypeOK
  <2>2. CASE state = "compile" /\ smudged[smudge]
    <3>1. smudge > Forth
      BY <2>2 DEF OpenInv, ListsInv
    <3> QED
      BY <2>1, <2>2, <3>1 DEF OpenInv, First, Forth
  <2>3. CASE ~(state = "compile" /\ smudged[smudge])
    BY <2>1, <2>3 DEF LiveInv
  <2> QED
    BY <2>2, <2>3
<1> HIDE DEF h
<1>3. here' = h /\ KeepCells(h) /\ head' = [l \in Addr |-> IF l < h THEN head[l] ELSE Null]
  BY <1>1 DEF KeepBelow
<1>4. /\ kind' \in [Addr -> {"free", "data", "list", "word", "marker"}]
      /\ name' \in [Addr -> Names \cup {Anon}]
      /\ link' \in [Addr -> Addr \cup {Null}]
      /\ smudged' \in [Addr -> BOOLEAN]
      /\ saved' \in [Addr -> [current : Addr, order : Seq(Addr)]]
      /\ \A a \in Addr : a < h =>
              /\ kind'[a] = kind[a] /\ name'[a] = name[a] /\ link'[a] = link[a]
              /\ smudged'[a] = smudged[a] /\ saved'[a] = saved[a]
      /\ \A a \in Addr : a >= h => ~smudged'[a] /\ kind'[a] = "free"
      /\ Lists' = Lists
  BY <1>2, <1>3, KeepFacts
<1>5. TypeOK'
  <2>1. head \in [Addr -> Addr \cup {Null}] /\ open \in 0..MaxOpen
    BY DEF TypeOK
  <2>2. head' \in [Addr -> Addr \cup {Null}]
    BY <1>3, <2>1
  <2>3. open' \in 0..MaxOpen
    BY <2>1
  <2> QED
    BY <1>2, <1>3, <1>4, <2>2, <2>3 DEF TypeOK, listVars
<1>6. ChainExact'
  <2>1. \A l \in Lists : head'[l] = head[l] /\ Members(l)' = Members(l)
    BY <1>2, <1>3 DEF listVars
  <2>2. \A l \in Lists : \A a \in Members(l) : link'[a] = link[a]
    <3> TAKE l \in Lists
    <3> TAKE a \in Members(l)
    <3>1. a \in Addr /\ a < h
      BY <1>2
    <3> QED
      BY <1>4, <3>1
  <2> SUFFICES ASSUME NEW l \in Lists
               PROVE  /\ Top(head'[l], Members(l)')
                      /\ \A a \in Members(l)' : Top(link'[a], {b \in Members(l)' : b < a})
    BY <1>4 DEF ChainExact
  <2>3. \A a \in Members(l) : Top(link[a], {b \in Members(l) : b < a})
    BY DEF ChainExact
  <2>4. Members(l)' = Members(l) /\ head'[l] = head[l] /\ Top(head[l], Members(l))
    BY <2>1 DEF ChainExact
  <2> HIDE DEF Members, Top
  <2> QED
    BY <2>2, <2>3, <2>4
<1>7. LiveInv'
  BY <1>2, <1>3, <1>4 DEF LiveInv
<1>8. ListsInv'
  <2>1. ASSUME NEW m \in Addr, inlist[m] # Null, kind'[m] = "marker",
               NEW l \in SavedLists(m)'
        PROVE  l < m /\ kind'[l] = "list"
    <3>1. saved'[m] = saved[m] /\ kind[m] = "marker"
      BY <1>2, <1>4, <2>1
    <3>2. l \in SavedLists(m) /\ l \in Addr
      <4>1. saved[m] \in [current : Addr, order : Seq(Addr)]
        BY DEF TypeOK
      <4> QED
        BY <2>1, <3>1, <4>1 DEF SavedLists
    <3>3. l < m /\ kind[l] = "list" /\ m < h
      BY <1>2, <2>1, <3>1, <3>2 DEF ListsInv
    <3> QED
      BY <1>2, <1>4, <3>2, <3>3
  <2> QED
    BY <1>4, <2>1 DEF ListsInv, listVars
<1>9. OpenInv'
  <2>1. InDefinition' => InDefinition
    BY <1>2, <1>3, <1>4 DEF TypeOK
  <2>2. InDefinition' => kind'[smudge] = kind[smudge]
    BY <1>3, <1>4 DEF TypeOK
  <2> QED
    BY <1>3, <1>4, <2>1, <2>2 DEF OpenInv
<1> QED
  BY <1>5, <1>6, <1>7, <1>8, <1>9

LEMMA AbortSteps == ASSUME Careful, IInv, Abort \/ Quit \/ MissError PROVE IInv'
<1> USE DEF IInv, Ready, Done, Missed, walkVars
<1>1. /\ AbortDefinition /\ state' = "interpret" /\ open' \in {0, open}
      /\ UNCHANGED <<listVars, smudge, inlist>> /\ op' = "idle" /\ op # "marker"
      /\ target' \in Names \cup {Anon} /\ path' \in Seq(Addr) /\ index' \in 0..Len(path')
      /\ list' = Null /\ cursor' = Null /\ found' = Null
  <2>1. CASE Abort \/ Quit
    BY <2>1 DEF Abort, Quit, TypeOK, WalkInv
  <2>2. CASE MissError
    BY <2>2 DEF MissError
  <2> QED
    BY <2>1, <2>2
<1>2. TypeOK' /\ ChainExact' /\ LiveInv' /\ ListsInv' /\ OpenInv'
  BY <1>1, AbortFacts
<1>3. WalkInv' /\ LookInv' /\ ForgetInv'
  BY <1>1 DEF WalkInv, LookInv, ForgetInv
<1> QED
  BY <1>2, <1>3

--------------------------------------------------------------------------------
(* A lookup begins.                                                        *)
LEMMA LookStarts ==
  ASSUME Careful, IInv, NEW n \in Names, Interpret(n) \/ Forget(n) \/ SearchWordlist(n)
  PROVE  IInv'
<1> USE DEF IInv, Look, memVars, cellVars, listVars, compVars, Careful
<1>1. PICK p \in Seq(Lists) :
        /\ op = "idle" /\ found' = Null /\ op' \in Looking
        /\ target' = n /\ path' = p /\ index' = Len(p) /\ list' = Null /\ cursor' = Null
        /\ p = order \/ \E l \in Addr : p = <<l>>
        /\ UNCHANGED <<here, memVars, listVars, compVars, inlist>>
  <2>1. order \in Seq(Lists)
    BY DEF ListsInv, TypeOK
  <2>2. CASE Interpret(n)
    BY <2>1, <2>2 DEF Interpret
  <2>3. CASE Forget(n)
    BY <2>1, <2>3 DEF Forget
  <2>4. CASE SearchWordlist(n)
    <3>1. PICK l \in Lists : Look("search", n, <<l>>)
      BY <2>4 DEF SearchWordlist
    <3>2. <<l>> \in Seq(Lists) /\ l \in Addr
      OBVIOUS
    <3> QED
      BY <3>1, <3>2
  <2> QED
    BY <2>2, <2>3, <2>4
<1>2. TypeOK'
  <2>1. p \in Seq(Addr) /\ index' \in 0..Len(p)
    BY <1>1
  <2> QED
    BY <1>1, <2>1 DEF TypeOK
<1>3. ChainExact' /\ LiveInv' /\ ListsInv'
  BY <1>1 DEF ChainExact, LiveInv, ListsInv, SavedLists
<1>4. op' = "tick" => Settled /\ \A a \in Named(n) : MayForget(a)
  BY DEF Interpret, Forget, SearchWordlist
<1>5. op' = "interpret" /\ state = "interpret" =>
        \A m \in Named(n) : kind[m] = "marker" => Settled /\ MayRestore(m)
  BY DEF Interpret, Forget, SearchWordlist
<1>6. OpenInv'
  BY <1>1, <1>4 DEF OpenInv, Settled
<1>7. WalkInv'
  BY <1>1 DEF WalkInv
<1>8. LookInv'
  <2>1. \A i \in DOMAIN p : p[i] \in Lists /\ ~(i > Len(p))
    BY <1>1
  <2>2. Lists' = Lists
    BY <1>1
  <2> QED
    BY <1>1, <2>1, <2>2 DEF LookInv
<1>9. ForgetInv'
  <2>1. /\ Named(n)' = Named(n)
        /\ \A a \in Addr : (MayForget(a)' <=> MayForget(a)) /\ (MayRestore(a)' <=> MayRestore(a))
    BY <1>1 DEF Named, MayForget, MayRestore, Covered, SavedLists
  <2>2. op' = "tick" => \A a \in Named(n)' : MayForget(a)'
    BY <1>4, <2>1 DEF Named
  <2>3. Settled' <=> Settled
    BY <1>1 DEF Settled
  <2>4. op' = "interpret" /\ state' = "interpret" =>
          \A m \in Named(n)' : kind'[m] = "marker" => Settled' /\ MayRestore(m)'
    BY <1>1, <1>5, <2>1, <2>3 DEF Named
  <2>5. target' = n /\ op' \notin {"forget", "restore", "marker"}
    BY <1>1
  <2> QED
    BY <2>2, <2>4, <2>5 DEF ForgetInv
<1> QED
  BY <1>2, <1>3, <1>6, <1>7, <1>8, <1>9

(* A lookup ends with a word, or without, that is compiled or has no       *)
(* effect on the dictionary.                                               *)
LEMMA LookEnds == ASSUME Careful, IInv, HitWord \/ MissWord PROVE IInv'
<1> USE DEF IInv, Hit, Done, Missed, listVars, compVars
<1>1. /\ op \in Looking /\ op' = "idle" /\ target' = Anon /\ path' = <<>> /\ index' = 0
      /\ list' = Null /\ cursor' = Null /\ found' \in Addr \cup {Null}
      /\ UNCHANGED <<name, link, smudged, saved, head, listVars, compVars, inlist>>
      /\ Put("data") \/ UNCHANGED <<here, kind>>
  BY DEF HitWord, MissWord, TypeOK
<1>2. /\ here' \in First..MaxHere + 1 /\ here <= here'
      /\ kind' \in [Addr -> {"free", "data", "list", "word", "marker"}]
      /\ \A a \in Addr : a # here => kind'[a] = kind[a]
      /\ Lists' = Lists
      /\ \A a \in Addr : inlist[a] # Null => a < here /\ inlist[a] < here
  <2>1. CASE Put("data")
    <3>1. /\ here \in Addr /\ here' = here + 1 /\ here' \in First..MaxHere + 1
          /\ kind' = [kind EXCEPT ![here] = "data"]
          /\ kind' \in [Addr -> {"free", "data", "list", "word", "marker"}]
          /\ Lists' = Lists
          /\ \A a \in Addr : inlist[a] # Null => a < here /\ inlist[a] < here
      BY <1>1, <2>1, PutFacts
    <3>2. kind \in [Addr -> {"free", "data", "list", "word", "marker"}]
      BY DEF TypeOK
    <3> QED
      BY <3>1, <3>2
  <2>2. CASE UNCHANGED <<here, kind>>
    <3>1. /\ here \in First..MaxHere + 1
          /\ kind \in [Addr -> {"free", "data", "list", "word", "marker"}]
      BY DEF TypeOK
    <3> QED
      BY <1>1, <2>2, <3>1 DEF LiveInv
  <2> QED
    BY <1>1, <2>1, <2>2
<1>10. /\ op # "marker" /\ op' # "marker" /\ op' \notin {"tick", "forget", "restore"}
      /\ UNCHANGED <<name, link, smudged, saved, head, listVars, compVars, inlist>>
  BY <1>1
<1>11. here \in Nat /\ smudge \in Addr /\ smudged \in [Addr -> BOOLEAN]
  BY DEF TypeOK
<1>3. TypeOK'
  <2>1. target' \in Names \cup {Anon} /\ path' \in Seq(Addr) /\ index' \in 0..Len(path')
    BY <1>1
  <2>2. op' = "idle" /\ list' = Null /\ cursor' = Null /\ found' \in Addr \cup {Null}
    BY <1>1
  <2> QED
    BY <1>2, <1>10, <2>1, <2>2 DEF TypeOK
<1>4. ChainExact'
  BY <1>1, <1>2 DEF ChainExact
<1>5. LiveInv'
  <2>1. \A a \in Addr : inlist[a] # Null => a < here'
    BY <1>2, <1>11
  <2> QED
    BY <1>2, <1>10, <2>1 DEF LiveInv
<1>6. ListsInv'
  <2>1. ASSUME NEW m \in Addr, inlist[m] # Null, kind'[m] = "marker",
               NEW l \in SavedLists(m)
        PROVE  l < m /\ kind'[l] = "list"
    <3>1. kind[m] = "marker" /\ m < here
      BY <1>2, <2>1
    <3>2. l \in Addr
      <4>1. saved[m] \in [current : Addr, order : Seq(Addr)]
        BY DEF TypeOK
      <4> QED
        BY <2>1, <4>1 DEF SavedLists
    <3>3. l < m /\ kind[l] = "list"
      BY <2>1, <3>1 DEF ListsInv
    <3> QED
      BY <1>2, <3>1, <3>2, <3>3
  <2> QED
    BY <1>1, <1>2, <2>1 DEF ListsInv, SavedLists
<1>7. OpenInv'
  <2>1. smudge \in Addr /\ (smudged[smudge] => smudge < here)
    BY <1>10, <1>11 DEF OpenInv
  <2>2. InDefinition' <=> InDefinition
    BY <1>10, <1>11, <1>2, <2>1
  <2>3. \A a \in Addr : a >= here' => ~smudged[a]
    BY <1>10, <1>11, <1>2 DEF OpenInv
  <2>4. InDefinition => kind'[smudge] = kind[smudge]
    BY <1>2, <2>1
  <2> QED
    BY <1>10, <1>2, <2>2, <2>3, <2>4 DEF OpenInv
<1>8. WalkInv' /\ LookInv' /\ ForgetInv'
  BY <1>1 DEF WalkInv, LookInv, ForgetInv
<1> QED
  BY <1>3, <1>4, <1>5, <1>6, <1>7, <1>8

(* A lookup finds a marker, or what FORGET is to forget.                   *)
LEMMA HitSteps == ASSUME Careful, IInv, HitMarker \/ HitForget PROVE IInv'
<1> USE DEF IInv, Hit, memVars, cellVars, listVars, compVars
<1>1. /\ op \in {"interpret", "tick"} /\ op' \in {"restore", "forget"}
      /\ op' = "restore" <=> op = "interpret"
      /\ cursor # Null /\ name[cursor] = target /\ found' = cursor
      /\ UNCHANGED <<here, memVars, listVars, compVars, target, path, index, inlist>>
      /\ op = "interpret" => /\ state = "interpret" /\ kind[cursor] = "marker"
                             /\ list' = Null /\ cursor' = Null
      /\ op = "tick" => list' = current /\ cursor' = head[current]
  BY DEF HitMarker, HitForget, Match
<1>2. cursor \in Addr /\ inlist[cursor] # Null /\ cursor < here
  BY <1>1 DEF TypeOK, WalkInv, LiveInv
<1>3. cursor \in Named(target)
  BY <1>1, <1>2 DEF Named
<1>4. /\ op = "tick" => MayForget(cursor) /\ state = "interpret" /\ ~InDefinition
      /\ op = "interpret" => MayRestore(cursor) /\ state = "interpret" /\ ~InDefinition
  BY <1>1, <1>3 DEF ForgetInv, OpenInv, Settled, Careful
<1>5. /\ current \in Lists /\ head[current] \in Addr \cup {Null}
      /\ Top(head[current], Members(current))
  BY DEF ListsInv, ChainExact, TypeOK
<1>6. TypeOK'
  <2>1. list' \in Addr \cup {Null} /\ cursor' \in Addr \cup {Null} /\ found' \in Addr
    BY <1>1, <1>2, <1>5
  <2> QED
    BY <1>1, <2>1 DEF TypeOK
<1>7. ChainExact' /\ LiveInv' /\ ListsInv'
  BY <1>1 DEF ChainExact, LiveInv, ListsInv, SavedLists
<1>8. OpenInv'
  BY <1>1, <1>4 DEF OpenInv
<1>9. WalkInv'
  <2>1. Lists' = Lists /\ Members(current)' = Members(current)
    BY <1>1
  <2>2. CASE op = "interpret"
    BY <1>1, <2>2 DEF WalkInv
  <2>3. CASE op = "tick"
    <3>1. here \in Nat
      BY DEF TypeOK
    <3> QED
      BY <1>1, <1>2, <1>5, <2>1, <2>3, <3>1 DEF WalkInv
  <2> QED
    BY <1>1, <2>2, <2>3
<1>10. LookInv'
  BY <1>1 DEF LookInv
<1>11. ForgetInv'
  <2>1. \A a \in Addr : (MayForget(a)' <=> MayForget(a)) /\ (MayRestore(a)' <=> MayRestore(a))
    BY <1>1 DEF MayForget, MayRestore, Covered, SavedLists
  <2>2. op' = "forget" => MayForget(found)' /\ list' = current'
    BY <1>1, <1>2, <1>4, <2>1
  <2>3. op' = "restore" => found' \in Addr /\ inlist'[found'] # Null
                             /\ kind'[found'] = "marker" /\ MayRestore(found)'
    BY <1>1, <1>2, <1>4, <2>1
  <2>4. op' \notin {"tick", "interpret", "marker"}
    BY <1>1
  <2> QED
    BY <2>2, <2>3, <2>4 DEF ForgetInv
<1> QED
  BY <1>6, <1>7, <1>8, <1>9, <1>10, <1>11

(* A marker begins to forget.                                              *)
LEMMA RestoreStep == ASSUME Careful, IInv, Restore PROVE IInv'
<1> USE DEF IInv, memVars, cellVars, compVars
<1>1. /\ op = "restore" /\ op' = "marker" /\ order' = <<>> /\ here' = found
      /\ current' = saved[found].current /\ path' = saved[found].order /\ index' = 0
      /\ list' = current' /\ cursor' = head[current']
      /\ UNCHANGED <<memVars, compVars, target, found, inlist>>
  BY DEF Restore
<1>2. /\ found \in Addr /\ inlist[found] # Null /\ kind[found] = "marker"
      /\ Covered(found, SavedLists(found)) /\ found < here /\ Forth < found
      /\ here \in Nat /\ found \in First..MaxHere + 1
  <2>1. found \in Addr /\ inlist[found] # Null /\ kind[found] = "marker" /\ MayRestore(found)
    BY <1>1 DEF ForgetInv
  <2>2. inlist[found] \in Lists /\ inlist[found] < found /\ found < here
    BY <1>1, <2>1 DEF LiveInv
  <2>3. here \in Nat
    BY DEF TypeOK
  <2> QED
    BY <2>1, <2>2, <2>3 DEF MayRestore, Careful, Forth
<1>3. Lists' = {l \in Lists : l < found}
  BY <1>1, <1>2
<1>4. /\ saved[found] \in [current : Addr, order : Seq(Addr)]
      /\ \A l \in SavedLists(found) : l \in Lists'
  <2>1. saved[found] \in [current : Addr, order : Seq(Addr)]
    BY <1>2 DEF TypeOK
  <2>2. \A l \in SavedLists(found) : l \in Addr /\ l < found /\ kind[l] = "list"
    BY <1>2, <2>1 DEF ListsInv, SavedLists
  <2> QED
    BY <1>2, <1>3, <2>1, <2>2
<1>5. current' \in Lists' /\ \A i \in DOMAIN path' : path'[i] \in Lists'
  BY <1>1, <1>4 DEF SavedLists
<1>6. /\ head[current'] \in Addr \cup {Null}
      /\ Top(head[current'], Members(current'))
  BY <1>3, <1>5 DEF ChainExact, TypeOK
<1>7. TypeOK'
  <2>1. /\ order' \in Seq(Addr) /\ current' \in Addr /\ path' \in Seq(Addr)
        /\ index' \in 0..Len(path') /\ cursor' \in Addr \cup {Null} /\ list' \in Addr
    BY <1>1, <1>4, <1>6
  <2> QED
    BY <1>1, <1>2, <2>1 DEF TypeOK
<1>8. ChainExact'
  BY <1>1, <1>3 DEF ChainExact
<1>9. LiveInv'
  <2>1. ASSUME NEW a \in Addr, inlist[a] # Null PROVE inlist[a] \in Lists'
    <3>1. CASE a >= found
      BY <1>2, <1>4, <2>1, <3>1 DEF Covered
    <3>2. CASE a < found
      BY <1>2, <1>3, <2>1, <3>2 DEF LiveInv
    <3> QED
      BY <1>2, <3>1, <3>2
  <2> QED
    BY <1>1, <2>1 DEF LiveInv
<1>10. ListsInv'
  <2>1. Forth \in Lists'
    BY <1>2, <1>3 DEF ListsInv
  <2> QED
    BY <1>1, <1>5, <2>1 DEF ListsInv, SavedLists
<1>11. OpenInv'
  <2>1. state = "interpret" /\ ~InDefinition
    BY <1>1 DEF OpenInv
  <2>2. smudge \in Addr
    BY DEF TypeOK
  <2>3. ~InDefinition'
    BY <1>1, <1>2, <2>1, <2>2
  <2> QED
    BY <1>1, <2>1, <2>3 DEF OpenInv
<1>12. WalkInv'
  BY <1>1, <1>2, <1>5, <1>6 DEF WalkInv
<1>13. LookInv'
  BY <1>1 DEF LookInv
<1>14. ForgetInv'
  <2>1. ASSUME NEW a \in Addr, inlist[a] # Null, a >= found
        PROVE  inlist[a] = list' \/ \E i \in DOMAIN path' : i > index' /\ inlist[a] = path'[i]
    <3>1. inlist[a] \in SavedLists(found)
      BY <1>2, <2>1 DEF Covered
    <3>2. \A i \in DOMAIN path' : i > 0
      BY <1>1, <1>4
    <3> QED
      BY <1>1, <3>1, <3>2 DEF SavedLists
  <2>2. Len(order') = 0 /\ \A i \in DOMAIN order' : order'[i] = path'[i]
    BY <1>1
  <2> QED
    BY <1>1, <1>5, <2>1, <2>2 DEF ForgetInv
<1> QED
  BY <1>7, <1>8, <1>9, <1>10, <1>11, <1>12, <1>13, <1>14

--------------------------------------------------------------------------------
(* The end of hashForget: the chain begins at the youngest that stays.     *)
LEMMA CutFacts ==
  ASSUME IInv, op \in {"forget", "marker"}, Cut
  PROVE  /\ list \in Lists /\ cursor \in Addr \cup {Null} /\ cursor < found
         /\ CutHead \in [Addr -> Addr \cup {Null}]
         /\ inlist' \in [Addr -> Addr \cup {Null}]
         /\ \A a \in Addr : inlist'[a] # Null => inlist'[a] = inlist[a]
         /\ \A a \in Addr : inlist'[a] = list => a < found
         /\ \A l \in Lists : Top(CutHead[l], Members(l)')
         /\ \A l \in Lists : \A a \in Members(l)' :
              Top(link[a], {b \in Members(l)' : b < a})
<1> USE DEF IInv
<1>1. /\ list \in Lists /\ cursor \in Addr \cup {Null} /\ found \in Addr /\ cursor < found
      /\ cursor # Null => cursor \in Members(list)
      /\ \A a \in Members(list) : a > cursor => a >= found
      /\ head \in [Addr -> Addr \cup {Null}] /\ inlist \in [Addr -> Addr \cup {Null}]
  <2>1. /\ cursor \in Addr \cup {Null} /\ head \in [Addr -> Addr \cup {Null}]
        /\ inlist \in [Addr -> Addr \cup {Null}]
    BY DEF TypeOK
  <2>2. list \in Lists /\ found \in Addr /\ \A a \in Members(list) : a > cursor => a >= found
    BY DEF WalkInv
  <2>3. cursor # Null => cursor \in Members(list)
    BY <2>1 DEF WalkInv
  <2> QED
    BY <2>1, <2>2, <2>3 DEF Cut, Young
<1>2. inlist' = [a \in Addr |-> IF inlist[a] = list /\ a >= found THEN Null ELSE inlist[a]]
  BY DEF Cut
<1>3. ASSUME NEW l \in Lists
      PROVE  Members(l)' = IF l = list THEN {a \in Members(l) : a < found} ELSE Members(l)
  BY <1>1, <1>2
<1>4. CutHead \in [Addr -> Addr \cup {Null}] /\ CutHead[list] = cursor
      /\ \A l \in Lists : l # list => CutHead[l] = head[l]
  BY <1>1 DEF CutHead
<1>5. ASSUME NEW l \in Lists PROVE Top(CutHead[l], Members(l)')
  <2>1. CASE l = list
    BY <1>1, <1>3, <1>4, <2>1
  <2>2. CASE l # list
    BY <1>3, <1>4, <2>2 DEF ChainExact
  <2> QED
    BY <2>1, <2>2
<1>6. ASSUME NEW l \in Lists, NEW a \in Members(l)'
      PROVE  Top(link[a], {b \in Members(l)' : b < a})
  <2>1. a \in Members(l) /\ (l = list => a < found)
    BY <1>1, <1>3, <1>6
  <2>2. {b \in Members(l)' : b < a} = {b \in Members(l) : b < a}
    BY <1>1, <1>3, <2>1
  <2> QED
    BY <2>1, <2>2 DEF ChainExact
<1>7. /\ inlist' \in [Addr -> Addr \cup {Null}]
      /\ \A a \in Addr : inlist'[a] # Null => inlist'[a] = inlist[a]
      /\ \A a \in Addr : inlist'[a] = list => a < found
  BY <1>1, <1>2
<1> QED
  BY <1>1, <1>4, <1>5, <1>6, <1>7

(* FORGET, or the last list of a marker: what is left ends below FOUND.    *)
LEMMA ShortenSteps == ASSUME Careful, IInv, ForgetEnds \/ MarkerEnds PROVE IInv'
<1> USE DEF IInv, listVars, compVars
<1>1. /\ op \in {"forget", "marker"} /\ Cut /\ here' = found /\ KeepCells(found)
      /\ head' = [l \in Addr |-> IF l < found THEN CutHead[l] ELSE Null]
      /\ op' = "idle" /\ target' = Anon /\ path' = <<>> /\ index' = 0
      /\ list' = Null /\ cursor' = Null /\ found' = Null
      /\ UNCHANGED <<listVars, compVars>>
  BY DEF ForgetEnds, MarkerEnds, Shorten, Done, Cut, ForgetInv
<1>2. /\ list \in Lists /\ cursor \in Addr \cup {Null} /\ cursor < found
      /\ CutHead \in [Addr -> Addr \cup {Null}]
      /\ inlist' \in [Addr -> Addr \cup {Null}]
      /\ \A a \in Addr : inlist'[a] # Null => inlist'[a] = inlist[a]
      /\ \A a \in Addr : inlist'[a] = list => a < found
      /\ \A l \in Lists : Top(CutHead[l], Members(l)')
      /\ \A l \in Lists : \A a \in Members(l)' :
           Top(link[a], {b \in Members(l)' : b < a})
  BY <1>1, CutFacts
<1>3. /\ here \in Nat /\ here <= MaxHere + 1 /\ found \in Addr /\ found <= here
  BY <1>1 DEF TypeOK, WalkInv
<1>4. /\ current \in Lists /\ current < found
      /\ \A i \in DOMAIN order : order[i] \in Lists /\ order[i] < found
  <2>1. CASE op = "forget"
    BY <2>1 DEF ListsInv, ForgetInv, MayForget, Careful
  <2>2. CASE op = "marker"
    BY <1>1, <1>3, <2>2 DEF ListsInv, ForgetInv
  <2> QED
    BY <1>1, <2>1, <2>2
<1>5. \A a \in Addr : inlist'[a] # Null => a < found
  <2> SUFFICES ASSUME NEW a \in Addr, inlist'[a] # Null, a >= found PROVE FALSE
    BY <1>3
  <2>1. inlist[a] = inlist'[a] /\ inlist[a] # list
    BY <1>2, <1>3
  <2>2. CASE op = "forget"
    BY <2>1, <2>2 DEF ForgetInv, MayForget, Covered, Careful
  <2>3. CASE op = "marker"
    <3>1. MarkerEnds
      BY <2>3 DEF ForgetEnds
    <3>2. index = Len(path) /\ path \in Seq(Addr)
      BY <3>1 DEF MarkerEnds, TypeOK
    <3>3. \A i \in DOMAIN path : ~(i > index)
      BY <3>2
    <3> QED
      BY <2>1, <2>3, <3>3 DEF ForgetInv
  <2> QED
    BY <1>1, <2>2, <2>3
<1>6. found \in First..MaxHere + 1
  BY <1>3, <1>4
<1>7. /\ kind' \in [Addr -> {"free", "data", "list", "word", "marker"}]
      /\ name' \in [Addr -> Names \cup {Anon}]
      /\ link' \in [Addr -> Addr \cup {Null}]
      /\ smudged' \in [Addr -> BOOLEAN]
      /\ saved' \in [Addr -> [current : Addr, order : Seq(Addr)]]
      /\ \A a \in Addr : a < found =>
              /\ kind'[a] = kind[a] /\ name'[a] = name[a] /\ link'[a] = link[a]
              /\ smudged'[a] = smudged[a] /\ saved'[a] = saved[a]
      /\ \A a \in Addr : a >= found => ~smudged'[a] /\ kind'[a] = "free"
      /\ Lists' = {l \in Lists : l < found}
  BY <1>1, <1>3, <1>6, KeepFacts
<1>8. TypeOK'
  <2>1. head' \in [Addr -> Addr \cup {Null}]
    BY <1>1, <1>2
  <2>2. path' \in Seq(Addr) /\ index' \in 0..Len(path')
    BY <1>1
  <2> QED
    BY <1>1, <1>2, <1>6, <1>7, <2>1, <2>2 DEF TypeOK
<1>9. ChainExact'
  <2> SUFFICES ASSUME NEW l \in Lists, l < found
               PROVE  /\ Top(head'[l], Members(l)')
                      /\ \A a \in Members(l)' : Top(link'[a], {b \in Members(l)' : b < a})
    BY <1>7 DEF ChainExact
  <2>1. head'[l] = CutHead[l] /\ Top(CutHead[l], Members(l)')
    BY <1>1, <1>2
  <2>2. ASSUME NEW a \in Members(l)' PROVE Top(link'[a], {b \in Members(l)' : b < a})
    <3>1. link'[a] = link[a]
      BY <1>5, <1>7, <2>2
    <3>2. Top(link[a], {b \in Members(l)' : b < a})
      BY <1>2, <2>2
    <3> HIDE DEF Members, Top
    <3> QED
      BY <3>1, <3>2
  <2> HIDE DEF Members, Top
  <2> QED
    BY <2>1, <2>2
<1>10. LiveInv'
  <2> SUFFICES ASSUME NEW a \in Addr, inlist'[a] # Null
               PROVE  /\ inlist'[a] \in Lists' /\ inlist'[a] < a /\ a < here'
                      /\ name'[a] \in Names /\ ~smudged'[a]
    BY DEF LiveInv
  <2>1. a < found /\ inlist'[a] = inlist[a]
    BY <1>2, <1>5
  <2>2. /\ inlist[a] \in Lists /\ inlist[a] < a /\ name[a] \in Names /\ ~smudged[a]
    BY <2>1 DEF LiveInv
  <2>3. inlist[a] \in Lists'
    <3>1. inlist[a] \in Addr /\ inlist[a] < found
      BY <1>3, <2>1, <2>2
    <3> HIDE DEF Lists
    <3> QED
      BY <1>7, <2>2, <3>1
  <2>4. name'[a] = name[a] /\ smudged'[a] = smudged[a]
    BY <1>7, <2>1
  <2> QED
    BY <1>1, <2>1, <2>2, <2>3, <2>4
<1>11. ListsInv'
  <2>1. Forth \in Lists' /\ current' \in Lists' /\ \A i \in DOMAIN order' : order'[i] \in Lists'
    <3>1. Forth \in Lists /\ Forth < found
      BY <1>6 DEF ListsInv, Forth
    <3> QED
      BY <1>1, <1>4, <1>7, <3>1
  <2>2. ASSUME NEW m \in Addr, inlist'[m] # Null, kind'[m] = "marker",
               NEW l \in SavedLists(m)'
        PROVE  l < m /\ kind'[l] = "list"
    <3>1. m < found /\ inlist[m] # Null /\ saved'[m] = saved[m] /\ kind[m] = "marker"
      BY <1>2, <1>5, <1>7, <2>2
    <3>2. l \in SavedLists(m) /\ l \in Addr
      <4>1. saved[m] \in [current : Addr, order : Seq(Addr)]
        BY DEF TypeOK
      <4> QED
        BY <2>2, <3>1, <4>1 DEF SavedLists
    <3>3. l < m /\ kind[l] = "list"
      BY <3>1, <3>2 DEF ListsInv
    <3>4. l < found
      BY <1>3, <3>1, <3>2, <3>3
    <3> QED
      BY <1>7, <3>2, <3>3, <3>4
  <2> QED
    BY <2>1, <2>2 DEF ListsInv
<1>12. OpenInv'
  <2>1. state = "interpret" /\ ~InDefinition
    BY <1>1 DEF OpenInv
  <2>2. smudge \in Addr
    BY DEF TypeOK
  <2>3. smudge' = smudge /\ open' = open /\ here' = found
    BY <1>1
  <2>4. smudge < found => smudged'[smudge] = smudged[smudge] /\ smudge < here
    BY <1>3, <1>7, <2>2
  <2>5. ~InDefinition'
    BY <2>1, <2>3, <2>4
  <2> QED
    BY <1>1, <1>7, <2>1, <2>5 DEF OpenInv
<1>13. WalkInv' /\ LookInv' /\ ForgetInv'
  BY <1>1 DEF WalkInv, LookInv, ForgetInv
<1> QED
  BY <1>8, <1>9, <1>10, <1>11, <1>12, <1>13

(* A marker goes on with the next list it knows.                           *)
LEMMA NextSavedStep == ASSUME Careful, IInv, NextSaved PROVE IInv'
<1> USE DEF IInv, cellVars, compVars
<1>1. /\ op = "marker" /\ Cut /\ index < Len(path) /\ head' = CutHead
      /\ order' = Append(order, path[index + 1])
      /\ list' = path[index + 1] /\ cursor' = CutHead[list'] /\ index' = index + 1
      /\ UNCHANGED <<here, cellVars, current, op, target, path, found, compVars>>
  BY DEF NextSaved, Cut
<1>2. /\ list \in Lists /\ cursor \in Addr \cup {Null} /\ cursor < found
      /\ CutHead \in [Addr -> Addr \cup {Null}]
      /\ inlist' \in [Addr -> Addr \cup {Null}]
      /\ \A a \in Addr : inlist'[a] # Null => inlist'[a] = inlist[a]
      /\ \A a \in Addr : inlist'[a] = list => a < found
      /\ \A l \in Lists : Top(CutHead[l], Members(l)')
      /\ \A l \in Lists : \A a \in Members(l)' :
           Top(link[a], {b \in Members(l)' : b < a})
  BY <1>1, CutFacts
<1>3. /\ path \in Seq(Addr) /\ order \in Seq(Addr) /\ index \in Nat /\ index + 1 \in DOMAIN path
      /\ found \in Addr /\ path[index + 1] \in Lists /\ Len(order) = index
  <2>1. path \in Seq(Addr) /\ order \in Seq(Addr) /\ index \in 0..Len(path) /\ found \in Addr
    BY <1>1 DEF TypeOK, WalkInv
  <2>2. index + 1 \in DOMAIN path
    BY <1>1, <2>1
  <2> QED
    BY <1>1, <2>1, <2>2 DEF ForgetInv
<1>4. Lists' = Lists
  BY <1>1
<1>5. TypeOK'
  <2>1. order' \in Seq(Addr) /\ index' \in 0..Len(path) /\ cursor' \in Addr \cup {Null}
    BY <1>1, <1>2, <1>3
  <2> QED
    BY <1>1, <1>2, <1>3, <2>1 DEF TypeOK
<1>6. ChainExact'
  BY <1>1, <1>2, <1>4 DEF ChainExact
<1>7. LiveInv'
  BY <1>1, <1>2, <1>4 DEF LiveInv
<1>8. ListsInv'
  <2>1. \A i \in DOMAIN order' : order'[i] \in Lists
    BY <1>1, <1>3 DEF ListsInv
  <2>2. \A m \in Addr : SavedLists(m)' = SavedLists(m)
    BY <1>1 DEF SavedLists
  <2>3. Forth \in Lists /\ current' \in Lists /\ kind' = kind
    BY <1>1 DEF ListsInv
  <2>4. \A m \in Addr : inlist'[m] # Null /\ kind'[m] = "marker" =>
           \A l \in SavedLists(m)' : l < m /\ kind'[l] = "list"
    <3>1. \A m \in Addr : inlist[m] # Null /\ kind[m] = "marker" =>
             \A l \in SavedLists(m) : l < m /\ kind[l] = "list"
      BY DEF ListsInv
    <3>2. \A m \in Addr : inlist'[m] # Null => inlist[m] # Null
      BY <1>2
    <3> HIDE DEF Addr, Null
    <3> QED
      BY <2>2, <2>3, <3>1, <3>2
  <2> QED
    BY <1>4, <2>1, <2>3, <2>4 DEF ListsInv
<1>9. OpenInv'
  BY <1>1, <1>2, <1>4 DEF OpenInv
<1>10. WalkInv'
  <2>0. list' \in Lists /\ cursor' = CutHead[list'] /\ cursor' \in Addr \cup {Null}
    BY <1>1, <1>2, <1>3
  <2>1. \A l \in Lists : l = list' => Top(cursor', Members(l)')
    BY <1>2, <2>0
  <2>2. found <= here
    BY <1>1 DEF WalkInv
  <2>3. /\ list' # Null /\ (cursor' # Null => inlist'[cursor'] = list')
        /\ \A a \in Addr : inlist'[a] = list' => a <= cursor'
    BY <2>0, <2>1
  <2> QED
    BY <1>1, <1>3, <1>4, <2>0, <2>2, <2>3 DEF WalkInv
<1>11. LookInv'
  BY <1>1 DEF LookInv
<1>12. ForgetInv'
  <2>1. Len(order') = index + 1 /\ \A i \in DOMAIN order' : order'[i] = path[i]
    BY <1>1, <1>3 DEF ForgetInv
  <2>2. ASSUME NEW a \in Addr, inlist'[a] # Null, a >= found
        PROVE  inlist'[a] = list' \/ \E i \in DOMAIN path : i > index + 1 /\ inlist'[a] = path[i]
    <3>1. inlist'[a] = inlist[a] /\ inlist[a] # list
      BY <1>2, <1>3, <2>2
    <3>2. PICK i \in DOMAIN path : i > index /\ inlist[a] = path[i]
      BY <1>1, <2>2, <3>1 DEF ForgetInv
    <3>3. CASE i = index + 1
      BY <1>1, <3>1, <3>2, <3>3
    <3>4. CASE i > index + 1
      BY <3>1, <3>2, <3>4
    <3> QED
      BY <1>3, <3>2, <3>3, <3>4
  <2>3. /\ here = found /\ path = saved[found].order /\ current = saved[found].current
        /\ \A i \in DOMAIN path : path[i] \in Lists
    BY <1>1 DEF ForgetInv
  <2> QED
    BY <1>1, <1>4, <2>1, <2>2, <2>3 DEF ForgetInv
<1> QED
  BY <1>5, <1>6, <1>7, <1>8, <1>9, <1>10, <1>11, <1>12

--------------------------------------------------------------------------------
(* The invariant holds at the beginning and every step keeps it.           *)
LEMMA Initially == ASSUME Init PROVE IInv
<1> USE DEF Init, Forth
<1>1. PICK n \in Names : name = [a \in Addr |-> IF a = First THEN n ELSE Anon]
  OBVIOUS
<1>2. Forth \in Addr /\ First \in Addr /\ here = 3 /\ Lists = {Forth}
  BY DictionaryAssumption
<1>3. TypeOK
  <2>1. NoBody \in [current : Addr, order : Seq(Addr)]
    BY <1>2 DEF NoBody
  <2>2. kind \in [Addr -> {"free", "data", "list", "word", "marker"}]
    BY <1>2
  <2>3. here \in First..MaxHere + 1 /\ order \in Seq(Addr) /\ path \in Seq(Addr)
        /\ index \in 0..Len(path)
    BY <1>2, DictionaryAssumption
  <2> QED
    BY <1>1, <1>2, <2>1, <2>2, <2>3, DictionaryAssumption DEF TypeOK
<1>4. \A a \in Addr : inlist[a] # Null <=> a = First
  BY <1>2
<1>5. ChainExact
  <2>1. Members(Forth) = {First}
    BY <1>2
  <2>2. \A a \in Members(Forth) : {b \in Members(Forth) : b < a} = {} /\ link[a] = Null
    BY <2>1
  <2>3. Top(head[Forth], {First})
    BY <1>2
  <2> QED
    BY <1>2, <2>1, <2>2, <2>3 DEF ChainExact
<1>6. LiveInv
  BY <1>1, <1>2, <1>4 DEF LiveInv
<1>7. ListsInv
  BY <1>2, <1>4 DEF ListsInv
<1>8. OpenInv
  BY <1>2 DEF OpenInv
<1>9. WalkInv /\ LookInv /\ ForgetInv
  BY DEF WalkInv, LookInv, ForgetInv
<1> QED
  BY <1>3, <1>5, <1>6, <1>7, <1>8, <1>9 DEF IInv

LEMMA Stutters == ASSUME IInv, UNCHANGED vars PROVE IInv'
<1> USE DEF vars, memVars, cellVars, listVars, compVars, walkVars, IInv
<1>1. TypeOK'
  BY DEF TypeOK
<1>2. ChainExact' /\ LiveInv' /\ ListsInv' /\ OpenInv' /\ WalkInv' /\ LookInv'
  BY DEF ChainExact, LiveInv, ListsInv, OpenInv, WalkInv, LookInv, SavedLists
<1>3. ForgetInv'
  BY DEF ForgetInv, Named, MayForget, MayRestore, Covered, SavedLists, Settled
<1> QED
  BY <1>1, <1>2, <1>3

LEMMA Inductive == ASSUME Careful, IInv, [Next]_vars PROVE IInv'
<1>1. CASE Defining
  BY <1>1, BeginStep, CreateStep, CommaStep, SemicolonStep, BracketSteps, AbortSteps
     DEF Defining
<1>2. CASE Ordering
  BY <1>2, WordlistStep, OrderSteps DEF Ordering
<1>3. CASE Asking
  BY <1>3, LookStarts DEF Asking
<1>4. CASE Step
  BY <1>4, ListStep, WalkSteps, LookEnds, HitSteps, RestoreStep, AbortSteps,
     ShortenSteps, NextSavedStep DEF Step
<1>5. CASE UNCHANGED vars
  BY <1>5, Stutters
<1> QED
  BY <1>1, <1>2, <1>3, <1>4, <1>5 DEF Next

LEMMA Always == ASSUME Careful PROVE Spec => []IInv
<1>1. Init => IInv
  BY Initially
<1>2. IInv /\ [Next]_vars => IInv'
  BY Inductive
<1> QED
  BY <1>1, <1>2, PTL DEF Spec

--------------------------------------------------------------------------------
(* Every variable keeps its type, whatever the program's words do in the   *)
(* order the dictionary allows (dictionary.c, hash.c, search.c, tools.c).  *)
THEOREM TypeCorrect == ASSUME Careful PROVE Spec => []TypeOK
<1>1. IInv => TypeOK
  BY DEF IInv
<1> QED
  BY <1>1, Always, PTL

(* The chain of each word list is its definitions, youngest first, after   *)
(* any number of definitions, errors, FORGETs and MARKERs                  *)
(* (ficlHashInsertWord, ficlHashForget, ficlDictionaryAbortDefinition).    *)
THEOREM ChainsExact == ASSUME Careful PROVE Spec => []ChainExact
<1>1. IInv => ChainExact
  BY DEF IInv
<1> QED
  BY <1>1, Always, PTL

(* Between words no chain, no list of the search order and not the         *)
(* compilation list lies in memory given back (ficlDictionaryAbortDefini-  *)
(* tion, ficlPrimitiveForget, marker.fr).                                  *)
THEOREM NothingDangles == ASSUME Careful PROVE Spec => []NoDangling
<1>1. IInv => NoDangling
  <2> SUFFICES ASSUME IInv, op = "idle" PROVE NoDangling
    BY DEF NoDangling
  <2>1. \A a \in Addr : inlist[a] # Null => a < here /\ inlist[a] \in Lists
    BY DEF IInv, LiveInv
  <2>2. current \in Lists /\ \A i \in DOMAIN order : order[i] \in Lists
    BY DEF IInv, ListsInv
  <2>3. ASSUME NEW l \in Lists PROVE head[l] < here
    <3>1. Top(head[l], Members(l))
      BY DEF IInv, ChainExact
    <3>2. here \in Nat /\ here > 0
      BY DEF IInv, TypeOK
    <3> QED
      BY <2>1, <3>1, <3>2
  <2> QED
    BY <2>1, <2>2, <2>3 DEF NoDangling
<1> QED
  BY <1>1, Always, PTL

(* A MARKER ends with the search order and the compilation list it saved   *)
(* (MARKER in softcore/marker.fr).                                         *)
THEOREM MarkerIsExact == ASSUME Careful PROVE Spec => MarkerRestores
<1> DEFINE Exact == op = "marker" /\ op' = "idle" =>
                      /\ order' = saved[found].order
                      /\ current' = saved[found].current
<1>1. ASSUME IInv, [Next]_vars PROVE [Exact]_vars
  <2> SUFFICES ASSUME op = "marker", op' = "idle", Next PROVE Exact
    BY <1>1
  <2>1. MarkerEnds
    BY DEF Next, Defining, Ordering, Asking, Step, Colon, ColonNoName, Begin, Create, Marker,
           Define, Comma, Semicolon, LeftBracket, RightBracket, Abort, Quit, Ready, Wordlist,
           SetCurrent, Definitions, SetOrder, Only, SearchPush, SearchPop, Searching, Interpret,
           Forget, SearchWordlist, Look, NextList, NextWord, HitWord, HitMarker, HitForget, Hit,
           Restore, MissWord, MissError, Missed, Unlink, ForgetEnds, NextSaved
  <2>2. /\ path = saved[found].order /\ current = saved[found].current
        /\ Len(order) = index /\ \A i \in DOMAIN order : order[i] = path[i]
    BY <1>1 DEF IInv, ForgetInv
  <2>3. order \in Seq(Addr) /\ path \in Seq(Addr) /\ index = Len(path)
        /\ order' = order /\ current' = current
    BY <1>1, <2>1 DEF IInv, TypeOK, MarkerEnds, listVars
  <2>4. order = path
    BY <2>2, <2>3
  <2> QED
    BY <2>2, <2>3, <2>4
<1> QED
  BY <1>1, Always, PTL DEF Spec, MarkerRestores


--------------------------------------------------------------------------------
(***************************************************************************)
(* The refinement of the name space.  The words hide chains, memory and    *)
(* the steps of a walk behind definitions, the search order and answers.   *)
(***************************************************************************)


(* The abstract view of an address.                                        *)
Def(a) == [at |-> a, list |-> inlist[a], name |-> name[a]]

LEMMA DefsOf == Defs = {Def(a) : a \in {b \in Addr : inlist[b] # Null /\ b < here}}
BY DEF Defs, Def

(* When the definitions below h stay as they are and the others go, that   *)
(* is what is left of the name space.                                      *)
LEMMA DefsBelow ==
  ASSUME NEW h \in Nat, here \in Nat, here' \in Nat,
         \A a \in Addr : (inlist'[a] # Null /\ a < here')
                           <=> (inlist[a] # Null /\ a < here /\ a < h),
         \A a \in Addr : inlist'[a] # Null /\ a < here' =>
                           inlist'[a] = inlist[a] /\ name'[a] = name[a]
  PROVE  Defs' = {d \in Defs : d.at < h}
<1>1. {d \in Defs : d.at < h} =
        {Def(a) : a \in {b \in Addr : inlist[b] # Null /\ b < here /\ b < h}}
  BY DEF Defs, Def
<1>2. Defs' = {Def(a)' : a \in {b \in Addr : inlist'[b] # Null /\ b < here'}}
  BY DEF Defs, Def
<1>3. \A a \in Addr : inlist'[a] # Null /\ a < here' => Def(a)' = Def(a)
  BY DEF Def
<1> QED
  BY <1>1, <1>2, <1>3

LEMMA DefsKept ==
  ASSUME here \in Nat, here' \in Nat,
         \A a \in Addr : (inlist'[a] # Null /\ a < here')
                           <=> (inlist[a] # Null /\ a < here),
         \A a \in Addr : inlist'[a] # Null /\ a < here' =>
                           inlist'[a] = inlist[a] /\ name'[a] = name[a]
  PROVE  Defs' = Defs
<1>1. Defs' = {Def(a)' : a \in {b \in Addr : inlist'[b] # Null /\ b < here'}}
  BY DEF Defs, Def
<1>2. \A a \in Addr : inlist'[a] # Null /\ a < here' => Def(a)' = Def(a)
  BY DEF Def
<1> QED
  BY <1>1, <1>2, DefsOf

(* The words that change memory, the search order or the definition in     *)
(* progress, and the start of a lookup.                                    *)
LEMMA Reorders ==
  ASSUME IInv, IInv', order' \in Seq(Addr), op = "idle", op' = "idle",
         found' = Null, here' \in Nat, inlist' = inlist,
         \A a \in Addr : inlist[a] # Null => name'[a] = name[a]
  PROVE  NS!Reorder
<1>1. \A a \in Addr : inlist[a] # Null => a < here /\ a < here'
  BY DEF IInv, LiveInv
<1>2. here \in Nat
  BY DEF IInv, TypeOK
<1>3. Defs' = Defs
  BY <1>1, <1>2, DefsKept
<1> QED
  BY <1>3 DEF NS!Reorder, NS!Quiet, Answer, Asked

(* A question is asked.                                                    *)
LEMMA AskingSteps == ASSUME IInv, IInv', Asking PROVE NS!Ask
<1>1. /\ op = "idle" /\ op' \in Looking /\ found' = Null
      /\ UNCHANGED <<here, name, inlist, order>>
  BY DEF Asking, Interpret, Forget, SearchWordlist, Look, memVars, cellVars, listVars
<1>2. target' \in Names /\ (path' = order \/ \E l \in Addr : path' = <<l>>)
  BY <1>1 DEF IInv, LookInv
<1>3. current \in Addr
  BY DEF IInv, TypeOK
<1>4. Defs' = Defs /\ Answer' = 0 /\ Asked = <<>> /\ Asked' = <<target', path'>>
  BY <1>1 DEF Defs, Answer, Asked
<1> QED
  BY <1>1, <1>2, <1>3, <1>4 DEF NS!Ask

(* Words that define nothing, between two words.                           *)
LEMMA QuietSteps ==
  ASSUME IInv, IInv',
         \/ Colon \/ ColonNoName \/ Comma \/ LeftBracket \/ RightBracket \/ Abort \/ Quit
         \/ Ordering
         \/ Semicolon /\ name[smudge] = Anon
  PROVE  NS!Reorder
<1> USE DEF Ready, walkVars, memVars, cellVars, listVars, compVars
<1>1. here \in Nat /\ here' \in Nat /\ order' \in Seq(Addr) /\ name \in [Addr -> Names \cup {Anon}]
  BY DEF IInv, TypeOK
<1>2. op = "idle" /\ op' = "idle" /\ found' = Null /\ inlist' = inlist
      /\ \/ name' = name
         \/ \E n : name' = [name EXCEPT ![here] = n]
         \/ AbortDefinition
  <2>1. CASE Colon \/ ColonNoName
    BY <2>1 DEF Colon, ColonNoName, Begin
  <2>2. CASE Comma \/ LeftBracket \/ RightBracket \/ Abort \/ Quit
    BY <2>2 DEF Comma, LeftBracket, RightBracket, Abort, Quit
  <2>3. CASE Ordering
    BY <2>3 DEF Ordering, Wordlist, Searching, SetCurrent, Definitions, SetOrder, Only,
                SearchPush, SearchPop
  <2>4. CASE Semicolon /\ name[smudge] = Anon
    BY <2>4 DEF Semicolon
  <2> QED
    BY <2>1, <2>2, <2>3, <2>4
<1>3. ASSUME NEW a \in Addr, inlist[a] # Null PROVE name'[a] = name[a]
  <2>1. a < here /\ a < here'
    BY <1>2, <1>3 DEF IInv, LiveInv
  <2>2. CASE AbortDefinition
    BY <1>1, <2>1, <2>2 DEF AbortDefinition, KeepBelow, KeepCells
  <2>3. ASSUME NEW m, name' = [name EXCEPT ![here] = m] PROVE name'[a] = name[a]
    BY <1>1, <2>1, <2>3
  <2> QED
    BY <1>2, <2>2, <2>3
<1> QED
  BY <1>1, <1>2, <1>3, Reorders

(* Words that make a definition known.                                     *)
LEMMA DefiningSteps ==
  ASSUME IInv, IInv', Create \/ Marker \/ (Semicolon /\ name[smudge] # Anon)
  PROVE  NS!Define
<1> USE DEF Ready, walkVars, listVars, compVars
<1>1. PICK w \in Addr, n \in Names :
        /\ inlist' = [inlist EXCEPT ![w] = current]
        /\ \A a \in Addr : inlist[a] # Null => a < w
        /\ w < here' /\ name'[w] = n
        /\ \A a \in Addr : inlist[a] # Null => name'[a] = name[a]
        /\ op = "idle" /\ op' = "idle" /\ found' = Null /\ order' = order
  <2>1. here \in First..MaxHere + 1 /\ smudge \in Addr /\ name \in [Addr -> Names \cup {Anon}]
        /\ inlist \in [Addr -> Addr \cup {Null}] /\ current \in Addr /\ MaxHere \in Nat
    BY DictionaryAssumption DEF IInv, TypeOK
  <2>2. op = "idle" /\ op' = "idle" /\ found' = Null /\ order' = order
    BY DEF Create, Marker, Define, Semicolon
  <2>3. \A a \in Addr : inlist[a] # Null => a < here
    BY <2>2 DEF IInv, LiveInv
  <2>4. CASE Create \/ Marker
    <3>1. PICK n \in Names, k \in {"word", "marker"} : Define(n, k)
      BY <2>4 DEF Create, Marker
    <3>2. here <= MaxHere /\ here' = here + 1 /\ inlist' = [inlist EXCEPT ![here] = current]
          /\ name' = [name EXCEPT ![here] = n]
      BY <3>1 DEF Define, Put, Insert
    <3>3. here \in Addr /\ here < here' /\ name'[here] = n
      BY <2>1, <3>2
    <3>4. \A a \in Addr : inlist[a] # Null => name'[a] = name[a]
      BY <2>1, <2>3, <3>2
    <3> QED
      BY <2>2, <2>3, <3>2, <3>3, <3>4
  <2>5. CASE Semicolon /\ name[smudge] # Anon
    <3>1. /\ inlist' = [inlist EXCEPT ![smudge] = current] /\ name' = name
          /\ here' = here + 1 /\ state = "compile"
      BY <2>5 DEF Semicolon, Insert, Put
    <3>2. smudge < here /\ \A a \in Addr : inlist[a] # Null => a < smudge
      BY <3>1 DEF IInv, OpenInv, InDefinition
    <3>3. smudge < here' /\ name'[smudge] \in Names
      BY <2>1, <2>5, <3>1, <3>2
    <3> QED
      BY <2>1, <2>2, <3>1, <3>2, <3>3
  <2> QED
    BY <2>4, <2>5
<1>2. /\ here \in Nat /\ here' \in Nat /\ current \in Addr
      /\ inlist \in [Addr -> Addr \cup {Null}]
      /\ \A a \in Addr : inlist[a] # Null => a < here
  <2>1. /\ here \in Nat /\ here' \in Nat /\ current \in Addr
        /\ inlist \in [Addr -> Addr \cup {Null}]
    BY DEF IInv, TypeOK
  <2>2. LiveInv
    BY DEF IInv
  <2>3. \A a \in Addr : inlist[a] # Null => a < here
    BY <1>1, <2>2 DEF LiveInv
  <2> QED
    BY <2>1, <2>3
<1>3. \A a \in Addr : inlist'[a] # Null <=> inlist[a] # Null \/ a = w
  BY <1>1, <1>2
<1>4. \A a \in Addr : inlist'[a] # Null => a < here'
  <2>1. \A a \in Addr : inlist'[a] # Null /\ op' # "marker" => a < here'
    <3>1. LiveInv'
      BY DEF IInv
    <3> HIDE DEF Addr
    <3> QED
      BY <3>1 DEF LiveInv
  <2> QED
    BY <1>1, <2>1
<1>5. Defs' = Defs \cup {[at |-> w, list |-> current, name |-> n]}
  <2>1. Defs' = {Def(a)' : a \in {b \in Addr : inlist[b] # Null \/ b = w}}
    <3>1. Defs' = {Def(a)' : a \in {b \in Addr : inlist'[b] # Null /\ b < here'}}
      BY DEF Defs, Def
    <3> QED
      BY <1>3, <1>4, <3>1
  <2>2. Defs = {Def(a) : a \in {b \in Addr : inlist[b] # Null}}
    BY <1>2, DefsOf
  <2>3. \A a \in Addr : inlist[a] # Null => Def(a)' = Def(a)
    BY <1>1, <1>2 DEF Def
  <2>4. Def(w)' = [at |-> w, list |-> current, name |-> n]
    BY <1>1, <1>2 DEF Def
  <2> QED
    BY <2>1, <2>2, <2>3, <2>4
<1>6. \A e \in Defs : e.at < w
  BY <1>1 DEF Defs
<1>7. Answer' = 0 /\ Asked = <<>> /\ Asked' = <<>> /\ order' = order
  BY <1>1 DEF Answer, Asked
<1> QED
  BY <1>2, <1>5, <1>6, <1>7 DEF NS!Define, NS!Quiet

--------------------------------------------------------------------------------
(* The steps inside a lookup and inside a cut are hidden.                  *)
LEMMA HiddenSteps ==
  ASSUME NextList \/ NextWord \/ Unlink PROVE UNCHANGED <<Defs, order, Asked, Answer>>
BY DEF NextList, NextWord, Unlink, memVars, cellVars, listVars, Defs, Asked, Answer

(* A walk that ends at a word of that name has found the answer, and one   *)
(* that ends nowhere has shown that there is none.                         *)
LEMMA WalkAnswers ==
  ASSUME IInv, op \in Looking
  PROVE  /\ target \in Names /\ (path = order \/ \E l \in Addr : path = <<l>>)
         /\ cursor # Null /\ name[cursor] = target =>
              \E d \in Defs : NS!Answers(target, path, d) /\ d.at = cursor
         /\ cursor = Null /\ index = 0 => NS!Unknown(target, path)
<1>1. /\ target \in Names /\ (path = order \/ \E l \in Addr : path = <<l>>)
      /\ list # Null => index < Len(path) /\ path[index + 1] = list
      /\ \A i \in DOMAIN path : i > index =>
           \A a \in Members(path[i]) : name[a] = target => i = index + 1 /\ a <= cursor
  BY DEF IInv, LookInv
<1>2. path \in Seq(Addr) /\ index \in Nat /\ cursor \in Addr \cup {Null}
  BY DEF IInv, TypeOK
<1>3. \A e \in Defs : e.at \in Addr /\ inlist[e.at] = e.list /\ name[e.at] = e.name
                      /\ e.list # Null
  BY DEF Defs
<1>4. ASSUME cursor # Null, name[cursor] = target
      PROVE  \E d \in Defs : NS!Answers(target, path, d) /\ d.at = cursor
  <2>1. cursor \in Addr /\ list # Null /\ inlist[cursor] = list /\ cursor < here
    BY <1>2, <1>4 DEF IInv, WalkInv, LiveInv
  <2>2. index + 1 \in DOMAIN path /\ path[index + 1] = list
    BY <1>1, <1>2, <2>1
  <2> DEFINE d == Def(cursor)
  <2>3. d \in Defs /\ d.at = cursor /\ d.list = list /\ d.name = target
    BY <1>4, <2>1, DefsOf DEF Def
  <2> HIDE DEF d
  <2>4. ASSUME NEW e \in Defs, e.name = target, e.list = list PROVE e.at <= d.at
    BY <1>1, <1>2, <1>3, <2>2, <2>3, <2>4
  <2>5. ASSUME NEW j \in DOMAIN path, NEW e \in Defs, j > index + 1, e.name = target
        PROVE  e.list # path[j]
    BY <1>1, <1>2, <1>3, <2>5
  <2> QED
    BY <2>2, <2>3, <2>4, <2>5 DEF NS!Answers
<1>5. ASSUME cursor = Null, index = 0 PROVE NS!Unknown(target, path)
  <2> SUFFICES ASSUME NEW i \in DOMAIN path, NEW e \in Defs, e.name = target,
                      e.list = path[i]
               PROVE  FALSE
    BY DEF NS!Unknown
  <2>1. e.at \in Members(path[i]) /\ name[e.at] = target
    BY <1>3
  <2>2. i > index
    BY <1>2, <1>5
  <2>3. e.at <= cursor
    BY <1>1, <2>1, <2>2
  <2> QED
    BY <1>3, <1>5, <2>3
<1> QED
  BY <1>1, <1>4, <1>5

(* The end of a lookup, found or not.                                      *)
LEMMA ResolvingSteps ==
  ASSUME IInv, IInv', HitWord \/ HitMarker \/ HitForget \/ MissWord \/ MissError
  PROVE  NS!Reply
<1> USE DEF Hit, Match, Missed, Done, memVars, cellVars, listVars, compVars
<1>1. /\ op \in Looking /\ op' # "marker" /\ UNCHANGED <<order, inlist>>
      /\ \/ cursor # Null /\ name[cursor] = target /\ found' = cursor
         \/ cursor = Null /\ index = 0 /\ found' = Null
      /\ name' = name \/ AbortDefinition
  BY DEF HitWord, HitMarker, HitForget, MissWord, MissError
<1>2. /\ here \in Nat /\ here' \in Nat /\ name \in [Addr -> Names \cup {Anon}]
      /\ order \in Seq(Addr)
  BY DEF IInv, TypeOK
<1>3. \A a \in Addr : inlist[a] # Null => a < here /\ a < here'
  BY <1>1 DEF IInv, LiveInv
<1>4. \A a \in Addr : inlist[a] # Null => name'[a] = name[a]
  <2>1. CASE AbortDefinition
    BY <1>2, <1>3, <2>1 DEF AbortDefinition, KeepBelow, KeepCells
  <2> QED
    BY <1>1, <2>1
<1>5. Defs' = Defs
  BY <1>1, <1>2, <1>3, <1>4, DefsKept
<1>6. Answer' = found' /\ order' = order
  BY <1>1 DEF Answer
<1>7. \/ \E d \in Defs : NS!Answers(target, path, d) /\ Answer' = d.at
      \/ NS!Unknown(target, path) /\ Answer' = 0
  BY <1>1, <1>6, WalkAnswers
<1>8. Asked = <<target, path>> /\ Asked' = <<>>
  BY <1>1 DEF Asked, HitWord, HitMarker, HitForget, MissWord, MissError
<1>9. Asked # <<>> /\ Asked[1] = target /\ Asked[2] = path
  BY <1>8
<1> QED
  BY <1>5, <1>6, <1>7, <1>8, <1>9 DEF NS!Reply

(* FORGET's end and a MARKER's first step: memory from FOUND on goes.      *)
LEMMA ReleasingSteps ==
  ASSUME IInv, IInv', Restore \/ ForgetEnds PROVE NS!Release
<1> USE DEF memVars, cellVars, listVars, Shorten
<1>1. found \in Addr /\ here \in Nat /\ order' \in Seq(Addr) /\ found <= here
      /\ here' = found
  <2>1. here \in Nat
    BY DEF IInv, TypeOK
  <2>2. found \in Addr /\ found <= here
    <3>1. CASE Restore
      <4>1. found \in Addr /\ found < here
        BY <3>1 DEF Restore, IInv, ForgetInv, LiveInv
      <4> QED
        BY <2>1, <4>1
    <3>2. CASE ForgetEnds
      BY <3>2 DEF ForgetEnds, IInv, WalkInv
    <3> QED
      BY <3>1, <3>2
  <2> QED
    BY <2>2 DEF Restore, ForgetEnds, IInv, TypeOK
<1>2. \A a \in Addr : a < found => inlist'[a] = inlist[a] /\ name'[a] = name[a]
  <2>1. inlist \in [Addr -> Addr \cup {Null}] /\ name \in [Addr -> Names \cup {Anon}]
    BY DEF IInv, TypeOK
  <2>2. CASE Restore
    BY <2>2 DEF Restore
  <2>3. CASE ForgetEnds
    BY <1>1, <2>1, <2>3 DEF ForgetEnds, Cut, KeepCells
  <2> QED
    BY <2>2, <2>3
<1>3. Defs' = {d \in Defs : d.at < found}
  BY <1>1, <1>2, DefsBelow
<1>4. Answer' = 0 /\ Asked = <<>> /\ Asked' = <<>>
  BY DEF Answer, Asked, Restore, ForgetEnds, Done
<1> QED
  BY <1>1, <1>3, <1>4 DEF NS!Release, NS!Quiet

(* A MARKER goes on below HERE, where nothing changes any more.            *)
LEMMA MarkerSteps ==
  ASSUME IInv, IInv', NextSaved \/ MarkerEnds PROVE NS!Reorder
<1> USE DEF cellVars, listVars, Shorten
<1>1. here = found /\ here' = here /\ here \in Nat /\ order' \in Seq(Addr)
  BY DEF NextSaved, MarkerEnds, IInv, ForgetInv, TypeOK
<1>2. \A a \in Addr : a < found => inlist'[a] = inlist[a] /\ name'[a] = name[a]
  <2>1. /\ inlist \in [Addr -> Addr \cup {Null}] /\ name \in [Addr -> Names \cup {Anon}]
        /\ found \in Addr
    BY DEF IInv, TypeOK, WalkInv, NextSaved, MarkerEnds
  <2>2. inlist' = [a \in Addr |-> IF inlist[a] = list /\ a >= found THEN Null ELSE inlist[a]]
    BY DEF NextSaved, MarkerEnds, Cut
  <2>3. name' = name \/ KeepCells(found)
    BY DEF NextSaved, MarkerEnds
  <2>4. ASSUME NEW a \in Addr, a < found PROVE inlist'[a] = inlist[a]
    BY <2>1, <2>2, <2>4
  <2>5. ASSUME NEW a \in Addr, a < found PROVE name'[a] = name[a]
    BY <2>1, <2>3, <2>5 DEF KeepCells
  <2> QED
    BY <2>4, <2>5
<1>3. Defs' = Defs
  BY <1>1, <1>2, DefsKept
<1>4. Answer' = 0 /\ Asked = <<>> /\ Asked' = <<>>
  BY DEF Answer, Asked, NextSaved, MarkerEnds, Done
<1> QED
  BY <1>1, <1>3, <1>4 DEF NS!Reorder, NS!Quiet

(* Every step of the dictionary is a step of the name space or none.       *)
LEMMA Simulates == ASSUME IInv, IInv', [Next]_vars PROVE [NS!Next]_(NS!vars)
<1>1. CASE NextList \/ NextWord \/ Unlink
  BY <1>1, HiddenSteps DEF NS!vars
<1>2. CASE Restore \/ ForgetEnds
  BY <1>2, ReleasingSteps DEF NS!Next
<1>3. CASE NextSaved \/ MarkerEnds
  BY <1>3, MarkerSteps DEF NS!Next
<1>4. CASE HitWord \/ HitMarker \/ HitForget \/ MissWord \/ MissError
  BY <1>4, ResolvingSteps DEF NS!Next
<1>5. CASE Defining
  <2>1. \/ Create \/ Marker \/ (Semicolon /\ name[smudge] # Anon)
        \/ Colon \/ ColonNoName \/ Comma \/ LeftBracket \/ RightBracket \/ Abort \/ Quit
        \/ (Semicolon /\ name[smudge] = Anon)
    BY <1>5 DEF Defining
  <2> QED
    BY <2>1, DefiningSteps, QuietSteps DEF NS!Next
<1>6. CASE Ordering \/ Asking
  BY <1>6, QuietSteps, AskingSteps DEF NS!Next
<1>7. CASE UNCHANGED vars
  BY <1>7 DEF vars, memVars, cellVars, listVars, walkVars, NS!vars, Defs, Asked, Answer
<1> QED
  BY <1>1, <1>2, <1>3, <1>4, <1>5, <1>6, <1>7 DEF Next, Step

LEMMA Begins == ASSUME Init PROVE NS!Init
<1>1. here \in Nat /\ Forth \in Addr /\ First \in Addr
      /\ inlist = [a \in Addr |-> IF a = First THEN Forth ELSE Null]
      /\ order = <<Forth>> /\ op = "idle" /\ found = Null
  BY DictionaryAssumption DEF Init, Forth
<1>2. PICK n \in Names : name = [a \in Addr |-> IF a = First THEN n ELSE Anon]
  BY DEF Init
<1>3. \A a \in Addr : inlist[a] # Null <=> a = First
  BY <1>1 DEF Forth
<1>4. Defs \in SUBSET [at : Addr, list : Addr, name : Names]
  BY <1>1, <1>2, <1>3 DEF Defs
<1>5. order \in Seq(Addr) /\ Asked = <<>> /\ Answer = 0
  BY <1>1 DEF Answer, Asked
<1> QED
  BY <1>4, <1>5 DEF NS!Init

(* Whatever a careful program does, names mean what the name space says:   *)
(* the youngest definition in the last list of the order that has the name *)
(* (ficlDictionaryLookupSmudged and ficlHashLookup over what the defining  *)
(* words, errors, FORGET and MARKER leave).                                *)
THEOREM DictionaryImplements == ASSUME Careful PROVE Spec => Implements
<1>1. Init => NS!Init
  BY Begins
<1>2. IInv /\ IInv' /\ [Next]_vars => [NS!Next]_(NS!vars)
  BY Simulates
<1> QED
  BY <1>1, <1>2, Always, PTL DEF Spec, Implements, NS!Spec

================================================================================
