------------------------------ MODULE NameSpace ------------------------------
(***************************************************************************)
(* What the dictionary promises of names, without chains, hash tables or   *)
(* memory: a set of definitions, each at an address and in a word list; a  *)
(* search order; the question that is asked, and the answer to the last.   *)
(***************************************************************************)
EXTENDS Naturals, Sequences

CONSTANTS
  Addr,   \* the addresses of definitions and word lists, not zero
  Names   \* the names of definitions

VARIABLES
  defs,     \* the definitions that can be found
  order,    \* the search order; the last list is searched first
  asked,    \* the name and the lists that are asked for, or nothing
  answer    \* the definition found last, or 0

vars == <<defs, order, asked, answer>>

Init == /\ defs \in SUBSET [at : Addr, list : Addr, name : Names]
        /\ order \in Seq(Addr)
        /\ asked = <<>> /\ answer = 0

(* Definition d answers name n over the lists of p: no later list has the  *)
(* name, and d's list has no younger definition of it.                     *)
Answers(n, p, d) ==
  /\ d.name = n
  /\ \A e \in defs : e.name = n /\ e.list = d.list => e.at <= d.at
  /\ \E i \in DOMAIN p :
       /\ p[i] = d.list
       /\ \A j \in DOMAIN p, e \in defs : j > i /\ e.name = n => e.list # p[j]

Unknown(n, p) == \A i \in DOMAIN p, d \in defs : d.name = n => d.list # p[i]

(* A lookup in the search order, or in one word list.                      *)
Ask == /\ asked = <<>>
       /\ \E n \in Names, l \in Addr : \E p \in {order, <<l>>} : asked' = <<n, p>>
       /\ answer' = 0
       /\ UNCHANGED <<defs, order>>

Reply == /\ asked # <<>> /\ asked' = <<>>
         /\ \/ \E d \in defs : Answers(asked[1], asked[2], d) /\ answer' = d.at
            \/ Unknown(asked[1], asked[2]) /\ answer' = 0
         /\ UNCHANGED <<defs, order>>

Quiet == asked = <<>> /\ UNCHANGED asked /\ answer' = 0

(* A new definition is younger than all others.                            *)
Define == /\ Quiet
          /\ \E a \in Addr, l \in Addr, n \in Names :
               /\ \A e \in defs : e.at < a
               /\ defs' = defs \cup {[at |-> a, list |-> l, name |-> n]}
          /\ UNCHANGED order

(* FORGET and MARKER: everything as young as a goes, in every word list.   *)
Release == /\ Quiet
           /\ \E a \in Addr : defs' = {d \in defs : d.at < a}
           /\ order' \in Seq(Addr)

Reorder == Quiet /\ order' \in Seq(Addr) /\ UNCHANGED defs

Next == Ask \/ Reply \/ Define \/ Release \/ Reorder

Spec == Init /\ [][Next]_vars

================================================================================
