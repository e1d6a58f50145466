---------------------------- MODULE MCTaskControl ----------------------------
(***************************************************************************)
(* TaskControl for TLC: tasks and the task threads are interchangeable,    *)
(* and a run ends when every thread but the main one is dead.              *)
(***************************************************************************)
EXTENDS TaskControl, TLC

Symmetry == Permutations(Tasks) \cup Permutations(Threads \ {Main})

MCNext ==
  /\ \E t \in Threads \ {Main} : pc[t] # "dead"
  /\ Next

MCSpec == Init /\ [][MCNext]_vars

================================================================================
