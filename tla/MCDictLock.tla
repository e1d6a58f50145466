------------------------------ MODULE MCDictLock ------------------------------
(***************************************************************************)
(* DictLock for TLC: the threads, and the word lists, are interchangeable. *)
(***************************************************************************)
EXTENDS DictLock, TLC

Symmetry == Permutations(Threads) \cup Permutations(Wids)

================================================================================
