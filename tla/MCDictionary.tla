----------------------------- MODULE MCDictionary -----------------------------
(***************************************************************************)
(* Dictionary for TLC: the search order holds no list twice, which the     *)
(* words that set it allow but which only repeats a part of a lookup.      *)
(***************************************************************************)
EXTENDS Dictionary

Injective(o) == \A i, j \in DOMAIN o : o[i] = o[j] => i = j

MCNext == Next /\ Injective(order')
MCSpec == Init /\ [][MCNext]_vars /\ WF_vars(Step)

================================================================================
