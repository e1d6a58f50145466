-------------------------------- MODULE Powers ---------------------------------
(***************************************************************************)
(* Powers of two, as the shifts of the C code have them: by doubling.      *)
(***************************************************************************)
EXTENDS Integers

Pow2[n \in Nat] == IF n = 0 THEN 1 ELSE 2 * Pow2[n - 1]
================================================================================
