----------------------------- MODULE MCInterpreter -----------------------------
(***************************************************************************)
(* Interpreter for TLC: what programs throw is a negative number, as the   *)
(* standard asks, or a positive one.                                       *)
(***************************************************************************)
EXTENDS Interpreter

Negative == {-5}
Positive == {5}

================================================================================
