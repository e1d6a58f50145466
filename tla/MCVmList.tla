-------------------------------- MODULE MCVmList -------------------------------
(***************************************************************************)
(* VmList for TLC: a C program destroys VMs while a task CONSTRUCTs one.   *)
(***************************************************************************)
EXTENDS VmList

================================================================================
