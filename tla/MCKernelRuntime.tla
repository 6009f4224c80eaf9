-------------------------- MODULE MCKernelRuntime --------------------------
(***************************************************************************)
(* The runtime for TLC, on the objects that runtime.c has. The theorems    *)
(* about startup have the same hypothesis, and those about the execution   *)
(* layer have not.                                                         *)
(***************************************************************************)
EXTENDS KernelRuntime

ASSUME RuntimeObjectsAssumption == StartupObjects
=============================================================================
