-------------------------- MODULE MCKernelInstance --------------------------
(***************************************************************************)
(* One thread of an instance reads up to two chunks, asks for the status   *)
(* and orders self tests, next to the procfs reader, the work item and the *)
(* end of the instance.  A privileged process and the one that opens the   *)
(* file compete for a single slot.                                         *)
(***************************************************************************)
EXTENDS KernelInstance

CONSTANTS f, o

Openers == {f, o}
Capable == {o}
=============================================================================
