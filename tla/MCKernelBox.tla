---------------------------- MODULE MCKernelBox ----------------------------
(* Instance of KernelBox for TLC. *)
EXTENDS KernelBox

CONSTANTS p1, p2, k1, k2
=============================================================================
