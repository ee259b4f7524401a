------------------------------ MODULE MCFibril ------------------------------
(* Instances of Fibril for TLC. *)
EXTENDS Fibril

CONSTANTS r1, r2, main, w1, w2, m1, m2
=============================================================================
