------------------------------ MODULE MCFutex ------------------------------
(* An instance of Futex for TLC. *)
EXTENDS Futex

CONSTANTS t1, t2, t3
=============================================================================
