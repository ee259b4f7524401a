--------------------------- MODULE MCFibrilTimer ---------------------------
(* Instance of FibrilTimer for TLC. *)
EXTENDS FibrilTimer

CONSTANTS c1, c2, tf
=============================================================================
