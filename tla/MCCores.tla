------------------------------ MODULE MCCores ------------------------------
(***************************************************************************)
(* A small instance of Cores: two tasks on two cores, one of which moves.  *)
(***************************************************************************)
EXTENDS Cores

CONSTANTS t1, t2
=============================================================================
