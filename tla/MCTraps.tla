------------------------------- MODULE MCTraps -------------------------------
(* Traps with two stack pointers and two values of eax; limits of 6 bits   *)
(* in pages of 4, bases of 4 bits.                                         *)
EXTENDS Traps
=============================================================================
