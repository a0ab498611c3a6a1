---------------------------- MODULE MCUserMemory ----------------------------
(* UserMemory with six pages, two slots and requests of 1, 2 and 3 pages.  *)
EXTENDS UserMemory

MCSizes == {0, 3, 5, 12, 29}
=============================================================================
