----------------------------- MODULE MCFileTable -----------------------------
(* FileTable with three callers, three descriptors and 3-bit positions;    *)
(* files around half of the range of a position.                           *)
EXTENDS FileTable, TLC

CONSTANTS c1, c2, c3

MCFileSizes == {0, 4, 5}
MCOffsets == {3}
MCSymmetry == Permutations(Callers)
=============================================================================
