----------------------------- MODULE MCFatRead -----------------------------
(* FatRead with sectors of two bytes and two clusters of two sectors.  The *)
(* FAT starts at byte 2, so that a misplaced read can also hit the FAT; the    *)
(* negative positions are those of 2^31 and more.                          *)
EXTENDS FatRead

MCMarks == {0, 65535}
MCPositions == {-6, -3, -1, 0, 1, 3, 5}
MCSizes == {1, 2, 3, 5}
MCCounts == {1, 2}
=============================================================================
