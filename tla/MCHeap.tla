------------------------------- MODULE MCHeap -------------------------------
(* HeapScan, and with it Heap, on five blocks of four bytes with 5-bit     *)
(* sizes: 29 rounds up to 0, and 9 wants three blocks.                     *)
EXTENDS HeapScan

MCRequests == {0, 1, 4, 5, 9, 29}
=============================================================================
