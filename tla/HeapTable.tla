----------------------------- MODULE HeapTable -----------------------------
(***************************************************************************)
(* The block table of the kernel heap (src/src/memory/heap.c) as a         *)
(* function from block numbers to entries, and what each heap routine does *)
(* to such a table.  heap_malloc works in bytes, the table in blocks.      *)
(*                                                                         *)
(* The three byte values an entry can hold after mark_blocks_taken are     *)
(*   FREE  0x00,  NEXT  TAKEN|HAS_NEXT,  LAST  TAKEN.                      *)
(* HEAP_BLOCK_IS_FIRST is written and at once overwritten, by the loop     *)
(* when n > 1 and by the line after it when n = 1, so it never survives.   *)
(***************************************************************************)
EXTENDS Integers, FiniteSets

CONSTANTS Total,      \* table->total: blocks in the heap
          BlockSize,  \* BLOCK_SIZE: bytes in a block
          WordSize    \* 2^32: sizes are uint32_t

ASSUME HeapAssumption ==
  /\ Total \in Nat \ {0}
  /\ BlockSize \in Nat \ {0}
  /\ WordSize \in Nat \ {0}

Block == 0 .. Total - 1

FREE == "free"
NEXT == "next"
LAST == "last"
Entry == {FREE, NEXT, LAST}

\* heap_align_value, on uint32_t: a size in the last block of the address
\* space is rounded up to 2^32, that is to 0.
AlignValue(val) ==
  IF val % BlockSize = 0 THEN val
  ELSE ((val \div BlockSize + 1) * BlockSize) % WordSize

BlocksFor(size) == AlignValue(size) \div BlockSize

\* n free blocks in a row from block b.  heap_malloc_blocks compares the
\* length of the run it has seen, at least 1, with n: n = 0 is never found.
Fits(t, b, n) ==
  /\ n >= 1
  /\ b + n <= Total
  /\ \A k \in b .. b + n - 1 : t[k] = FREE

\* The base heap_malloc_blocks returns (HeapScan.tla has its two loops).
IsFirstFit(t, b, n) ==
  /\ Fits(t, b, n)
  /\ \A c \in Block : Fits(t, c, n) => b <= c

NoFit(t, n) == \A b \in Block : ~Fits(t, b, n)

MutMarkShort(t, b, n) ==
  [k \in Block |-> IF k \in b .. b + n - 1 THEN NEXT ELSE t[k]]
MarkBlocksTaken(t, b, n) ==
  [k \in Block |-> IF k = b + n - 1 THEN LAST
                   ELSE IF k \in b .. b + n - 2 THEN NEXT ELSE t[k]]

\* The blocks the loop of heap_free visits from block b.
NextRun(t, b) == {k \in Block : k >= b /\ \A m \in b .. k : t[m] = NEXT}

MutReleased(t, b) ==
  [k \in Block |-> IF \/ k \in NextRun(t, b)
                      \/ k = b + Cardinality(NextRun(t, b))
                   THEN FREE ELSE t[k]]
\* heap_free: every visited block becomes free.  The loop stops at the first
\* entry without HAS_NEXT, so the allocation's last block stays taken.
Released(t, b) ==
  [k \in Block |-> IF k \in NextRun(t, b) THEN FREE ELSE t[k]]
=============================================================================
