------------------------------ MODULE HeapScan ------------------------------
(***************************************************************************)
(* kmalloc with the two nested loops of heap_malloc_blocks                 *)
(* (src/src/memory/heap.c) spelled out, one step per test or increment.    *)
(* The inner loop writes the outer loop's index when it meets a taken      *)
(* block.  Heap.tla takes the whole call as one step; this module shows    *)
(* that it may: it implements Heap.                                        *)
(***************************************************************************)
EXTENDS Heap

VARIABLES size,    \* the call's argument
          i, j,    \* the two loop indices
          pc       \* "ready", or where the call is: in a loop, or returned

scanVars == <<entries, owned, served, size, i, j, pc>>

total_blocks == BlocksFor(size)

Running == pc \in {"outer", "inner"}

ScanInit ==
  /\ Init
  /\ size = 0 /\ i = 0 /\ j = 0
  /\ pc = "ready"

\* heap_malloc: a size of 0 is refused at once.
Call(s) ==
  /\ ~Running
  /\ size' = s
  /\ i' = 0 /\ j' = 0
  /\ pc' = IF s = 0 THEN "none" ELSE "outer"
  /\ UNCHANGED vars

GiveUp ==
  /\ pc = "outer" /\ i >= Total
  /\ pc' = "none"
  /\ UNCHANGED <<vars, size, i, j>>

\* "continue" on a taken block.
SkipTaken ==
  /\ pc = "outer" /\ i < Total /\ entries[i] # FREE
  /\ i' = i + 1
  /\ UNCHANGED <<vars, size, j, pc>>

MutStartRun ==
  /\ pc = "outer" /\ i < Total /\ entries[i] = FREE
  /\ j' = i - 1
  /\ pc' = "inner"
  /\ UNCHANGED <<vars, size, i>>
StartRun ==
  /\ pc = "outer" /\ i < Total /\ entries[i] = FREE
  /\ j' = i
  /\ pc' = "inner"
  /\ UNCHANGED <<vars, size, i>>

\* The inner loop ran off the table: the outer one goes on one block later.
RunHitsEnd ==
  /\ pc = "inner" /\ j >= Total
  /\ i' = i + 1
  /\ pc' = "outer"
  /\ UNCHANGED <<vars, size, j>>

\* i = j; break;  and then the outer loop's ++i.
MutRunHitsTaken ==
  /\ pc = "inner" /\ j < Total /\ entries[j] # FREE
  /\ i' = j + 2
  /\ pc' = "outer"
  /\ UNCHANGED <<vars, size, j>>
RunHitsTaken ==
  /\ pc = "inner" /\ j < Total /\ entries[j] # FREE
  /\ i' = j + 1
  /\ pc' = "outer"
  /\ UNCHANGED <<vars, size, j>>

RunLongEnough ==
  /\ pc = "inner" /\ j < Total /\ entries[j] = FREE
  /\ j - i + 1 = total_blocks
  /\ entries' = MarkBlocksTaken(entries, i, total_blocks)
  /\ owned' = owned \cup {Region(i, total_blocks, size)}
  /\ served' = served + 1
  /\ pc' = "found"
  /\ UNCHANGED <<size, i, j>>

MutExtendRun ==
  /\ pc = "inner" /\ j < Total /\ entries[j] = FREE
  /\ j - i + 1 # total_blocks
  /\ UNCHANGED scanVars
ExtendRun ==
  /\ pc = "inner" /\ j < Total /\ entries[j] = FREE
  /\ j - i + 1 # total_blocks
  /\ j' = j + 1
  /\ UNCHANGED <<vars, size, i, pc>>

ScanStep == \/ GiveUp \/ SkipTaken \/ StartRun
            \/ RunHitsEnd \/ RunHitsTaken \/ RunLongEnough \/ ExtendRun

\* kfree between two calls; what the last one left in its locals is gone.
FreeBetween(r) ==
  /\ ~Running
  /\ Free(r)
  /\ size' = 0 /\ i' = 0 /\ j' = 0
  /\ pc' = "ready"

ScanNext == \/ \E s \in Requests : Call(s)
            \/ ScanStep
            \/ \E r \in owned : FreeBetween(r)

\* The loops run with interrupts off: nothing else can take the processor.
ScanSpec == ScanInit /\ [][ScanNext]_scanVars /\ WF_scanVars(ScanStep)
-----------------------------------------------------------------------------
ScanTypeOK ==
  /\ size \in Requests \cup {0}
  /\ i \in Nat /\ j \in Nat
  /\ pc \in {"ready", "outer", "inner", "found", "none"}

\* What the loops have established: the call can still succeed only from
\* block i on, and blocks i .. j-1 are free but too few.
LoopInv ==
  /\ Running => \A c \in Block : c < i => ~Fits(entries, c, total_blocks)
  /\ pc = "inner" => /\ i < Total /\ i <= j /\ j <= Total
                     /\ \A k \in i .. j - 1 : entries[k] = FREE
                     /\ total_blocks >= 1 => j - i < total_blocks

\* kmalloc returns 0 only where no run of free blocks is long enough.
RefusesOnlyWhenFull == pc = "none" => NoFit(entries, total_blocks)

\* The loops implement the one-step kmalloc of Heap: they take the lowest
\* base with enough free blocks and mark exactly those.
ImplementsHeap == Spec

\* Every call returns, though its inner loop moves the outer one's index.
CallsReturn == Running ~> (pc \in {"found", "none"})
=============================================================================
