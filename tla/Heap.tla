-------------------------------- MODULE Heap --------------------------------
(***************************************************************************)
(* The kernel heap: kmalloc, kzalloc, vmalloc and kfree, vfree over one    *)
(* block table.  Interrupt gates keep the kernel from being interrupted    *)
(* (idt.c: type_attr 0b11101110), so each call is one step.  A call that   *)
(* returns 0 changes nothing and is a stuttering step.  HeapScan.tla takes *)
(* the search loop by loop and implements this module.                     *)
(***************************************************************************)
EXTENDS HeapTable

CONSTANT Requests    \* the sizes callers ask for

ASSUME RequestsAssumption == Requests \subseteq 0 .. WordSize - 1

VARIABLES entries,   \* heap.table->entries
          owned,     \* history: the regions [base, len, size] in callers' hands
          served     \* history: how many allocations ever succeeded

vars == <<entries, owned, served>>

Region(b, n, s) == [base |-> b, len |-> n, size |-> s]
Span(r) == r.base .. r.base + r.len - 1

\* heap_create, from kheap_init: all blocks are free to use.
Init ==
  /\ entries = [k \in Block |-> FREE]
  /\ owned = {}
  /\ served = 0

Malloc(size) ==
  LET n == BlocksFor(size) IN
  /\ size # 0
  /\ \E b \in Block :
       /\ IsFirstFit(entries, b, n)
       /\ entries' = MarkBlocksTaken(entries, b, n)
       /\ owned' = owned \cup {Region(b, n, size)}
  /\ served' = served + 1

\* A caller gives back a pointer it got from Malloc and has not given back.
Free(r) ==
  /\ r \in owned
  /\ entries' = Released(entries, r.base)
  /\ owned' = owned \ {r}
  /\ UNCHANGED served

Next == \/ \E size \in Requests : Malloc(size)
        \/ \E r \in owned : Free(r)

Spec == Init /\ [][Next]_vars
-----------------------------------------------------------------------------
TypeOK ==
  /\ entries \in [Block -> Entry]
  /\ owned \subseteq [base : Block, len : Nat \ {0}, size : Requests]
  /\ served \in Nat

\* Every region in use lies in the table as a chain: HAS_NEXT on all its
\* blocks but the last, which is only TAKEN.  heap_free and ksize follow it.
Chained ==
  \A r \in owned :
    /\ r.base + r.len <= Total
    /\ entries[r.base + r.len - 1] = LAST
    /\ \A k \in r.base .. r.base + r.len - 2 : entries[k] = NEXT

\* No block is in two regions in use.
Disjoint ==
  \A r, q \in owned : r # q => Span(r) \cap Span(q) = {}

\* A block marked HAS_NEXT is inside a region in use, never in its last
\* place: no free leaves half a chain behind for a later one to run into.
NoOrphanChain ==
  \A k \in Block : entries[k] = NEXT =>
    \E r \in owned : k \in r.base .. r.base + r.len - 2

\* The loops of heap_free and ksize have no bound of their own: the table
\* must never let them run past its end, from whatever block they start.
WalkStaysInside ==
  \A b \in Block : \E k \in b .. Total - 1 : entries[k] # NEXT

\* The table and the regions in use agree, so that every free and every size
\* question sees exactly the region it was given.
TableSound ==
  TypeOK /\ Chained /\ Disjoint /\ NoOrphanChain /\ WalkStaysInside

LastBlocks == {k \in Block : entries[k] = LAST}

\* Each successful allocation costs one block for good: as many blocks are
\* marked as a last block as allocations ever succeeded, freed or not ...
OneBlockPerMalloc == Cardinality(LastBlocks) = served

\* ... so over its lifetime the heap serves at most Total allocations.
Lifetime == served <= Total

\* A block once marked as a last block is never handed out again.
LastStaysTaken ==
  [][\A k \in Block : entries[k] = LAST => entries'[k] = LAST]_vars

\* The heap keeps the allocator's promise to its callers.
Promise == INSTANCE AllocatorSpec WITH live <- owned
KeepsPromise == Promise!Spec
=============================================================================
