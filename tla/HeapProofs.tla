----------------------------- MODULE HeapProofs -----------------------------
(***************************************************************************)
(* Proofs about Heap and HeapScan, for every table length, block size,     *)
(* word size, set of requests and sequence of calls: first the one-step    *)
(* kmalloc, then its loops, whose invariant shows that they implement it   *)
(* and so have everything proved of it.  That the loops end is left to TLC.*)
(***************************************************************************)
EXTENDS HeapScan, FiniteSetTheorems, TLAPS

\* The inductive invariant: chains of regions in use are whole, disjoint, and
\* account for every HAS_NEXT mark, and the last blocks count allocations.
IInv == TypeOK /\ Chained /\ Disjoint /\ NoOrphanChain /\ OneBlockPerMalloc

\* heap_align_value and the division by BLOCK_SIZE give a number of blocks.
LEMMA BlocksForNat ==
  ASSUME NEW bytes \in Nat
  PROVE  BlocksFor(bytes) \in Nat
<1> USE HeapAssumption
<1>1. AlignValue(bytes) \in Nat
  <2>1. bytes \div BlockSize + 1 \in Nat
    OBVIOUS
  <2>2. (bytes \div BlockSize + 1) * BlockSize \in Nat
    BY <2>1
  <2> QED
    BY <2>2 DEF AlignValue
<1> QED
  BY <1>1 DEF BlocksFor

\* The loop of heap_free, started at a region in use, visits all its blocks
\* but the last.
LEMMA NextRunOfRegion ==
  ASSUME TypeOK, Chained, NEW r \in owned
  PROVE  NextRun(entries, r.base) = r.base .. r.base + r.len - 2
<1> USE HeapAssumption DEF TypeOK, Block
<1>1. /\ r.base \in Nat /\ r.len \in Nat \ {0}
      /\ r.base + r.len <= Total
      /\ entries[r.base + r.len - 1] = LAST
      /\ \A k \in r.base .. r.base + r.len - 2 : entries[k] = NEXT
  BY DEF Chained
<1>2. ASSUME NEW k \in r.base .. r.base + r.len - 2
      PROVE  k \in NextRun(entries, r.base)
  BY <1>1 DEF NextRun
<1>3. ASSUME NEW k \in NextRun(entries, r.base)
      PROVE  k \in r.base .. r.base + r.len - 2
  <2>1. k \in Nat /\ k >= r.base /\ \A m \in r.base .. k : entries[m] = NEXT
    BY DEF NextRun
  <2>2. k < r.base + r.len - 1
    <3>1. SUFFICES ASSUME k >= r.base + r.len - 1 PROVE FALSE
      BY <1>1, <2>1
    <3>2. r.base + r.len - 1 \in r.base .. k
      BY <1>1, <2>1, <3>1
    <3> QED
      BY <1>1, <2>1, <3>2 DEF NEXT, LAST
  <2> QED
    BY <1>1, <2>1, <2>2
<1> QED
  BY <1>2, <1>3

\* Every block of a region in use is marked taken.
LEMMA RegionsTaken ==
  ASSUME TypeOK, Chained, NEW r \in owned, NEW k \in Span(r)
  PROVE  k \in Block /\ entries[k] # FREE
  BY HeapAssumption DEF TypeOK, Chained, Span, Block, FREE, NEXT, LAST
-----------------------------------------------------------------------------
LEMMA InitIInv == Init => IInv
<1> SUFFICES ASSUME Init PROVE IInv
  OBVIOUS
<1>1. TypeOK
  BY DEF Init, TypeOK, Entry
<1>2. Chained /\ Disjoint /\ NoOrphanChain
  BY DEF Init, Chained, Disjoint, NoOrphanChain, FREE, NEXT
<1>3. LastBlocks = {}
  BY DEF Init, LastBlocks, FREE, LAST
<1> QED
  BY <1>1, <1>2, <1>3, FS_EmptySet DEF IInv, OneBlockPerMalloc, Init

\* What a successful kmalloc has found, in the words the steps below use.
LEMMA MallocFacts ==
  ASSUME TypeOK, NEW bytes \in Requests, Malloc(bytes)
  PROVE  \E b \in Block, n \in Nat \ {0} :
           /\ n = BlocksFor(bytes)
           /\ b + n <= Total
           /\ \A k \in b .. b + n - 1 : k \in Block /\ entries[k] = FREE
           /\ entries' = MarkBlocksTaken(entries, b, n)
           /\ owned' = owned \cup {Region(b, n, bytes)}
<1>1. BlocksFor(bytes) \in Nat
  <2>1. bytes \in Nat
    BY RequestsAssumption, HeapAssumption
  <2> QED
    BY <2>1, BlocksForNat
<1>2. PICK b \in Block :
        /\ IsFirstFit(entries, b, BlocksFor(bytes))
        /\ entries' = MarkBlocksTaken(entries, b, BlocksFor(bytes))
        /\ owned' = owned \cup {Region(b, BlocksFor(bytes), bytes)}
  BY DEF Malloc
<1>3. Fits(entries, b, BlocksFor(bytes))
  BY <1>2 DEF IsFirstFit
<1> QED
  BY <1>1, <1>2, <1>3, HeapAssumption DEF Fits, Block

LEMMA MallocIInv ==
  ASSUME IInv, NEW bytes \in Requests, Malloc(bytes)
  PROVE  IInv'
<1> USE HeapAssumption
<1>0. TypeOK /\ Chained /\ Disjoint /\ NoOrphanChain /\ OneBlockPerMalloc
  BY DEF IInv
<1>1. PICK b \in Block, n \in Nat \ {0} :
        /\ b + n <= Total
        /\ \A k \in b .. b + n - 1 : k \in Block /\ entries[k] = FREE
        /\ entries' = MarkBlocksTaken(entries, b, n)
        /\ owned' = owned \cup {Region(b, n, bytes)}
  BY <1>0, MallocFacts
<1> DEFINE new == Region(b, n, bytes)
<1>2. \A k \in Block : k \notin b .. b + n - 1 => entries'[k] = entries[k]
  BY <1>1 DEF MarkBlocksTaken, Block
<1>3. /\ entries'[b + n - 1] = LAST
      /\ \A k \in b .. b + n - 2 : entries'[k] = NEXT
  BY <1>1 DEF MarkBlocksTaken, Block
<1>4. \A r \in owned : Span(r) \cap (b .. b + n - 1) = {}
  BY <1>0, <1>1, RegionsTaken
<1>5. new.base = b /\ new.len = n /\ new.size = bytes
  BY DEF Region
<1>6. TypeOK'
  <2>1. entries' \in [Block -> Entry]
    BY <1>0, <1>1 DEF TypeOK, MarkBlocksTaken, Entry
  <2>2. (owned \subseteq [base : Block, len : Nat \ {0}, size : Requests])'
    BY <1>0, <1>1 DEF TypeOK, Region
  <2>3. served' \in Nat
    BY <1>0 DEF TypeOK, Malloc
  <2> QED
    BY <2>1, <2>2, <2>3 DEF TypeOK
<1>7. Chained'
  <2> SUFFICES ASSUME NEW r \in owned'
               PROVE  /\ r.base + r.len <= Total
                      /\ entries'[r.base + r.len - 1] = LAST
                      /\ \A k \in r.base .. r.base + r.len - 2 : entries'[k] = NEXT
    BY DEF Chained
  <2>1. CASE r = new
    BY <1>1, <1>3, <1>5, <2>1
  <2>2. CASE r \in owned
    <3>1. \A k \in Span(r) : entries'[k] = entries[k]
      BY <1>0, <1>2, <1>4, <2>2, RegionsTaken
    <3>2. r.base \in Nat /\ r.len \in Nat \ {0}
      BY <1>0, <2>2 DEF TypeOK, Block
    <3>3. /\ r.base + r.len - 1 \in Span(r)
          /\ \A k \in r.base .. r.base + r.len - 2 : k \in Span(r)
      BY <3>2 DEF Span
    <3> QED
      BY <1>0, <2>2, <3>1, <3>3 DEF Chained
  <2> QED
    BY <1>1, <2>1, <2>2
<1>8. Disjoint'
  <2>1. Span(new) = b .. b + n - 1
    BY <1>5 DEF Span
  <2> QED
    BY <1>0, <1>1, <1>4, <2>1 DEF Disjoint, Span
<1>9. NoOrphanChain'
  <2> SUFFICES ASSUME NEW k \in Block, entries'[k] = NEXT
               PROVE  \E r \in owned' : k \in r.base .. r.base + r.len - 2
    BY DEF NoOrphanChain
  <2>1. CASE k \in b .. b + n - 1
    <3>1. k # b + n - 1
      BY <1>3 DEF NEXT, LAST
    <3>2. k \in b .. b + n - 2
      BY <2>1, <3>1 DEF Block
    <3> QED
      BY <1>1, <1>5, <3>2
  <2>2. CASE k \notin b .. b + n - 1
    BY <1>0, <1>1, <1>2, <2>2 DEF NoOrphanChain
  <2> QED
    BY <2>1, <2>2
<1>10. OneBlockPerMalloc'
  <2>1. LastBlocks' = LastBlocks \cup {b + n - 1}
    <3>1. b + n - 1 \in Block
      BY <1>1 DEF Block
    <3>2. \A k \in Block : k \in b .. b + n - 1 =>
            entries[k] # LAST /\ (k # b + n - 1 => entries'[k] # LAST)
      BY <1>1, <1>3 DEF Block, FREE, NEXT, LAST
    <3> QED
      BY <1>2, <1>3, <3>1, <3>2 DEF LastBlocks
  <2>2. b + n - 1 \notin LastBlocks
    BY <1>1 DEF LastBlocks, Block, FREE, LAST
  <2>3. IsFiniteSet(LastBlocks)
    <3>1. IsFiniteSet(Block)
      BY FS_Interval DEF Block
    <3> QED
      BY <3>1, FS_Subset DEF LastBlocks
  <2>4. Cardinality(LastBlocks') = Cardinality(LastBlocks) + 1
    BY <2>1, <2>2, <2>3, FS_AddElement
  <2> QED
    BY <1>0, <2>4 DEF OneBlockPerMalloc, Malloc
<1> QED
  BY <1>6, <1>7, <1>8, <1>9, <1>10 DEF IInv

LEMMA FreeIInv ==
  ASSUME IInv, NEW r \in owned, Free(r)
  PROVE  IInv'
<1> USE HeapAssumption
<1>0. TypeOK /\ Chained /\ Disjoint /\ NoOrphanChain /\ OneBlockPerMalloc
  BY DEF IInv
<1>1. r.base \in Nat /\ r.len \in Nat \ {0}
  BY <1>0 DEF TypeOK, Block
<1> DEFINE gone == r.base .. r.base + r.len - 2
<1>2. entries' = [k \in Block |-> IF k \in gone THEN FREE ELSE entries[k]]
  BY <1>0, NextRunOfRegion DEF Free, Released
<1>3. owned' = owned \ {r} /\ served' = served
  BY DEF Free
<1>4. gone \subseteq Span(r)
  BY <1>1 DEF Span
<1>5. TypeOK'
  BY <1>0, <1>2, <1>3 DEF TypeOK, Entry
<1>6. Chained'
  <2> SUFFICES ASSUME NEW q \in owned, q # r
               PROVE  /\ q.base + q.len <= Total
                      /\ entries'[q.base + q.len - 1] = LAST
                      /\ \A k \in q.base .. q.base + q.len - 2 : entries'[k] = NEXT
    BY <1>3 DEF Chained
  <2>1. \A k \in Span(q) : entries'[k] = entries[k]
    BY <1>0, <1>2, <1>4, RegionsTaken DEF Disjoint
  <2>2. q.base \in Nat /\ q.len \in Nat \ {0}
    BY <1>0 DEF TypeOK, Block
  <2>3. /\ q.base + q.len - 1 \in Span(q)
        /\ \A k \in q.base .. q.base + q.len - 2 : k \in Span(q)
    BY <2>2 DEF Span
  <2> QED
    BY <1>0, <2>1, <2>3 DEF Chained
<1>7. Disjoint'
  BY <1>0, <1>3 DEF Disjoint, Span
<1>8. NoOrphanChain'
  <2> SUFFICES ASSUME NEW k \in Block, entries'[k] = NEXT
               PROVE  \E q \in owned : q # r /\ k \in q.base .. q.base + q.len - 2
    BY <1>3 DEF NoOrphanChain
  <2>1. k \notin gone /\ entries[k] = NEXT
    BY <1>2 DEF FREE, NEXT
  <2> QED
    BY <1>0, <2>1 DEF NoOrphanChain
<1>9. OneBlockPerMalloc'
  <2>1. \A k \in gone : entries[k] = NEXT
    BY <1>0 DEF Chained
  <2>2. LastBlocks' = LastBlocks
    BY <1>2, <2>1 DEF LastBlocks, FREE, NEXT, LAST
  <2> QED
    BY <1>0, <1>3, <2>2 DEF OneBlockPerMalloc
<1> QED
  BY <1>5, <1>6, <1>7, <1>8, <1>9 DEF IInv

LEMMA StutterIInv ==
  ASSUME IInv, UNCHANGED vars
  PROVE  IInv'
  BY DEF IInv, vars, TypeOK, Chained, Disjoint, NoOrphanChain, Span,
         OneBlockPerMalloc, LastBlocks

\* The invariant holds in every state of every heap, whatever its callers ask.
THEOREM HeapInv == Spec => []IInv
<1>1. Init => IInv
  BY InitIInv
<1>2. IInv /\ [Next]_vars => IInv'
  BY MallocIInv, FreeIInv, StutterIInv DEF Next
<1> QED
  BY <1>1, <1>2, PTL DEF Spec
-----------------------------------------------------------------------------
\* The loops of heap_free and ksize end inside the table: its last block is
\* never marked HAS_NEXT.
LEMMA WalkEnds ==
  ASSUME IInv
  PROVE  WalkStaysInside
<1> USE HeapAssumption
<1>1. ASSUME entries[Total - 1] = NEXT PROVE FALSE
  <2>1. PICK r \in owned : Total - 1 \in r.base .. r.base + r.len - 2
    BY <1>1 DEF IInv, NoOrphanChain, Block
  <2>2. r.base \in Nat /\ r.len \in Nat /\ r.base + r.len <= Total
    BY DEF IInv, TypeOK, Chained, Block
  <2> QED
    BY <2>1, <2>2
<1>2. \A b \in Block : Total - 1 \in b .. Total - 1
  BY DEF Block
<1> QED
  BY <1>1, <1>2 DEF WalkStaysInside

\* kmalloc never hands out a block that is in use and keeps every chain whole,
\* so that kfree and ksize see exactly the region they are given and never
\* walk past the table.
THEOREM HeapTableSound == Spec => []TableSound
<1>1. IInv => TableSound
  BY WalkEnds DEF IInv, TableSound
<1> QED
  BY <1>1, HeapInv, PTL

\* However much is freed, a heap of Total blocks serves at most Total calls
\* of kmalloc in its lifetime: each keeps one block for good.
THEOREM HeapLifetime == Spec => [](OneBlockPerMalloc /\ Lifetime)
<1>1. ASSUME IInv PROVE OneBlockPerMalloc /\ Lifetime
  <2>1. IsFiniteSet(Block) /\ Cardinality(Block) = Total
    BY HeapAssumption, FS_Interval DEF Block
  <2>2. Cardinality(LastBlocks) <= Cardinality(Block)
    BY <2>1, FS_Subset DEF LastBlocks
  <2> QED
    BY <1>1, <2>1, <2>2 DEF IInv, OneBlockPerMalloc, Lifetime
<1> QED
  BY <1>1, HeapInv, PTL

\* A block that was once the last of an allocation is never handed out again.
THEOREM HeapLastStays == Spec => LastStaysTaken
<1>1. ASSUME IInv, [Next]_vars, NEW k \in Block, entries[k] = LAST
      PROVE  entries'[k] = LAST
  <2>0. TypeOK /\ Chained
    BY <1>1 DEF IInv
  <2>1. ASSUME NEW bytes \in Requests, Malloc(bytes)
        PROVE  entries'[k] = LAST
    <3>1. PICK b \in Block, n \in Nat \ {0} :
            /\ \A m \in b .. b + n - 1 : m \in Block /\ entries[m] = FREE
            /\ entries' = MarkBlocksTaken(entries, b, n)
      BY <2>0, <2>1, MallocFacts
    <3>2. k \notin b .. b + n - 2
      BY <1>1, <3>1 DEF Block, FREE, LAST
    <3> QED
      BY <1>1, <3>1, <3>2 DEF MarkBlocksTaken
  <2>2. ASSUME NEW r \in owned, Free(r)
        PROVE  entries'[k] = LAST
    BY <1>1, <2>0, <2>2, NextRunOfRegion
       DEF Free, Released, Chained, NEXT, LAST
  <2>3. CASE UNCHANGED vars
    BY <1>1, <2>3 DEF vars
  <2> QED
    BY <1>1, <2>1, <2>2, <2>3 DEF Next
<1>2. IInv /\ [Next]_vars =>
        [\A k \in Block : entries[k] = LAST => entries'[k] = LAST]_vars
  BY <1>1
<1> QED
  BY <1>2, HeapInv, PTL DEF Spec, LastStaysTaken
-----------------------------------------------------------------------------
\* The blocks granted cover the bytes asked for: where the rounding wraps
\* round 2^32 it leaves less than a block, and heap_malloc_blocks refuses 0.
LEMMA BlocksEnough ==
  ASSUME NEW bytes \in 0 .. WordSize - 1, BlocksFor(bytes) >= 1
  PROVE  bytes <= BlocksFor(bytes) * BlockSize
<1> USE HeapAssumption
<1> DEFINE q == bytes \div BlockSize
           up == (q + 1) * BlockSize
<1>1. /\ q \in Nat
      /\ bytes = q * BlockSize + (bytes % BlockSize)
      /\ bytes % BlockSize \in 0 .. BlockSize - 1
  <2>1. bytes \in Nat /\ BlockSize \in Nat \ {0}
    OBVIOUS
  <2> QED
    BY <2>1
<1>2. up \in Nat /\ bytes < up /\ up <= bytes + BlockSize
  <2> HIDE DEF q
  <2>1. (q + 1) * BlockSize = q * BlockSize + BlockSize
    BY <1>1
  <2> QED
    BY <1>1, <2>1
<1> HIDE DEF q
<1>3. CASE bytes % BlockSize = 0
  <2>1. AlignValue(bytes) = bytes
    BY <1>3 DEF AlignValue
  <2>2. BlocksFor(bytes) = q
    BY <2>1 DEF BlocksFor, q
  <2> QED
    BY <1>1, <1>3, <2>2
<1>4. CASE bytes % BlockSize # 0
  <2>1. AlignValue(bytes) = up % WordSize
    BY <1>4 DEF AlignValue, q
  <2>2. up - BlockSize < bytes
    BY <1>1, <1>2, <1>4
  <2>3. CASE up < WordSize
    <3>1. up % WordSize = up
      BY <1>2, <2>3
    <3>2. up \div BlockSize = q + 1
      BY <1>1
    <3>3. BlocksFor(bytes) = q + 1
      BY <2>1, <3>1, <3>2 DEF BlocksFor
    <3> QED
      BY <1>2, <3>3
  <2>4. CASE up >= WordSize
    <3>1. up % WordSize < BlockSize
      <4>1. CASE WordSize <= BlockSize
        <5>1. up % WordSize \in 0 .. WordSize - 1
          BY <1>2
        <5> QED
          BY <4>1, <5>1
      <4>2. CASE WordSize > BlockSize
        <5>1. up - WordSize \in 0 .. BlockSize - 1
          BY <1>2, <2>2, <2>4
        <5>2. up % WordSize = up - WordSize
          BY <1>2, <4>2, <5>1
        <5> QED
          BY <5>1, <5>2
      <4> QED
        BY <4>1, <4>2
    <3>2. up % WordSize \in Nat
      BY <1>2
    <3>3. (up % WordSize) \div BlockSize = 0
      BY <3>1, <3>2
    <3> QED
      BY <2>1, <3>3 DEF BlocksFor
  <2> QED
    BY <1>2, <2>3, <2>4
<1> QED
  BY <1>1, <1>3, <1>4

\* The heap implements the allocator its callers rely on: every step grants
\* a fresh region, takes one back, or leaves the regions in use alone.
THEOREM HeapRefines == Spec => KeepsPromise
<1>1. Init => Promise!Init
  BY DEF Init, Promise!Init
<1>2. ASSUME IInv, [Next]_vars
      PROVE  [Promise!Next]_owned
  <2> USE HeapAssumption
  <2>1. ASSUME NEW bytes \in Requests, Malloc(bytes)
        PROVE  Promise!Next
    <3>0. TypeOK /\ Chained
      BY <1>2 DEF IInv
    <3>1. PICK b \in Block, n \in Nat \ {0} :
            /\ n = BlocksFor(bytes)
            /\ b + n <= Total
            /\ \A k \in b .. b + n - 1 : k \in Block /\ entries[k] = FREE
            /\ owned' = owned \cup {Region(b, n, bytes)}
      BY <2>1, <3>0, MallocFacts
    <3>2. bytes <= n * BlockSize
      <4>1. bytes \in 0 .. WordSize - 1
        BY RequestsAssumption
      <4>2. BlocksFor(bytes) >= 1
        BY <3>1
      <4> QED
        BY <3>1, <4>1, <4>2, BlocksEnough
    <3>3. \A r \in owned : (b .. b + n - 1) \cap Span(r) = {}
      BY <3>0, <3>1, RegionsTaken
    <3>4. Promise!Grant([base |-> b, len |-> n, size |-> bytes])
      BY <3>1, <3>2, <3>3 DEF Promise!Grant, Promise!Span, Span, Region, Block
    <3>5. b \in 0 .. Total - 1 /\ n \in 1 .. Total
      BY <3>1 DEF Block
    <3> QED
      BY <3>4, <3>5 DEF Promise!Next
  <2>2. ASSUME NEW r \in owned, Free(r)
        PROVE  Promise!Next
    BY <2>2 DEF Free, Promise!Next, Promise!Return
  <2> QED
    BY <1>2, <2>1, <2>2 DEF Next, vars
<1> QED
  BY <1>1, <1>2, HeapInv, PTL DEF Spec, KeepsPromise, Promise!Spec
-----------------------------------------------------------------------------
\* The inductive invariant: the table holds entries and the loops know what
\* they have seen of it.  Nothing about the regions in use is needed.
LoopIInv ==
  /\ entries \in [Block -> Entry]
  /\ ScanTypeOK
  /\ LoopInv

\* A size the callers may ask for has a number of blocks.
LEMMA WantedNat ==
  ASSUME ScanTypeOK
  PROVE  total_blocks \in Nat
<1>1. size \in Nat
  BY RequestsAssumption, HeapAssumption DEF ScanTypeOK
<1> QED
  BY <1>1, BlocksForNat DEF total_blocks

\* The inner loop met a taken block: no fit starts at or before it, since all
\* it saw from i on is free but too short.
LEMMA NoFitUpToTaken ==
  ASSUME LoopIInv, RunHitsTaken, NEW c \in Block, c < j + 1
  PROVE  ~Fits(entries, c, total_blocks)
<1> USE HeapAssumption DEF LoopIInv, ScanTypeOK, LoopInv, Block, Running
<1>1. SUFFICES ASSUME Fits(entries, c, total_blocks) PROVE FALSE
  OBVIOUS
<1>2. total_blocks \in Nat
  BY WantedNat
<1>3. pc = "inner" /\ j < Total /\ entries[j] # FREE
  BY DEF RunHitsTaken
<1>4. c >= i
  BY <1>1, <1>3
<1>5. total_blocks >= 1 /\ \A k \in c .. c + total_blocks - 1 : entries[k] = FREE
  BY <1>1 DEF Fits
<1>6. j \in c .. c + total_blocks - 1
  BY <1>2, <1>3, <1>4, <1>5
<1> QED
  BY <1>3, <1>5, <1>6

\* What the loops find is the run Heap's kmalloc takes.
LEMMA FoundIsFirstFit ==
  ASSUME LoopIInv, RunLongEnough
  PROVE  /\ i \in Block
         /\ IsFirstFit(entries, i, total_blocks)
<1> USE HeapAssumption DEF LoopIInv, ScanTypeOK, LoopInv, Block, Running
<1>1. total_blocks \in Nat
  BY WantedNat
<1>2. Fits(entries, i, total_blocks)
  BY <1>1 DEF RunLongEnough, Fits
<1> QED
  BY <1>2 DEF RunLongEnough, IsFirstFit
-----------------------------------------------------------------------------
LEMMA ScanInitInv == ScanInit => LoopIInv
  BY HeapAssumption
     DEF ScanInit, Init, LoopIInv, ScanTypeOK, LoopInv, Running, Entry

LEMMA ScanStepInv ==
  ASSUME LoopIInv, [ScanNext]_scanVars
  PROVE  LoopIInv'
<1> USE HeapAssumption DEF LoopIInv, ScanTypeOK, LoopInv, Block, Running
<1>0. total_blocks \in Nat
  BY WantedNat
<1>1. ASSUME NEW s \in Requests, Call(s) PROVE LoopIInv'
  BY <1>1, RequestsAssumption DEF Call, vars
<1>2. CASE GiveUp
  BY <1>2 DEF GiveUp, vars, total_blocks
<1>3. CASE SkipTaken
  <2>1. ~Fits(entries, i, total_blocks)
    BY <1>0, <1>3 DEF SkipTaken, Fits
  <2> QED
    BY <1>3, <2>1 DEF SkipTaken, vars, total_blocks
<1>4. CASE StartRun
  BY <1>0, <1>4 DEF StartRun, vars, total_blocks
<1>5. CASE RunHitsEnd
  <2>1. ~Fits(entries, i, total_blocks)
    BY <1>0, <1>5 DEF RunHitsEnd, Fits
  <2> QED
    BY <1>5, <2>1 DEF RunHitsEnd, vars, total_blocks
<1>6. CASE RunHitsTaken
  <2>1. \A c \in Block : c < j + 1 => ~Fits(entries, c, total_blocks)
    BY <1>6, NoFitUpToTaken
  <2> QED
    BY <1>6, <2>1 DEF RunHitsTaken, vars, total_blocks
<1>7. CASE RunLongEnough
  <2>1. entries' \in [Block -> Entry]
    BY <1>7 DEF RunLongEnough, MarkBlocksTaken, Entry
  <2> QED
    BY <1>7, <2>1 DEF RunLongEnough
<1>8. CASE ExtendRun
  BY <1>0, <1>8 DEF ExtendRun, vars, total_blocks
<1>9. ASSUME NEW r \in owned, FreeBetween(r) PROVE LoopIInv'
  <2>1. entries' \in [Block -> Entry]
    BY <1>9 DEF FreeBetween, Free, Released, Entry
  <2> QED
    BY <1>9, <2>1 DEF FreeBetween
<1>10. CASE UNCHANGED scanVars
  BY <1>10 DEF scanVars, total_blocks
<1> QED
  BY <1>1, <1>2, <1>3, <1>4, <1>5, <1>6, <1>7, <1>8, <1>9, <1>10
     DEF ScanNext, ScanStep

\* The indices stay in range and the loop invariant holds throughout.
THEOREM ScanInv == ScanSpec => []LoopIInv
  BY ScanInitInv, ScanStepInv, PTL DEF ScanSpec

\* What the loops have seen is what they rely on: no run before i is long
\* enough, and the run from i to j is free but too short.
THEOREM ScanLoopInv == ScanSpec => []LoopInv
<1>1. LoopIInv => LoopInv
  BY DEF LoopIInv
<1> QED
  BY <1>1, ScanInv, PTL

\* kmalloc returns 0 only where no run of free blocks would do.
THEOREM ScanRefuses == ScanSpec => []RefusesOnlyWhenFull
<1>1. ASSUME LoopIInv, [ScanNext]_scanVars, RefusesOnlyWhenFull
      PROVE  RefusesOnlyWhenFull'
  <2> USE HeapAssumption DEF RefusesOnlyWhenFull
  <2>1. CASE GiveUp
    BY <1>1, <2>1
       DEF GiveUp, NoFit, LoopIInv, ScanTypeOK, LoopInv, Running, Block,
           vars, total_blocks
  <2>2. ASSUME NEW s \in Requests, Call(s) PROVE RefusesOnlyWhenFull'
    <3>1. CASE s = 0
      <4>1. total_blocks' = 0
        BY <2>2, <3>1 DEF Call, total_blocks, BlocksFor, AlignValue
      <4> QED
        BY <4>1 DEF NoFit, Fits
    <3>2. CASE s # 0
      BY <2>2, <3>2 DEF Call
    <3> QED
      BY <3>1, <3>2
  <2>3. CASE UNCHANGED scanVars
    BY <1>1, <2>3 DEF scanVars, total_blocks
  <2>4. CASE SkipTaken \/ StartRun \/ RunHitsEnd \/ RunHitsTaken
             \/ RunLongEnough \/ ExtendRun
    BY <2>4 DEF SkipTaken, StartRun, RunHitsEnd, RunHitsTaken,
                RunLongEnough, ExtendRun
  <2>5. ASSUME NEW r \in owned, FreeBetween(r) PROVE RefusesOnlyWhenFull'
    BY <2>5 DEF FreeBetween
  <2> QED
    BY <1>1, <2>1, <2>2, <2>3, <2>4, <2>5 DEF ScanNext, ScanStep
<1>2. ScanInit => RefusesOnlyWhenFull
  BY DEF ScanInit, RefusesOnlyWhenFull
<1> QED
  BY <1>1, <1>2, ScanInv, PTL DEF ScanSpec

\* The loops of heap_malloc_blocks implement Heap: the step that marks the
\* run they found is Heap's kmalloc, kfree is Heap's, and the rest stutters.
THEOREM ScanImplementsHeap == ScanSpec => ImplementsHeap
<1>1. ScanInit => Init
  BY DEF ScanInit
<1>2. ASSUME LoopIInv, [ScanNext]_scanVars
      PROVE  [Next]_vars
  <2>1. CASE RunLongEnough
    <3>1. size \in Requests /\ size # 0
      <4>1. total_blocks # 0
        BY <1>2, <2>1, HeapAssumption
           DEF RunLongEnough, LoopIInv, ScanTypeOK, LoopInv
      <4>2. size # 0
        BY <4>1, HeapAssumption DEF total_blocks, BlocksFor, AlignValue
      <4> QED
        BY <1>2, <4>2 DEF LoopIInv, ScanTypeOK
    <3>2. Malloc(size)
      BY <1>2, <2>1, <3>1, FoundIsFirstFit
         DEF Malloc, RunLongEnough, total_blocks
    <3> QED
      BY <3>1, <3>2 DEF Next
  <2>2. ASSUME NEW r \in owned, FreeBetween(r) PROVE Next
    BY <2>2 DEF FreeBetween, Next
  <2>3. ASSUME NEW s \in Requests, Call(s) PROVE UNCHANGED vars
    BY <2>3 DEF Call
  <2>4. CASE UNCHANGED scanVars
    BY <2>4 DEF scanVars, vars
  <2>5. CASE GiveUp \/ SkipTaken \/ StartRun \/ RunHitsEnd
             \/ RunHitsTaken \/ ExtendRun
    BY <2>5 DEF GiveUp, SkipTaken, StartRun, RunHitsEnd, RunHitsTaken,
                ExtendRun, vars
  <2> QED
    BY <1>2, <2>1, <2>2, <2>3, <2>4, <2>5 DEF ScanNext, ScanStep
<1> QED
  BY <1>1, <1>2, ScanInv, PTL DEF ScanSpec, ImplementsHeap, Spec

\* So all that is proved of Heap holds of the loops: the table and the regions
\* agree, and every region handed out is large enough and shares no block.
THEOREM ScanSound == ScanSpec => []TableSound /\ KeepsPromise
  BY ScanImplementsHeap, HeapTableSound, HeapRefines, PTL DEF ImplementsHeap
=============================================================================
