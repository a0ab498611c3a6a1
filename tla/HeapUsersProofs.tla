-------------------------- MODULE HeapUsersProofs ---------------------------
(***************************************************************************)
(* Proofs about the heap's two users that are modelled over its table.     *)
(* UserMemory, for every heap, table of allocations and set of sizes: what *)
(* a process can write, what it gives back and what it can never see       *)
(* again, through any sequence of its system calls.  ProcessLoad, for      *)
(* every heap, file and size of the objects: what a load holds on every    *)
(* path, and that it never ends in a program short of something.           *)
(***************************************************************************)
EXTENDS UserMemory, ProcessLoad, FiniteSetTheorems, TLAPS

\* Each region in the process's table is a whole chain of the heap's.
Chains == \A i \in Live :
  LET r == slots[i] IN
  /\ r.base + r.pages <= Total
  /\ entries[r.base + r.pages - 1] = LAST
  /\ \A k \in r.base .. r.base + r.pages - 2 : entries[k] = NEXT

Apart == \A i, j \in Live : i # j => PagesOf(slots[i]) \cap PagesOf(slots[j]) = {}

\* A page the program may not see is the last one of a region it freed, or
\* free and followed by such pages up to that last one.
EndsHidden(k, last) ==
  /\ last > k /\ entries[last] = LAST
  /\ \A m \in k .. last : Absent(m)
Hidden == \A k \in Block : pte[k] = "none" =>
  /\ entries[k] # NEXT
  /\ entries[k] = FREE => \E last \in Block : EndsHidden(k, last)

\* While print copies, it remembers the entry of its block as it is.
Copying == cpu = "copied" => copy.block \in Block /\ copy.old = pte[copy.block]

IInv == /\ TypeOK /\ Chains /\ Apart /\ Hidden /\ Copying
        /\ WritesOnlyItsOwn /\ CopyFaultNeedsLargeFree

\* heap_align_value and the division by BLOCK_SIZE give a number of blocks.
LEMMA BlocksForNat ==
  ASSUME NEW size \in Sizes
  PROVE  BlocksFor(size) \in Nat
<1> USE HeapAssumption
<1>0. size \in Nat
  BY UserMemoryAssumption
<1>1. AlignValue(size) \in Nat
  <2>1. size \div BlockSize + 1 \in Nat
    BY <1>0
  <2>2. (size \div BlockSize + 1) * BlockSize \in Nat
    BY <2>1
  <2> QED
    BY <1>0, <2>2 DEF AlignValue
<1> QED
  BY <1>1 DEF BlocksFor

\* The run of blocks a search returns, and the table after it is taken.
LEMMA FirstFitFacts ==
  ASSUME NEW t \in [Block -> Entry], NEW b \in Block, NEW n \in Nat,
         IsFirstFit(t, b, n)
  PROVE  /\ n >= 1 /\ b + n <= Total
         /\ \A k \in b .. b + n - 1 : k \in Block /\ t[k] = FREE
         /\ b - 1 \in Block => t[b - 1] # FREE
         /\ MarkBlocksTaken(t, b, n) \in [Block -> Entry]
         /\ \A k \in Block : k \notin b .. b + n - 1 =>
              MarkBlocksTaken(t, b, n)[k] = t[k]
         /\ MarkBlocksTaken(t, b, n)[b + n - 1] = LAST
         /\ \A k \in b .. b + n - 2 : MarkBlocksTaken(t, b, n)[k] = NEXT
<1> USE HeapAssumption DEF Block
<1>1. /\ n >= 1 /\ b + n <= Total
      /\ \A k \in b .. b + n - 1 : k \in Block /\ t[k] = FREE
  BY DEF IsFirstFit, Fits
<1>2. ASSUME b - 1 \in Block, t[b - 1] = FREE PROVE FALSE
  <2>1. Fits(t, b - 1, n)
    BY <1>1, <1>2 DEF Fits
  <2> QED
    BY <1>2, <2>1 DEF IsFirstFit
<1>3. MarkBlocksTaken(t, b, n) \in [Block -> Entry]
  BY DEF MarkBlocksTaken, Entry
<1>4. /\ \A k \in Block : k \notin b .. b + n - 1 =>
              MarkBlocksTaken(t, b, n)[k] = t[k]
      /\ MarkBlocksTaken(t, b, n)[b + n - 1] = LAST
      /\ \A k \in b .. b + n - 2 : MarkBlocksTaken(t, b, n)[k] = NEXT
  BY <1>1 DEF MarkBlocksTaken
<1> QED
  BY <1>1, <1>2, <1>3, <1>4

\* What heap_free makes of a chain: all but its last block become free.
LEMMA ReleasedChain ==
  ASSUME NEW t \in [Block -> Entry], NEW b \in Block, NEW n \in Nat \ {0},
         b + n <= Total, t[b + n - 1] = LAST,
         \A k \in b .. b + n - 2 : t[k] = NEXT
  PROVE  Released(t, b) = [k \in Block |-> IF k \in b .. b + n - 2 THEN FREE
                                           ELSE t[k]]
<1> USE HeapAssumption DEF Block
<1>1. ASSUME NEW k \in b .. b + n - 2
      PROVE  k \in NextRun(t, b)
  BY DEF NextRun
<1>2. ASSUME NEW k \in NextRun(t, b)
      PROVE  k \in b .. b + n - 2
  <2>1. k \in Nat /\ k >= b /\ \A m \in b .. k : t[m] = NEXT
    BY DEF NextRun
  <2>2. SUFFICES ASSUME k >= b + n - 1 PROVE FALSE
    BY <2>1
  <2>3. b + n - 1 \in b .. k
    BY <2>1, <2>2
  <2> QED
    BY <2>1, <2>3 DEF NEXT, LAST
<1>3. NextRun(t, b) = b .. b + n - 2
  BY <1>1, <1>2
<1> QED
  BY <1>3 DEF Released

\* The pages of a region of the process, and what the heap says of them.
LEMMA RegionFacts ==
  ASSUME IInv, NEW i \in Live
  PROVE  /\ i \in Slot
         /\ slots[i].base \in Block /\ slots[i].pages \in Nat \ {0}
         /\ \A k \in PagesOf(slots[i]) :
              k \in Block /\ entries[k] # FREE /\ pte[k] = "rw"
<1> USE HeapAssumption
<1>1. i \in Slot /\ slots[i] # Null
  BY DEF Live
<1>2. slots[i].base \in Block /\ slots[i].pages \in 1 .. Total
  BY <1>1 DEF IInv, TypeOK
<1>3. ASSUME NEW k \in PagesOf(slots[i])
      PROVE  k \in Block /\ entries[k] # FREE
  BY <1>2 DEF IInv, Chains, PagesOf, Block, FREE, NEXT, LAST
<1>4. ASSUME NEW k \in PagesOf(slots[i])
      PROVE  pte[k] = "rw"
  BY <1>3 DEF IInv, WritesOnlyItsOwn
<1> QED
  BY <1>1, <1>2, <1>3, <1>4
-----------------------------------------------------------------------------
LEMMA InitIInv == Init => IInv
<1> SUFFICES ASSUME Init PROVE IInv
  OBVIOUS
<1>1. TypeOK
  BY DEF Init, TypeOK, Entry
<1>2. Live = {}
  BY DEF Init, Live
<1> QED
  BY <1>1, <1>2 DEF IInv, Init, Chains, Apart, Hidden, Copying,
                    WritesOnlyItsOwn, CopyFaultNeedsLargeFree, NoCopy

LEMMA MallocIInv ==
  ASSUME IInv, NEW size \in Sizes, SysMalloc(size)
  PROVE  IInv'
<1> USE HeapAssumption
<1>1. PICK b \in Block, i \in Slot, n \in Nat :
        /\ IsFirstFit(entries, b, n) /\ FirstEmpty(i)
        /\ entries' = MarkBlocksTaken(entries, b, n)
        /\ slots' = [slots EXCEPT ![i] = [base |-> b, pages |-> n]]
        /\ pte' = Remap(b, n, "rw")
  BY BlocksForNat DEF SysMalloc
<1>2. entries \in [Block -> Entry] /\ pte \in [Block -> {"ro", "rw", "none"}]
  BY DEF IInv, TypeOK
<1>3. /\ n >= 1 /\ b + n <= Total
      /\ \A k \in b .. b + n - 1 : k \in Block /\ entries[k] = FREE
      /\ b - 1 \in Block => entries[b - 1] # FREE
      /\ entries' \in [Block -> Entry]
      /\ \A k \in Block : k \notin b .. b + n - 1 => entries'[k] = entries[k]
      /\ entries'[b + n - 1] = LAST
      /\ \A k \in b .. b + n - 2 : entries'[k] = NEXT
  BY <1>1, <1>2, FirstFitFacts
<1> DEFINE new == [base |-> b, pages |-> n]
<1>4. slots[i] = Null /\ i \notin Live
  BY <1>1 DEF FirstEmpty, Live
<1>5. /\ new.base = b /\ new.pages = n /\ new # Null
      /\ PagesOf(new) = b .. b + n - 1
  BY DEF Null, PagesOf, Block
<1>6. slots'[i] = new /\ \A j \in Slot : j # i => slots'[j] = slots[j]
  BY <1>1 DEF IInv, TypeOK
<1> HIDE DEF new
<1>7. Live' = Live \cup {i} /\ \A j \in Live : j # i /\ slots'[j] = slots[j]
  BY <1>4, <1>5, <1>6 DEF Live
<1>8. /\ \A k \in Block : pte'[k] = IF k \in b .. b + n - 1 THEN "rw" ELSE pte[k]
      /\ pte' \in [Block -> {"ro", "rw", "none"}]
  BY <1>1, <1>2 DEF Remap
<1>9. \A j \in Live : PagesOf(slots[j]) \cap (b .. b + n - 1) = {}
  BY <1>3, RegionFacts
<1>10. TypeOK'
  <2>1. new \in [base : Block, pages : 1 .. Total]
    BY <1>3 DEF new, Block
  <2>2. slots' \in [Slot -> [base : Block, pages : 1 .. Total] \cup {Null}]
    BY <1>1, <2>1 DEF IInv, TypeOK, new
  <2>3. /\ cpu' \in {"ok", "copied"} \cup Lost
        /\ copy' \in [block : Block, old : {"ro", "rw", "none"}] \cup {NoCopy}
    BY DEF SysMalloc, IInv, TypeOK
  <2> QED
    BY <1>3, <1>8, <2>2, <2>3 DEF TypeOK
<1>11. Chains'
  <2> SUFFICES ASSUME NEW j \in Live'
               PROVE  /\ slots'[j].base + slots'[j].pages <= Total
                      /\ entries'[slots'[j].base + slots'[j].pages - 1] = LAST
                      /\ \A k \in slots'[j].base .. slots'[j].base + slots'[j].pages - 2 :
                           entries'[k] = NEXT
    BY DEF Chains
  <2>1. CASE j = i
    BY <1>3, <1>5, <1>6, <2>1
  <2>2. CASE j \in Live
    <3>1. \A k \in PagesOf(slots[j]) : entries'[k] = entries[k]
      BY <1>3, <1>9, <2>2, RegionFacts
    <3>2. slots[j].base \in Nat /\ slots[j].pages \in Nat \ {0}
      BY <2>2, RegionFacts DEF Block
    <3> QED
      BY <1>7, <2>2, <3>1, <3>2 DEF PagesOf, IInv, Chains
  <2> QED
    BY <1>7, <2>1, <2>2
<1>12. Apart'
  <2> SUFFICES ASSUME NEW j \in Live', NEW m \in Live', j # m
               PROVE  PagesOf(slots'[j]) \cap PagesOf(slots'[m]) = {}
    BY DEF Apart, PagesOf
  <2>1. PagesOf(slots'[i]) = b .. b + n - 1
    BY <1>5, <1>6
  <2> QED
    BY <1>7, <1>9, <2>1 DEF IInv, Apart
<1>13. WritesOnlyItsOwn'
  <2> SUFFICES ASSUME NEW k \in Block
               PROVE  pte'[k] = "rw" <=> \E j \in Live' : k \in PagesOf(slots'[j])
    BY DEF WritesOnlyItsOwn, PagesOf
  <2>1. k \in PagesOf(slots'[i]) <=> k \in b .. b + n - 1
    BY <1>5, <1>6
  <2>2. pte[k] = "rw" <=> \E j \in Live : k \in PagesOf(slots[j])
    BY DEF IInv, WritesOnlyItsOwn
  <2> QED
    BY <1>7, <1>8, <2>1, <2>2
<1>14. Hidden'
  <2> SUFFICES ASSUME NEW k \in Block, pte'[k] = "none"
               PROVE  /\ entries'[k] # NEXT
                      /\ entries'[k] = FREE =>
                           \E last \in Block : EndsHidden(k, last)'
    BY DEF Hidden
  <2>1. k \notin b .. b + n - 1 /\ pte[k] = "none" /\ entries'[k] = entries[k]
    BY <1>3, <1>8
  <2>2. entries[k] # NEXT
    BY <2>1 DEF IInv, Hidden
  <2>3. ASSUME entries[k] = FREE
        PROVE  \E last \in Block : EndsHidden(k, last)'
    <3>1. PICK last \in Block : EndsHidden(k, last)
      BY <2>1, <2>3 DEF IInv, Hidden
    <3>2. /\ last > k /\ entries[last] = LAST
          /\ \A m \in k .. last : m \in Block /\ pte[m] = "none"
      BY <3>1 DEF EndsHidden, Absent
    <3>3. CASE \E m \in k .. last : m \in b .. b + n - 1
      <4>1. k < b /\ b - 1 \in k .. last
        BY <1>3, <2>1, <3>2, <3>3 DEF Block
      <4>2. b - 1 \in Block /\ pte[b - 1] = "none"
        BY <3>2, <4>1
      <4>3. entries[b - 1] # FREE /\ entries[b - 1] # NEXT
        BY <1>3, <4>2 DEF IInv, Hidden
      <4>4. entries[b - 1] = LAST
        BY <1>2, <4>2, <4>3 DEF Entry
      <4>5. b - 1 > k
        BY <2>3, <4>1, <4>3 DEF Block
      <4>6. entries'[b - 1] = LAST
        BY <1>3, <4>2, <4>4 DEF Block
      <4>7. \A m \in k .. b - 1 : m \in Block /\ pte'[m] = "none"
        BY <1>8, <3>2, <4>1 DEF Block
      <4> QED
        BY <4>2, <4>5, <4>6, <4>7 DEF EndsHidden, Absent
    <3>4. CASE \A m \in k .. last : m \notin b .. b + n - 1
      <4>1. \A m \in k .. last : m \in Block /\ pte'[m] = "none"
        BY <1>8, <3>2, <3>4
      <4>2. last \in k .. last
        BY <3>2 DEF Block
      <4>3. entries'[last] = LAST
        BY <1>3, <3>2, <3>4, <4>2
      <4> QED
        BY <3>2, <4>1, <4>3 DEF EndsHidden, Absent
    <3> QED
      BY <3>3, <3>4
  <2> QED
    BY <2>1, <2>2, <2>3
<1>15. CopyFaultNeedsLargeFree' /\ Copying'
  BY DEF SysMalloc, CopyFaultNeedsLargeFree, Copying
<1> QED
  BY <1>10, <1>11, <1>12, <1>13, <1>14, <1>15 DEF IInv

\* A step that takes or gives back blocks for the kernel only: free blocks
\* become LAST or stay free, all others stay as they are, and the program's
\* table and pages are not touched.
LEMMA KernelBlocks ==
  ASSUME IInv, entries' \in [Block -> Entry], UNCHANGED <<slots, pte>>,
         cpu' \in {"ok", "copied"} \cup Lost,
         copy' \in [block : Block, old : {"ro", "rw", "none"}] \cup {NoCopy},
         Copying', CopyFaultNeedsLargeFree',
         \A k \in Block : \/ entries'[k] = entries[k]
                          \/ entries[k] = FREE /\ entries'[k] = LAST
  PROVE  IInv'
<1> USE HeapAssumption
<1>1. TypeOK'
  BY DEF IInv, TypeOK
<1>2. Live' = Live
  BY DEF Live
<1>3. Chains'
  <2> SUFFICES ASSUME NEW j \in Live
               PROVE  /\ slots[j].base + slots[j].pages <= Total
                      /\ entries'[slots[j].base + slots[j].pages - 1] = LAST
                      /\ \A k \in slots[j].base .. slots[j].base + slots[j].pages - 2 :
                           entries'[k] = NEXT
    BY <1>2 DEF Chains
  <2>1. \A k \in PagesOf(slots[j]) : k \in Block /\ entries'[k] = entries[k]
    BY RegionFacts
  <2>2. slots[j].base \in Nat /\ slots[j].pages \in Nat \ {0}
    BY RegionFacts DEF Block
  <2> QED
    BY <2>1, <2>2 DEF PagesOf, IInv, Chains
<1>4. Apart'
  BY <1>2 DEF IInv, Apart
<1>5. WritesOnlyItsOwn'
  BY <1>2 DEF IInv, WritesOnlyItsOwn
<1>6. Hidden'
  <2> SUFFICES ASSUME NEW k \in Block, pte[k] = "none"
               PROVE  /\ entries'[k] # NEXT
                      /\ entries'[k] = FREE =>
                           \E last \in Block : EndsHidden(k, last)'
    BY DEF Hidden
  <2>1. entries'[k] # NEXT
    BY DEF IInv, Hidden, NEXT, LAST
  <2>2. ASSUME entries'[k] = FREE
        PROVE  \E last \in Block : EndsHidden(k, last)'
    <3>1. entries[k] = FREE
      BY <2>2 DEF FREE, LAST
    <3>2. PICK last \in Block : EndsHidden(k, last)
      BY <3>1 DEF IInv, Hidden
    <3>3. entries'[last] = LAST
      BY <3>2 DEF EndsHidden
    <3> QED
      BY <3>2, <3>3 DEF EndsHidden, Absent
  <2> QED
    BY <2>1, <2>2
<1> QED
  BY <1>1, <1>3, <1>4, <1>5, <1>6 DEF IInv

LEMMA MallocNoSlotIInv ==
  ASSUME IInv, NEW size \in Sizes, SysMallocNoSlot(size)
  PROVE  IInv'
<1> USE HeapAssumption
<1>0. PICK b \in Block, n \in Nat :
        /\ IsFirstFit(entries, b, n)
        /\ entries' = Released(MarkBlocksTaken(entries, b, n), b)
  BY BlocksForNat DEF SysMallocNoSlot
<1>1. PICK t : /\ IsFirstFit(entries, b, n)
               /\ t = MarkBlocksTaken(entries, b, n)
               /\ entries' = Released(t, b)
  BY <1>0
<1>2. entries \in [Block -> Entry]
  BY DEF IInv, TypeOK
<1>3. /\ n >= 1 /\ b + n <= Total
      /\ \A k \in b .. b + n - 1 : k \in Block /\ entries[k] = FREE
      /\ b - 1 \in Block => entries[b - 1] # FREE
      /\ t \in [Block -> Entry]
      /\ \A k \in Block : k \notin b .. b + n - 1 => t[k] = entries[k]
      /\ t[b + n - 1] = LAST
      /\ \A k \in b .. b + n - 2 : t[k] = NEXT
  BY <1>1, <1>2, FirstFitFacts
<1>4. entries' = [k \in Block |-> IF k \in b .. b + n - 2 THEN FREE ELSE t[k]]
  BY <1>1, <1>3, ReleasedChain
<1>5. entries' \in [Block -> Entry]
  BY <1>3, <1>4 DEF Entry
<1>6. \A k \in Block : \/ entries'[k] = entries[k]
                       \/ entries[k] = FREE /\ entries'[k] = LAST
  BY <1>3, <1>4 DEF Block
<1>7. /\ CopyFaultNeedsLargeFree' /\ Copying'
      /\ cpu' \in {"ok", "copied"} \cup Lost
      /\ copy' \in [block : Block, old : {"ro", "rw", "none"}] \cup {NoCopy}
  BY DEF SysMallocNoSlot, CopyFaultNeedsLargeFree, Copying, IInv, TypeOK
<1> QED
  BY <1>5, <1>6, <1>7, KernelBlocks DEF SysMallocNoSlot

\* One block for a string the kernel keeps: the search's block becomes LAST.
LEMMA StringBlock ==
  ASSUME NEW t \in [Block -> Entry], NEW b \in Block, IsFirstFit(t, b, 1)
  PROVE  /\ MarkBlocksTaken(t, b, 1) \in [Block -> Entry]
         /\ \A k \in Block : MarkBlocksTaken(t, b, 1)[k] = IF k = b THEN LAST ELSE t[k]
         /\ t[b] = FREE
  BY FirstFitFacts, HeapAssumption DEF Block

LEMMA ShowBlocks ==
  ASSUME NEW t \in [Block -> Entry], Show(t)
  PROVE  /\ entries' \in [Block -> Entry]
         /\ \A k \in Block : \/ entries'[k] = t[k]
                             \/ t[k] = FREE /\ entries'[k] = LAST
  BY StringBlock DEF Show

LEMMA FreeIInv ==
  ASSUME IInv, NEW i \in Slot, SysFree(i)
  PROVE  IInv'
<1> USE HeapAssumption
<1> DEFINE b == slots[i].base
           n == slots[i].pages
<1>1. /\ i \in Live
      /\ entries' = Released(entries, b)
      /\ slots' = [slots EXCEPT ![i] = Null]
      /\ pte' = Remap(b, n, "none")
  BY DEF SysFree
<1>2. /\ b \in Block /\ n \in Nat \ {0}
      /\ \A k \in PagesOf(slots[i]) : k \in Block /\ entries[k] # FREE
  BY <1>1, RegionFacts
<1>3. /\ b + n <= Total /\ entries[b + n - 1] = LAST
      /\ \A k \in b .. b + n - 2 : entries[k] = NEXT
  BY <1>1 DEF IInv, Chains
<1>4. PagesOf(slots[i]) = b .. b + n - 1
  BY DEF PagesOf
<1> HIDE DEF b, n
<1>5. entries' = [k \in Block |-> IF k \in b .. b + n - 2 THEN FREE ELSE entries[k]]
  BY <1>1, <1>2, <1>3, ReleasedChain DEF IInv, TypeOK
<1>6. /\ \A k \in Block : pte'[k] = IF k \in b .. b + n - 1 THEN "none" ELSE pte[k]
      /\ pte' \in [Block -> {"ro", "rw", "none"}]
  BY <1>1 DEF Remap, IInv, TypeOK
<1>7. /\ Live' = Live \ {i}
      /\ \A j \in Live' : j # i /\ j \in Live /\ slots'[j] = slots[j]
  BY <1>1 DEF Live, IInv, TypeOK
<1>8. \A j \in Live' : PagesOf(slots[j]) \cap (b .. b + n - 1) = {}
  BY <1>1, <1>4, <1>7 DEF IInv, Apart
<1>9. TypeOK'
  <2>1. entries' \in [Block -> Entry]
    BY <1>5 DEF IInv, TypeOK, Entry
  <2>2. slots' \in [Slot -> [base : Block, pages : 1 .. Total] \cup {Null}]
    BY <1>1 DEF IInv, TypeOK
  <2>3. /\ cpu' \in {"ok", "copied"} \cup Lost
        /\ copy' \in [block : Block, old : {"ro", "rw", "none"}] \cup {NoCopy}
    BY DEF SysFree, IInv, TypeOK
  <2> QED
    BY <1>6, <2>1, <2>2, <2>3 DEF TypeOK
<1>10. Chains'
  <2> SUFFICES ASSUME NEW j \in Live'
               PROVE  /\ slots[j].base + slots[j].pages <= Total
                      /\ entries'[slots[j].base + slots[j].pages - 1] = LAST
                      /\ \A k \in slots[j].base .. slots[j].base + slots[j].pages - 2 :
                           entries'[k] = NEXT
    BY <1>7 DEF Chains
  <2>1. \A k \in PagesOf(slots[j]) : k \in Block /\ k \notin b .. b + n - 1
    BY <1>7, <1>8, RegionFacts
  <2>2. \A k \in PagesOf(slots[j]) : entries'[k] = entries[k]
    BY <1>2, <1>5, <2>1 DEF Block
  <2>3. slots[j].base \in Nat /\ slots[j].pages \in Nat \ {0}
    BY <1>7, RegionFacts DEF Block
  <2> QED
    BY <1>7, <2>2, <2>3 DEF PagesOf, IInv, Chains
<1>11. Apart'
  BY <1>7 DEF IInv, Apart
<1>12. WritesOnlyItsOwn'
  <2> SUFFICES ASSUME NEW k \in Block
               PROVE  pte'[k] = "rw" <=> \E j \in Live' : k \in PagesOf(slots'[j])
    BY DEF WritesOnlyItsOwn, PagesOf
  <2>1. pte[k] = "rw" <=> \E j \in Live : k \in PagesOf(slots[j])
    BY DEF IInv, WritesOnlyItsOwn
  <2>2. CASE k \in b .. b + n - 1
    BY <1>6, <1>7, <1>8, <2>2
  <2>3. CASE k \notin b .. b + n - 1
    BY <1>4, <1>6, <1>7, <2>1, <2>3
  <2> QED
    BY <2>2, <2>3
<1>13. Hidden'
  <2> SUFFICES ASSUME NEW k \in Block, pte'[k] = "none"
               PROVE  /\ entries'[k] # NEXT
                      /\ entries'[k] = FREE =>
                           \E last \in Block : EndsHidden(k, last)'
    BY DEF Hidden
  <2>1. CASE k \in b .. b + n - 2
    <3>1. PICK last \in Block : last = b + n - 1
      BY <1>2, <1>3 DEF Block
    <3>2. last > k /\ entries'[last] = LAST
      BY <1>2, <1>3, <1>5, <2>1, <3>1 DEF Block
    <3>3. \A m \in k .. last : m \in Block /\ pte'[m] = "none"
      BY <1>2, <1>3, <1>6, <2>1, <3>1 DEF Block
    <3>4. EndsHidden(k, last)'
      BY <3>2, <3>3 DEF EndsHidden, Absent
    <3> QED
      BY <1>5, <2>1, <3>4 DEF FREE, NEXT
  <2>2. CASE k = b + n - 1
    BY <1>2, <1>3, <1>5, <2>2 DEF Block, FREE, NEXT, LAST
  <2>3. CASE k \notin b .. b + n - 1
    <3>1. pte[k] = "none" /\ entries'[k] = entries[k]
      BY <1>2, <1>5, <1>6, <2>3 DEF Block
    <3>2. ASSUME entries[k] = FREE
          PROVE  \E last \in Block : EndsHidden(k, last)'
      <4>1. PICK last \in Block : EndsHidden(k, last)
        BY <3>1, <3>2 DEF IInv, Hidden
      <4>2. /\ last > k /\ entries[last] = LAST
            /\ \A m \in k .. last : m \in Block /\ pte[m] = "none"
        BY <4>1 DEF EndsHidden, Absent
      <4>3. \A m \in k .. last : m \in Block /\ pte'[m] = "none"
        BY <1>6, <4>2
      <4>4. pte[last] = "none"
        BY <4>2 DEF Block
      <4>5. last \notin b .. b + n - 2
        BY <1>3, <4>2 DEF NEXT, LAST
      <4>6. entries'[last] = LAST
        BY <1>5, <4>2, <4>5
      <4> QED
        BY <4>2, <4>3, <4>6 DEF EndsHidden, Absent
    <3> QED
      BY <3>1, <3>2 DEF IInv, Hidden
  <2> QED
    BY <1>2, <2>1, <2>2, <2>3 DEF Block
<1>14. CopyFaultNeedsLargeFree' /\ Copying'
  BY DEF SysFree, CopyFaultNeedsLargeFree, Copying
<1> QED
  BY <1>9, <1>10, <1>11, <1>12, <1>13, <1>14 DEF IInv

\* strncpy is stopped by its block's page only where that page is absent.
LEMMA CopyEndsFacts ==
  ASSUME NEW b, NEW k, NEW goesOn \in BOOLEAN
  PROVE  /\ CopyEnds(b, k, goesOn) \in {"copied"} \cup Lost
         /\ CopyEnds(b, k, goesOn) = "copy" => Absent(b)
  BY DEF CopyEnds, Lost

LEMMA PrintIInv ==
  ASSUME IInv, SysPrint
  PROVE  IInv'
<1> USE HeapAssumption
<1>1. PICK b \in Block :
        /\ IsFirstFit(entries, b, 1)
        /\ entries' = MarkBlocksTaken(entries, b, 1)
        /\ copy' = [block |-> b, old |-> pte[b]]
        /\ \/ cpu' = "copied"
           \/ \E k \in Block \cup {Elsewhere}, goesOn \in BOOLEAN :
                cpu' = CopyEnds(b, k, goesOn)
  BY DEF SysPrint
<1>2. /\ entries' \in [Block -> Entry] /\ entries[b] = FREE
      /\ \A k \in Block : entries'[k] = IF k = b THEN LAST ELSE entries[k]
  BY <1>1, StringBlock DEF IInv, TypeOK
<1>3. UNCHANGED <<slots, pte>>
  BY DEF SysPrint
<1>4. /\ cpu' \in {"ok", "copied"} \cup Lost
      /\ cpu' = "copy" => Absent(b)
  BY <1>1, CopyEndsFacts
<1>5. /\ copy' \in [block : Block, old : {"ro", "rw", "none"}]
      /\ copy'.block = b /\ copy'.old = pte[b]
  BY <1>1 DEF IInv, TypeOK
<1>6. Copying'
  BY <1>3, <1>5 DEF Copying
<1>7. CopyFaultNeedsLargeFree'
  <2> SUFFICES ASSUME cpu' = "copy"
               PROVE  /\ Absent(b)' /\ Absent(b + 1)'
                      /\ \E k \in Block : /\ k > b /\ entries'[k] = LAST
                                          /\ \A m \in b .. k : Absent(m)'
    BY <1>5 DEF CopyFaultNeedsLargeFree, Absent
  <2>1. pte[b] = "none"
    BY <1>4 DEF Absent
  <2>2. PICK k \in Block : EndsHidden(b, k)
    BY <1>2, <2>1 DEF IInv, Hidden
  <2>3. /\ k > b /\ entries[k] = LAST
        /\ \A m \in b .. k : Absent(m)
    BY <2>2 DEF EndsHidden
  <2>4. b \in b .. k /\ b + 1 \in b .. k
    BY <2>3 DEF Block
  <2>5. \A m \in b .. k : Absent(m)'
    BY <1>3, <2>3 DEF Absent
  <2>6. entries'[k] = LAST
    BY <1>2, <2>3
  <2> QED
    BY <2>3, <2>4, <2>5, <2>6
<1>8. \A k \in Block : \/ entries'[k] = entries[k]
                       \/ entries[k] = FREE /\ entries'[k] = LAST
  BY <1>2
<1> QED
  BY <1>2, <1>3, <1>4, <1>5, <1>6, <1>7, <1>8, KernelBlocks

LEMMA PrintEndsIInv ==
  ASSUME IInv, SysPrintEnds
  PROVE  IInv' /\ UNCHANGED pte
<1>1. pte' = pte
  BY DEF SysPrintEnds, IInv, Copying, TypeOK
<1>2. /\ entries' \in [Block -> Entry]
      /\ \A k \in Block : \/ entries'[k] = entries[k]
                          \/ entries[k] = FREE /\ entries'[k] = LAST
  BY ShowBlocks DEF SysPrintEnds, IInv, TypeOK
<1>3. /\ UNCHANGED slots /\ cpu' = "ok" /\ copy' = NoCopy
  BY DEF SysPrintEnds
<1>4. Copying' /\ CopyFaultNeedsLargeFree'
  BY <1>3 DEF Copying, CopyFaultNeedsLargeFree
<1> QED
  BY <1>1, <1>2, <1>3, <1>4, KernelBlocks

\* Steps that leave the table, the pages and what print copies alone.
LEMMA SameTable ==
  ASSUME IInv, UNCHANGED <<entries, slots, pte, copy>>,
         cpu' \in {"ok", "stack", "wild"} \/ cpu' = cpu
  PROVE  IInv'
<1>1. Copying'
  BY DEF IInv, Copying, Lost
<1>2. CopyFaultNeedsLargeFree'
  BY DEF IInv, CopyFaultNeedsLargeFree, Absent
<1> QED
  BY <1>1, <1>2, KernelBlocks DEF IInv, TypeOK, Lost

LEMMA NextIInv == IInv /\ [Next]_vars => IInv'
<1> SUFFICES ASSUME IInv, [Next]_vars PROVE IInv'
  OBVIOUS
<1>1. ASSUME NEW size \in Sizes, SysMalloc(size) PROVE IInv'
  BY <1>1, MallocIInv
<1>2. ASSUME NEW size \in Sizes, SysMallocNoSlot(size) PROVE IInv'
  BY <1>2, MallocNoSlotIInv
<1>3. ASSUME NEW i \in Slot, SysFree(i) PROVE IInv'
  BY <1>3, FreeIInv
<1>4. CASE SysFreeNull
  BY <1>4, SameTable DEF SysFreeNull
<1>5. CASE SysPutchar
  BY <1>5, ShowBlocks, KernelBlocks
     DEF SysPutchar, IInv, TypeOK, Copying, CopyFaultNeedsLargeFree
<1>6. CASE SysPrint
  BY <1>6, PrintIInv
<1>7. CASE SysPrintEnds
  BY <1>7, PrintEndsIInv
<1>8. CASE SysStackFaults
  BY <1>8, SameTable DEF SysStackFaults
<1>9. CASE UNCHANGED vars
  BY <1>9, SameTable DEF vars
<1> QED
  BY <1>1, <1>2, <1>3, <1>4, <1>5, <1>6, <1>7, <1>8, <1>9 DEF Next

LEMMA AlwaysIInv == Spec => []IInv
  BY InitIInv, NextIInv, PTL DEF Spec
-----------------------------------------------------------------------------
\* process_malloc and process_free: the program can write exactly the pages
\* of the regions in its table, whatever it calls in whatever order.
THEOREM OwnPages == Spec => []WritesOnlyItsOwn
<1>1. IInv => WritesOnlyItsOwn
  BY DEF IInv
<1> QED
  BY <1>1, AlwaysIInv, PTL

\* Each of those regions is a whole chain of the heap's table, its own.
THEOREM OwnChains == Spec => []RegionsWhole
<1>1. IInv => RegionsWhole
  <2> SUFFICES ASSUME IInv, NEW i \in Live
               PROVE  /\ \A k \in PagesOf(slots[i]) :
                           entries[k] = IF k = slots[i].base + slots[i].pages - 1
                                        THEN LAST ELSE NEXT
                      /\ \A j \in Live : j # i =>
                           PagesOf(slots[i]) \cap PagesOf(slots[j]) = {}
    BY DEF RegionsWhole, IInv
  <2>1. slots[i].base \in Nat /\ slots[i].pages \in Nat \ {0}
    BY RegionFacts DEF Block
  <2> QED
    BY <2>1 DEF IInv, Chains, Apart, PagesOf
<1> QED
  BY <1>1, AlwaysIInv, PTL

\* copy_string_from_task's block is an absent page only where the program
\* freed a region of several pages that reaches past it.
THEOREM CopyFaultsAfterLargeFree == Spec => []CopyFaultNeedsLargeFree
<1>1. IInv => CopyFaultNeedsLargeFree
  BY DEF IInv
<1> QED
  BY <1>1, AlwaysIInv, PTL

\* A page the program freed is hidden from it until malloc gives it out anew.
THEOREM FreedHidden == Spec => FreedStaysHidden
<1>1. ASSUME IInv, [Next]_vars, NEW k \in Block, pte[k] = "none", pte'[k] # "none"
      PROVE  /\ pte'[k] = "rw"
             /\ \E i \in Slot : slots'[i] # slots[i] /\ k \in PagesOf(slots'[i])
  <2>1. ASSUME NEW size \in Sizes, SysMalloc(size)
        PROVE  /\ pte'[k] = "rw"
               /\ \E i \in Slot : slots'[i] # slots[i] /\ k \in PagesOf(slots'[i])
    <3>1. PICK b \in Block, i \in Slot, n \in Nat :
            /\ FirstEmpty(i)
            /\ slots' = [slots EXCEPT ![i] = [base |-> b, pages |-> n]]
            /\ pte' = Remap(b, n, "rw")
      BY <2>1, BlocksForNat DEF SysMalloc
    <3>2. pte'[k] = "rw" /\ k \in b .. b + n - 1
      BY <1>1, <3>1 DEF Remap
    <3>3. slots[i] = Null /\ slots'[i] = [base |-> b, pages |-> n]
      BY <1>1, <3>1 DEF FirstEmpty, IInv, TypeOK
    <3>4. slots'[i] # slots[i] /\ k \in PagesOf(slots'[i])
      BY <3>2, <3>3, HeapAssumption DEF Null, PagesOf, Block
    <3> QED
      BY <3>2, <3>4
  <2>2. ASSUME NEW i \in Slot, SysFree(i) PROVE FALSE
    BY <1>1, <2>2 DEF SysFree, Remap
  <2>3. CASE UNCHANGED pte
    BY <1>1, <2>3
  <2>4. CASE SysPrintEnds
    BY <1>1, <2>3, <2>4, PrintEndsIInv
  <2> QED
    BY <1>1, <2>1, <2>2, <2>3, <2>4
       DEF Next, SysMallocNoSlot, SysFreeNull, SysPutchar, SysPrint,
           SysStackFaults, vars
<1>2. ASSUME IInv, [Next]_vars
      PROVE  \A k \in Block : pte[k] = "none" /\ pte'[k] # "none" =>
               /\ pte'[k] = "rw"
               /\ \E i \in Slot : slots'[i] # slots[i] /\ k \in PagesOf(slots'[i])
  BY <1>1, <1>2
<1> QED
  BY <1>2, AlwaysIInv, PTL DEF Spec, FreedStaysHidden
-----------------------------------------------------------------------------
\* The blocks of a region, and what it is for an object of the load to hold
\* its own: t is a table of blocks, a the objects' regions, p the page tables.
Region == [base : Block, pages : 1 .. Total]
Blocks(r) == r.base .. r.base + r.pages - 1

Whole(t, a, p) ==
  /\ t \in [Block -> Entry] /\ a \in [Object -> Region \cup {NoRegion}]
  /\ p \subseteq Block
  /\ \A o \in Object : a[o] # NoRegion =>
       /\ a[o].base + a[o].pages <= Total
       /\ t[a[o].base + a[o].pages - 1] = LAST
       /\ \A k \in a[o].base .. a[o].base + a[o].pages - 2 : t[k] = NEXT
       /\ Blocks(a[o]) \cap p = {}
  /\ \A o, q \in Object : a[o] # NoRegion /\ a[q] # NoRegion /\ o # q =>
       Blocks(a[o]) \cap Blocks(a[q]) = {}
  /\ \A k \in p : t[k] = LAST

LEMMA WholeRegion ==
  ASSUME NEW t, NEW a, NEW p, Whole(t, a, p), NEW o \in Object, a[o] # NoRegion
  PROVE  /\ a[o].base \in Nat /\ a[o].pages \in Nat \ {0}
         /\ a[o].base + a[o].pages <= Total
         /\ \A k \in Blocks(a[o]) : k \in Block /\ t[k] # FREE
<1> USE HeapAssumption
<1>1. a[o].base \in Block /\ a[o].pages \in 1 .. Total
  BY DEF Whole, Region
<1>2. /\ a[o].base + a[o].pages <= Total
      /\ t[a[o].base + a[o].pages - 1] = LAST
      /\ \A k \in a[o].base .. a[o].base + a[o].pages - 2 : t[k] = NEXT
  BY DEF Whole
<1> QED
  BY <1>1, <1>2 DEF Blocks, Block, FREE, NEXT, LAST

\* A kzalloc takes no block of theirs, whether for one of them, ...
LEMMA TakeWhole ==
  ASSUME NEW t, NEW a, NEW p, Whole(t, a, p),
         NEW b \in Block, NEW n \in Nat, IsFirstFit(t, b, n)
  PROVE  /\ Whole(MarkBlocksTaken(t, b, n), a, p)
         /\ \A o \in Object :
              Whole(MarkBlocksTaken(t, b, n),
                    [a EXCEPT ![o] = [base |-> b, pages |-> n]], p)
<1> USE HeapAssumption
<1>1. PICK u : u = MarkBlocksTaken(t, b, n)
  OBVIOUS
<1>2. /\ n >= 1 /\ b + n <= Total
      /\ \A k \in b .. b + n - 1 : k \in Block /\ t[k] = FREE
      /\ u \in [Block -> Entry]
      /\ \A k \in Block : k \notin b .. b + n - 1 => u[k] = t[k]
      /\ u[b + n - 1] = LAST
      /\ \A k \in b .. b + n - 2 : u[k] = NEXT
  BY <1>1, FirstFitFacts DEF Whole
<1>3. ASSUME NEW q \in Object, a[q] # NoRegion
      PROVE  /\ Blocks(a[q]) \cap (b .. b + n - 1) = {}
             /\ a[q].base + a[q].pages <= Total
             /\ u[a[q].base + a[q].pages - 1] = LAST
             /\ \A k \in a[q].base .. a[q].base + a[q].pages - 2 : u[k] = NEXT
             /\ Blocks(a[q]) \cap p = {}
  <2>1. /\ a[q].base \in Nat /\ a[q].pages \in Nat \ {0}
        /\ \A k \in Blocks(a[q]) : k \in Block /\ t[k] # FREE
    BY <1>3, WholeRegion
  <2>2. Blocks(a[q]) \cap (b .. b + n - 1) = {}
    BY <1>2, <2>1
  <2>3. \A k \in Blocks(a[q]) : u[k] = t[k]
    BY <1>2, <2>1, <2>2
  <2>4. /\ a[q].base + a[q].pages <= Total
        /\ t[a[q].base + a[q].pages - 1] = LAST
        /\ \A k \in a[q].base .. a[q].base + a[q].pages - 2 : t[k] = NEXT
        /\ Blocks(a[q]) \cap p = {}
    BY <1>3 DEF Whole
  <2>5. /\ a[q].base + a[q].pages - 1 \in Blocks(a[q])
        /\ \A k \in a[q].base .. a[q].base + a[q].pages - 2 : k \in Blocks(a[q])
    BY <2>1 DEF Blocks
  <2> QED
    BY <2>2, <2>3, <2>4, <2>5
<1>4. \A k \in p : k \in Block /\ k \notin b .. b + n - 1 /\ u[k] = LAST
  BY <1>2 DEF Whole, FREE, LAST
<1>5. Whole(u, a, p)
  <2>1. /\ a \in [Object -> Region \cup {NoRegion}] /\ p \subseteq Block
        /\ \A o, q \in Object : a[o] # NoRegion /\ a[q] # NoRegion /\ o # q =>
             Blocks(a[o]) \cap Blocks(a[q]) = {}
    BY DEF Whole
  <2> QED
    BY <1>2, <1>3, <1>4, <2>1 DEF Whole
<1>6. ASSUME NEW o \in Object
      PROVE  Whole(u, [a EXCEPT ![o] = [base |-> b, pages |-> n]], p)
  <2>1. PICK new : new = [base |-> b, pages |-> n]
    OBVIOUS
  <2>2. PICK c : c = [a EXCEPT ![o] = new]
    OBVIOUS
  <2>3. /\ new \in Region /\ new # NoRegion /\ new.base = b /\ new.pages = n
        /\ Blocks(new) = b .. b + n - 1
    BY <1>2, <2>1 DEF Region, NoRegion, Blocks, Block
  <2>4. /\ c \in [Object -> Region \cup {NoRegion}]
        /\ c[o] = new /\ \A q \in Object : q # o => c[q] = a[q]
    BY <2>2, <2>3 DEF Whole
  <2>5. \A q \in Object : c[q] # NoRegion =>
          /\ c[q].base + c[q].pages <= Total
          /\ u[c[q].base + c[q].pages - 1] = LAST
          /\ \A k \in c[q].base .. c[q].base + c[q].pages - 2 : u[k] = NEXT
          /\ Blocks(c[q]) \cap p = {}
    <3> SUFFICES ASSUME NEW q \in Object, c[q] # NoRegion
                 PROVE  /\ c[q].base + c[q].pages <= Total
                        /\ u[c[q].base + c[q].pages - 1] = LAST
                        /\ \A k \in c[q].base .. c[q].base + c[q].pages - 2 : u[k] = NEXT
                        /\ Blocks(c[q]) \cap p = {}
      OBVIOUS
    <3>1. CASE q = o
      BY <1>2, <1>4, <2>3, <2>4, <3>1
    <3>2. CASE q # o
      BY <1>3, <2>4, <3>2
    <3> QED
      BY <3>1, <3>2
  <2>6. \A q, r \in Object : c[q] # NoRegion /\ c[r] # NoRegion /\ q # r =>
          Blocks(c[q]) \cap Blocks(c[r]) = {}
    <3> SUFFICES ASSUME NEW q \in Object, NEW r \in Object,
                        c[q] # NoRegion, c[r] # NoRegion, q # r
                 PROVE  Blocks(c[q]) \cap Blocks(c[r]) = {}
      OBVIOUS
    <3>1. CASE q = o
      BY <1>3, <2>3, <2>4, <3>1
    <3>2. CASE r = o
      BY <1>3, <2>3, <2>4, <3>2
    <3>3. CASE q # o /\ r # o
      BY <2>4, <3>3 DEF Whole
    <3> QED
      BY <3>1, <3>2, <3>3
  <2>7. p \subseteq Block
    BY DEF Whole
  <2>8. Whole(u, c, p)
    BY <1>2, <1>4, <2>4, <2>5, <2>6, <2>7 DEF Whole
  <2> QED
    BY <2>1, <2>2, <2>8
<1> QED
  BY <1>1, <1>5, <1>6

\* ... or for a page table.
LEMMA TableWhole ==
  ASSUME NEW t, NEW a, NEW p, Whole(t, a, p), NEW b \in Block, IsFirstFit(t, b, 1)
  PROVE  Whole(MarkBlocksTaken(t, b, 1), a, p \cup {b}) /\ b \notin p
<1> USE HeapAssumption
<1>1. PICK u : u = MarkBlocksTaken(t, b, 1)
  OBVIOUS
<1>2. Whole(u, a, p)
  BY <1>1, TakeWhole
<1>3. t[b] = FREE /\ u[b] = LAST
  BY <1>1, StringBlock DEF Whole
<1>4. b \notin p
  BY <1>3 DEF Whole, FREE, LAST
<1>5. \A o \in Object : a[o] # NoRegion => b \notin Blocks(a[o])
  BY <1>3, WholeRegion
<1> QED
  BY <1>1, <1>2, <1>3, <1>4, <1>5 DEF Whole

\* kfree of one of them, or of none, leaves the others whole.
LEMMA FreeWhole ==
  ASSUME NEW t, NEW a, NEW p, Whole(t, a, p), NEW o \in Object
  PROVE  Whole(Without(t, a[o]), [a EXCEPT ![o] = NoRegion], p)
<1> USE HeapAssumption
<1>0. PICK u, c : u = Without(t, a[o]) /\ c = [a EXCEPT ![o] = NoRegion]
  OBVIOUS
<1>1. CASE a[o] = NoRegion
  <2>1. u = t /\ c = a
    BY <1>0, <1>1 DEF Without, Whole
  <2> QED
    BY <1>0, <2>1
<1>2. CASE a[o] # NoRegion
  <2>1. PICK b, n : b = a[o].base /\ n = a[o].pages
    OBVIOUS
  <2>2. b \in Nat /\ b \in Block /\ n \in Nat \ {0} /\ b + n <= Total
    BY <1>2, <2>1, WholeRegion DEF Whole, Region, Block
  <2>3. t[b + n - 1] = LAST /\ \A k \in b .. b + n - 2 : t[k] = NEXT
    BY <1>2, <2>1 DEF Whole
  <2>4. t \in [Block -> Entry]
    BY DEF Whole
  <2>5. u = [k \in Block |-> IF k \in b .. b + n - 2 THEN FREE ELSE t[k]]
    BY <1>0, <1>2, <2>1, <2>2, <2>3, <2>4, ReleasedChain DEF Without
  <2>6. u \in [Block -> Entry]
    BY <2>4, <2>5 DEF Entry
  <2>7. /\ c \in [Object -> Region \cup {NoRegion}]
        /\ c[o] = NoRegion /\ \A q \in Object : q # o => c[q] = a[q]
    BY <1>0 DEF Whole
  <2>8. Blocks(a[o]) = b .. b + n - 1
    BY <2>1 DEF Blocks
  <2>9. ASSUME NEW q \in Object, c[q] # NoRegion
        PROVE  /\ c[q].base + c[q].pages <= Total
               /\ u[c[q].base + c[q].pages - 1] = LAST
               /\ \A k \in c[q].base .. c[q].base + c[q].pages - 2 : u[k] = NEXT
               /\ Blocks(c[q]) \cap p = {}
    <3>1. q # o /\ c[q] = a[q]
      BY <2>7, <2>9
    <3>2. /\ a[q].base \in Nat /\ a[q].pages \in Nat \ {0}
          /\ \A k \in Blocks(a[q]) : k \in Block
      BY <2>9, <3>1, WholeRegion
    <3>3. Blocks(a[q]) \cap (b .. b + n - 1) = {}
      BY <1>2, <2>8, <2>9, <3>1 DEF Whole
    <3>4. ASSUME NEW k \in Blocks(a[q])
          PROVE  u[k] = t[k]
      <4>1. k \in Block /\ k \notin b .. b + n - 1
        BY <3>2, <3>3
      <4>2. k \notin b .. b + n - 2
        BY <2>2, <4>1 DEF Block
      <4> QED
        BY <2>5, <4>1, <4>2
    <3>5. /\ a[q].base + a[q].pages <= Total
          /\ t[a[q].base + a[q].pages - 1] = LAST
          /\ \A k \in a[q].base .. a[q].base + a[q].pages - 2 : t[k] = NEXT
          /\ Blocks(a[q]) \cap p = {}
      BY <2>9, <3>1 DEF Whole
    <3>6. /\ a[q].base + a[q].pages - 1 \in Blocks(a[q])
          /\ \A k \in a[q].base .. a[q].base + a[q].pages - 2 : k \in Blocks(a[q])
      BY <3>2 DEF Blocks
    <3> QED
      BY <3>1, <3>4, <3>5, <3>6
  <2>10. \A k \in p : u[k] = LAST
    BY <2>3, <2>5 DEF Whole, NEXT, LAST
  <2>11. \A q, r \in Object : c[q] # NoRegion /\ c[r] # NoRegion /\ q # r =>
           Blocks(c[q]) \cap Blocks(c[r]) = {}
    BY <2>7 DEF Whole
  <2>12. p \subseteq Block
    BY DEF Whole
  <2>13. Whole(u, c, p)
    BY <2>6, <2>7, <2>9, <2>10, <2>11, <2>12 DEF Whole
  <2> QED
    BY <1>0, <2>13
<1> QED
  BY <1>1, <1>2
-----------------------------------------------------------------------------
\* heap_align_value rounds up: the blocks asked for hold the bytes, and a
\* file that may be read to low memory needs no more of them than page tables.
LEMMA Rounding ==
  ASSUME NEW n \in 1 .. WordSize - 1
  PROVE  \E q \in Nat, r \in 0 .. BlockSize - 1 :
           /\ n = q * BlockSize + r
           /\ r = 0 => BlocksFor(n) = q
           /\ r # 0 /\ q * BlockSize + BlockSize < WordSize => BlocksFor(n) = q + 1
           /\ r # 0 /\ q * BlockSize + BlockSize >= WordSize => BlocksFor(n) = 0
<1> USE HeapAssumption
<1>1. PICK q, r : q = n \div BlockSize /\ r = n % BlockSize
  OBVIOUS
<1>2. q \in Nat /\ r \in 0 .. BlockSize - 1 /\ n = q * BlockSize + r
  BY <1>1
<1>3. PICK up \in Nat : up = (q + 1) * BlockSize
  BY <1>2
<1>4. up = q * BlockSize + BlockSize
  BY <1>2, <1>3
<1>5. ASSUME r = 0 PROVE BlocksFor(n) = q
  BY <1>1, <1>5 DEF BlocksFor, AlignValue
<1>6. ASSUME r # 0 PROVE BlocksFor(n) = (up % WordSize) \div BlockSize
  BY <1>1, <1>3, <1>6 DEF BlocksFor, AlignValue
<1>7. ASSUME up < WordSize PROVE (up % WordSize) \div BlockSize = q + 1
  <2>1. up % WordSize = up
    BY <1>7
  <2>2. up \div BlockSize = q + 1
    BY <1>2, <1>3
  <2> QED
    BY <2>1, <2>2
<1>8. ASSUME r # 0, up >= WordSize PROVE (up % WordSize) \div BlockSize = 0
  <2>1. up - WordSize \in 0 .. BlockSize - 1
    BY <1>2, <1>4, <1>8
  <2>2. CASE WordSize > BlockSize
    <3>1. up % WordSize = up - WordSize
      BY <2>1, <2>2
    <3> QED
      BY <2>1, <3>1
  <2>3. CASE WordSize <= BlockSize
    <3>1. up % WordSize \in 0 .. WordSize - 1
      OBVIOUS
    <3>2. up % WordSize \in 0 .. BlockSize - 1
      BY <2>3, <3>1
    <3> QED
      BY <3>2
  <2> QED
    BY <2>2, <2>3
<1> QED
  BY <1>2, <1>4, <1>5, <1>6, <1>7, <1>8

LEMMA BlocksHold ==
  ASSUME NEW n \in 0 .. WordSize - 1
  PROVE  /\ BlocksFor(n) \in Nat
         /\ BlocksFor(n) >= 1 => n <= BlocksFor(n) * BlockSize
         /\ n = 0 => BlocksFor(n) = 0
         /\ n # 0 /\ n <= Low => BlocksFor(n) \in 1 .. Tables + 2
<1> USE HeapAssumption
<1>1. CASE n = 0
  BY <1>1, ProcessLoadAssumption DEF BlocksFor, AlignValue
<1>2. CASE n # 0
  <2>1. PICK q \in Nat, r \in 0 .. BlockSize - 1 :
          /\ n = q * BlockSize + r
          /\ r = 0 => BlocksFor(n) = q
          /\ r # 0 /\ q * BlockSize + BlockSize < WordSize => BlocksFor(n) = q + 1
          /\ r # 0 /\ q * BlockSize + BlockSize >= WordSize => BlocksFor(n) = 0
    BY <1>2, Rounding
  <2>2. PICK m \in Nat : m = Tables + 2
    BY ProcessLoadAssumption
  <2>3. (q + 1) * BlockSize = q * BlockSize + BlockSize
    BY <2>1
  <2>4. BlocksFor(n) \in Nat /\ (BlocksFor(n) >= 1 => n <= BlocksFor(n) * BlockSize)
    BY <2>1, <2>3
  <2>5. ASSUME n <= Low PROVE BlocksFor(n) \in 1 .. m
    <3>1. n <= m * BlockSize /\ n + BlockSize <= WordSize
      BY <2>2, <2>5, ProcessLoadAssumption
    <3>2. CASE r = 0
      <4>1. BlocksFor(n) = q /\ q # 0
        BY <1>2, <2>1, <3>2
      <4>2. q <= m
        BY <2>1, <3>1, <3>2
      <4> QED
        BY <4>1, <4>2
    <3>3. CASE r # 0
      <4>1. q * BlockSize + BlockSize < WordSize
        BY <2>1, <3>1, <3>3
      <4>2. BlocksFor(n) = q + 1
        BY <2>1, <3>3, <4>1
      <4>3. q * BlockSize < m * BlockSize
        BY <2>1, <3>1, <3>3
      <4>4. q < m
        BY <4>3
      <4> QED
        BY <4>2, <4>4
    <3> QED
      BY <3>2, <3>3
  <2> QED
    BY <1>2, <2>2, <2>4, <2>5
<1> QED
  BY <1>1, <1>2
-----------------------------------------------------------------------------
\* Until something is freed the heap is taken up to a block and free from
\* there on.
Suffix(t, f) == \A k \in Block : t[k] = FREE <=> k >= f

LEMMA SuffixTaken ==
  ASSUME NEW t \in [Block -> Entry], NEW f \in 0 .. Total, Suffix(t, f),
         NEW b \in Block, NEW n \in Nat, IsFirstFit(t, b, n)
  PROVE  f + n \in 0 .. Total /\ Suffix(MarkBlocksTaken(t, b, n), f + n)
<1> USE HeapAssumption
<1>1. PICK u : u = MarkBlocksTaken(t, b, n)
  OBVIOUS
<1>2. /\ n >= 1 /\ b + n <= Total
      /\ \A k \in b .. b + n - 1 : k \in Block /\ t[k] = FREE
      /\ \A k \in Block : k \notin b .. b + n - 1 => u[k] = t[k]
      /\ u[b + n - 1] = LAST
      /\ \A k \in b .. b + n - 2 : u[k] = NEXT
  BY <1>1, FirstFitFacts
<1>3. b >= f
  BY <1>2 DEF Suffix, Block
<1>4. Fits(t, f, n) /\ f \in Block
  BY <1>2, <1>3 DEF Fits, Suffix, Block
<1>5. b = f
  BY <1>3, <1>4 DEF IsFirstFit, Block
<1>6. \A k \in b .. b + n - 1 : u[k] # FREE
  <2>1. \A k \in b .. b + n - 1 : k = b + n - 1 \/ k \in b .. b + n - 2
    BY <1>2 DEF Block
  <2> QED
    BY <1>2, <2>1 DEF FREE, NEXT, LAST
<1>7. Suffix(u, f + n)
  <2> SUFFICES ASSUME NEW k \in Block PROVE u[k] = FREE <=> k >= f + n
    BY DEF Suffix
  <2>1. CASE k \in b .. b + n - 1
    BY <1>5, <1>6, <2>1 DEF Block
  <2>2. CASE k \notin b .. b + n - 1
    BY <1>2, <1>5, <2>2 DEF Suffix, Block
  <2> QED
    BY <2>1, <2>2
<1> QED
  BY <1>1, <1>2, <1>5, <1>7 DEF Block

LEMMA SuffixRefuses ==
  ASSUME NEW t, NEW f \in 0 .. Total, Suffix(t, f), NEW n \in Nat \ {0}, NoFit(t, n)
  PROVE  f + n > Total
<1> USE HeapAssumption
<1> SUFFICES ASSUME f + n <= Total PROVE FALSE
  OBVIOUS
<1>1. f \in Block /\ Fits(t, f, n)
  BY DEF Suffix, Fits, Block
<1> QED
  BY <1>1 DEF NoFit

\* What was refused stays refused while nothing is freed, and with it all
\* that is larger.
LEMMA StaysRefused ==
  ASSUME NEW t \in [Block -> Entry], NEW b \in Block, NEW n \in Nat,
         IsFirstFit(t, b, n), NEW m \in Nat, NoFit(t, m)
  PROVE  NoFit(MarkBlocksTaken(t, b, n), m)
<1> USE HeapAssumption
<1>1. PICK u : u = MarkBlocksTaken(t, b, n)
  OBVIOUS
<1>2. \A k \in Block : u[k] = FREE => t[k] = FREE
  BY <1>1 DEF MarkBlocksTaken, FREE, NEXT, LAST
<1>3. ASSUME NEW c \in Block, Fits(u, c, m) PROVE FALSE
  <2>1. Fits(t, c, m)
    BY <1>2, <1>3 DEF Fits, Block
  <2> QED
    BY <2>1 DEF NoFit
<1> QED
  BY <1>1, <1>3 DEF NoFit

LEMMA LargerRefused ==
  ASSUME NEW t, NEW n \in Nat \ {0}, NoFit(t, 1)
  PROVE  NoFit(t, n)
<1> USE HeapAssumption
<1>1. ASSUME NEW c \in Block, Fits(t, c, n) PROVE FALSE
  <2>1. Fits(t, c, 1)
    BY <1>1 DEF Fits, Block
  <2> QED
    BY <2>1 DEF NoFit
<1> QED
  BY <1>1 DEF NoFit
-----------------------------------------------------------------------------
\* The steps before there is an image, and those after.
Early == {"process", "elf_file", "root", "text", "part", "end", "desc", "item",
          "clone", "fd", "image"}
Late == {"stack", "task", "tables", "map", "ss", "digits", "address", "user"}
Gone == {"panic", "wild"}

LEMMA Steps ==
  /\ Opening = {"root", "text", "part", "end", "desc", "item", "clone", "fd"}
  /\ Ready = {"ss", "digits", "address", "user"}
  /\ Call = Early \cup {"read"} \cup Late \cup Gone
  /\ After["fd"] = "image"
  /\ \A s \in Opening \ {"fd"} : After[s] \in Opening
  /\ DOMAIN Started = {"ss", "digits", "address"}
  /\ \A s \in DOMAIN Started : Started[s] \in {"digits", "address", "user"}
  /\ Object = {"process", "elf_file", "image", "stack", "task"}
<1>1. Opening = {"root", "text", "part", "end", "desc", "item", "clone", "fd"}
  BY DEF Opening, After
<1>2. /\ Ready = {"ss", "digits", "address", "user"}
      /\ DOMAIN Started = {"ss", "digits", "address"}
      /\ Object = {"process", "elf_file", "image", "stack", "task"}
      /\ \A s \in DOMAIN Started : Started[s] \in {"digits", "address", "user"}
  BY DEF Ready, Started, Object
<1>3. After["fd"] = "image" /\ \A s \in Opening \ {"fd"} : After[s] \in Opening
  BY <1>1 DEF After
<1>4. Call = Early \cup {"read"} \cup Late \cup Gone
  BY <1>1, <1>2 DEF Call, Early, Late, Gone
<1> QED
  BY <1>1, <1>2, <1>3, <1>4

Kinds ==
  /\ file \in File /\ bytes \in FileSizes
  /\ caller \in {"elf_load", "process_load_binary"}
  /\ loaded \in {"elf", "badsegment", "raw", "nothing"}
  /\ current \in BOOLEAN /\ tasks \in 0 .. 1
  /\ short \in BOOLEAN /\ step \in Early \cup {"read"} \cup Late \cup Gone

\* What is there at each step ...
Imaged == at["image"] # NoRegion /\ bytes <= at["image"].pages * BlockSize

Built ==
  /\ step \notin Gone \cup {"process"} => at["process"] # NoRegion
  /\ step \in Late \ {"stack"} => at["stack"] # NoRegion
  /\ step \in Late \ {"stack", "task"} => at["task"] # NoRegion
  /\ step \in Early => at["image"] = NoRegion
  /\ ~short /\ step \notin {"process", "elf_file"} => at["elf_file"] # NoRegion
  /\ step \in Early \cup {"read", "stack", "task", "tables"} => tasks = 0
  /\ current => /\ step \in (Late \ {"stack", "task", "tables", "map"}) \cup {"wild"}
                /\ \A o \in {"process", "stack", "task"} : at[o] # NoRegion
  /\ caller = "process_load_binary" => file = "raw"
  /\ step \in Early \cup {"read"} => loaded = "nothing"
  /\ ~short /\ step \in Late => (loaded = "nothing" <=> file = "missing")
  /\ ~short /\ step = "read" => Imaged
  /\ ~short /\ step \in Late /\ loaded # "nothing" => Imaged

\* ... with the page tables, ...
Tabled ==
  /\ IsFiniteSet(paging)
  /\ step \in Early \cup {"read", "stack", "task"} => paging = {}
  /\ step = "tables" => Cardinality(paging) < Tables + 2
  /\ step \in Late \ {"stack", "task", "tables"} => Cardinality(paging) = Tables + 2

\* ... and on a heap of which nothing was freed unless elf_load has given up.
Suffixed ==
  caller = "elf_load" /\ step \notin Gone =>
    \E f \in 0 .. Total : Suffix(heap, f)

\* Once a kzalloc was refused, another one will be before the program runs:
\* no block is left, or not enough for the page tables, or still too few for
\* the file.
NoneLeft == NoFit(heap, 1) /\ step \in {"root", "desc", "fd", "stack"}
Cramped ==
  /\ caller = "elf_load" /\ step \in {"read", "stack", "task", "tables"}
  /\ \E f \in 0 .. Total :
       Suffix(heap, f) /\ f + Tables + 2 > Total + Cardinality(paging)
  /\ step = "read" => at["image"] = NoRegion /\ NoFit(heap, BlocksFor(bytes))
NoRoomAgain ==
  /\ caller = "process_load_binary" /\ step \in Opening \cup {"image"}
  /\ NoFit(heap, BlocksFor(bytes))
Doomed == short /\ step \notin Gone => NoneLeft \/ Cramped \/ NoRoomAgain

LoadIInv ==
  Whole(heap, at, paging) /\ Kinds /\ Built /\ Tabled /\ Suffixed /\ Doomed

LEMMA FileBlocks ==
  ASSUME Kinds
  PROVE  /\ BlocksFor(bytes) \in Nat
         /\ BlocksFor(bytes) >= 1 => bytes <= BlocksFor(bytes) * BlockSize
         /\ bytes # 0 /\ bytes <= Low => BlocksFor(bytes) \in 1 .. Tables + 2
<1>1. bytes \in 0 .. WordSize - 1
  BY ProcessLoadAssumption DEF Kinds
<1> QED
  BY <1>1, BlocksHold

\* A kzalloc that succeeds, for an object or not, ...
Grows(n) ==
  /\ ~NoFit(heap, n) /\ n >= 1
  /\ \A m \in Nat : NoFit(heap, m) => NoFit(heap', m)
  /\ \A f \in 0 .. Total : Suffix(heap, f) =>
       f + n \in 0 .. Total /\ Suffix(heap', f + n)

LEMMA Grown ==
  ASSUME NEW t \in [Block -> Entry], heap = t,
         NEW b \in Block, NEW n \in Nat, IsFirstFit(heap, b, n),
         heap' = MarkBlocksTaken(heap, b, n)
  PROVE  Grows(n)
<1>1. ~NoFit(heap, n) /\ n >= 1
  BY DEF IsFirstFit, NoFit, Fits
<1> QED
  BY <1>1, SuffixTaken, StaysRefused DEF Grows

LEMMA TakesFacts ==
  ASSUME LoadIInv, NEW n \in Nat, Takes(n), UNCHANGED <<at, paging>>
  PROVE  Whole(heap, at, paging)' /\ Grows(n)
<1>1. PICK b \in Block : IsFirstFit(heap, b, n) /\ heap' = MarkBlocksTaken(heap, b, n)
  BY DEF Takes
<1>2. heap \in [Block -> Entry] /\ Whole(heap, at, paging)
  BY DEF LoadIInv, Whole
<1> QED
  BY <1>1, <1>2, TakeWhole, Grown

LEMMA TakesForFacts ==
  ASSUME LoadIInv, NEW o \in Object, NEW n \in Nat, TakesFor(o, n), UNCHANGED paging
  PROVE  /\ Whole(heap, at, paging)' /\ Grows(n)
         /\ at'[o] # NoRegion /\ at'[o].pages = n
         /\ \A q \in Object : q # o => at'[q] = at[q]
<1>1. PICK b \in Block : /\ IsFirstFit(heap, b, n)
                         /\ heap' = MarkBlocksTaken(heap, b, n)
                         /\ at' = [at EXCEPT ![o] = [base |-> b, pages |-> n]]
  BY DEF TakesFor
<1>2. /\ heap \in [Block -> Entry] /\ Whole(heap, at, paging)
      /\ at \in [Object -> Region \cup {NoRegion}]
  BY DEF LoadIInv, Whole
<1>3. Whole(heap, at, paging)' /\ Grows(n)
  BY <1>1, <1>2, TakeWhole, Grown
<1>4. at'[o] = [base |-> b, pages |-> n] /\ \A q \in Object : q # o => at'[q] = at[q]
  BY <1>1, <1>2
<1>5. [base |-> b, pages |-> n] # NoRegion
  BY HeapAssumption DEF NoRegion, Block
<1> QED
  BY <1>3, <1>4, <1>5

\* ... and kfree.
LEMMA FreesFacts ==
  ASSUME LoadIInv, NEW o \in Object, Frees(o), UNCHANGED paging
  PROVE  /\ Whole(heap, at, paging)' /\ at'[o] = NoRegion
         /\ \A q \in Object : q # o => at'[q] = at[q]
         /\ at[o] = NoRegion => heap' = heap
<1>1. Whole(heap, at, paging) /\ at \in [Object -> Region \cup {NoRegion}]
  BY DEF LoadIInv, Whole
<1>2. Whole(heap, at, paging)'
  BY <1>1, FreeWhole DEF Frees
<1> QED
  BY <1>1, <1>2 DEF Frees, Without

LEMMA GivesBackFacts ==
  ASSUME LoadIInv, NEW o \in Object, NEW q \in Object, o # q,
         GivesBack(o, q), UNCHANGED paging
  PROVE  /\ Whole(heap, at, paging)'
         /\ at'[o] = NoRegion /\ at'[q] = NoRegion
         /\ \A r \in Object : r # o /\ r # q => at'[r] = at[r]
<1>1. PICK t, a : t = Without(heap, at[o]) /\ a = [at EXCEPT ![o] = NoRegion]
  OBVIOUS
<1>2. Whole(heap, at, paging) /\ at \in [Object -> Region \cup {NoRegion}]
  BY DEF LoadIInv, Whole
<1>3. Whole(t, a, paging)
  BY <1>1, <1>2, FreeWhole
<1>4. a[q] = at[q]
  BY <1>1, <1>2
<1>5. heap' = Without(t, a[q]) /\ at' = [a EXCEPT ![q] = NoRegion]
  BY <1>1, <1>4 DEF GivesBack
<1>6. Whole(heap, at, paging)'
  BY <1>3, <1>5, FreeWhole
<1> QED
  BY <1>1, <1>2, <1>6 DEF GivesBack

\* A load that panics keeps the invariant, whatever else it holds.
LEMMA PanicIInv ==
  ASSUME LoadIInv, Whole(heap, at, paging)', UNCHANGED <<file, bytes, paging>>,
         step' \in Gone, ~current, UNCHANGED <<caller, loaded, current, tasks>>,
         short' \in BOOLEAN, ~short' => ~short /\ step \notin {"process", "elf_file"},
         at'["elf_file"] = at["elf_file"]
  PROVE  LoadIInv'
<1>1. Kinds'
  BY DEF LoadIInv, Kinds
<1>2. Built'
  BY DEF LoadIInv, Built, Gone, Early, Late
<1>3. Tabled' /\ Suffixed' /\ Doomed'
  BY DEF LoadIInv, Tabled, Suffixed, Doomed, Gone, Early, Late
<1> QED
  BY <1>1, <1>2, <1>3 DEF LoadIInv
-----------------------------------------------------------------------------
LEMMA LoadInitIInv == LoadInit => LoadIInv
<1> SUFFICES ASSUME LoadInit PROVE LoadIInv
  OBVIOUS
<1> USE HeapAssumption, ProcessLoadAssumption
<1>1. PICK up \in Block : heap = [k \in Block |-> IF k < up THEN LAST ELSE FREE]
  BY DEF LoadInit
<1>2. /\ at = [o \in Object |-> NoRegion] /\ paging = {} /\ step = "process"
      /\ file \in File /\ bytes \in FileSizes
      /\ caller = "elf_load" /\ loaded = "nothing"
      /\ current = FALSE /\ tasks = 0 /\ short = FALSE
  BY DEF LoadInit
<1>3. Whole(heap, at, paging)
  <2>1. heap \in [Block -> Entry]
    BY <1>1 DEF Entry
  <2>2. at \in [Object -> Region \cup {NoRegion}] /\ \A o \in Object : at[o] = NoRegion
    BY <1>2
  <2> QED
    BY <1>2, <2>1, <2>2 DEF Whole
<1>4. Kinds
  <2>1. current \in BOOLEAN /\ short \in BOOLEAN
    BY <1>2, Zenon
  <2>2. step \in Early
    BY <1>2 DEF Early
  <2>3. tasks \in 0 .. 1
    BY <1>2
  <2> QED
    BY <1>2, <2>1, <2>2, <2>3, Zenon DEF Kinds
<1>5. Built
  BY <1>2, Steps DEF Built, Early, Late, Gone
<1>6. Tabled
  BY <1>2, FS_EmptySet DEF Tabled, Early, Late
<1>7. up \in 0 .. Total /\ Suffix(heap, up)
  BY <1>1 DEF Suffix, Block, FREE, LAST
<1>8. Suffixed /\ Doomed
  BY <1>7 DEF LoadInit, Suffixed, Doomed
<1> QED
  BY <1>3, <1>4, <1>5, <1>6, <1>8 DEF LoadIInv

LEMMA MakeProcessIInv ==
  ASSUME LoadIInv, MakeProcess PROVE LoadIInv'
<1> USE Steps
<1>1. /\ Kinds /\ Built /\ Tabled /\ Suffixed /\ Doomed
      /\ step = "process" /\ UNCHANGED <<file, bytes, paging, caller, answer>>
  BY DEF LoadIInv, MakeProcess
<1>2. ~current /\ UNCHANGED <<loaded, current, tasks>>
  BY <1>1 DEF Built, Late, answer
<1>3. CASE TakesFor("process", ProcessBlocks) /\ step' = "elf_file" /\ UNCHANGED short
  <2>1. /\ Whole(heap, at, paging)' /\ Grows(ProcessBlocks)
        /\ at'["process"] # NoRegion
        /\ \A q \in Object : q # "process" => at'[q] = at[q]
    BY <1>1, <1>3, TakesForFacts, ProcessLoadAssumption
  <2>2. ~short
    BY <1>1 DEF Doomed, NoneLeft, Cramped, NoRoomAgain, Gone
  <2>3. Kinds'
    BY <1>1, <1>2, <1>3 DEF Kinds, Early
  <2>4. Built'
    BY <1>1, <1>2, <1>3, <2>1 DEF Built, Early, Late, Gone
  <2>5. Tabled'
    BY <1>1, <1>3 DEF Tabled, Early, Late
  <2>6. Suffixed'
    BY <1>1, <1>3, <2>1 DEF Suffixed, Grows, Gone
  <2>7. Doomed'
    BY <1>3, <2>2 DEF Doomed
  <2> QED
    BY <2>1, <2>3, <2>4, <2>5, <2>6, <2>7 DEF LoadIInv
<1>4. CASE Refused(ProcessBlocks) /\ step' = "panic" /\ UNCHANGED <<heap, at>>
  BY <1>1, <1>2, <1>4, PanicIInv DEF LoadIInv, Refused, Gone
<1> QED
  BY <1>3, <1>4 DEF MakeProcess

LEMMA MakeElfFileIInv ==
  ASSUME LoadIInv, MakeElfFile PROVE LoadIInv'
<1> USE Steps
<1>1. /\ Kinds /\ Built /\ Tabled /\ Suffixed /\ Doomed
      /\ step = "elf_file" /\ step' = "root"
      /\ UNCHANGED <<file, bytes, paging, caller, answer>>
  BY DEF LoadIInv, MakeElfFile
<1>2. ~current /\ UNCHANGED <<loaded, current, tasks>>
  BY <1>1 DEF Built, Late, answer
<1>3. short' \in BOOLEAN => Kinds'
  BY <1>1, <1>2 DEF Kinds, Early
<1>4. Tabled'
  BY <1>1 DEF Tabled, Early, Late
<1>5. CASE TakesFor("elf_file", 1) /\ UNCHANGED short
  <2>1. /\ Whole(heap, at, paging)' /\ Grows(1)
        /\ at'["elf_file"] # NoRegion
        /\ \A q \in Object : q # "elf_file" => at'[q] = at[q]
    BY <1>1, <1>5, TakesForFacts
  <2>2. ~short
    BY <1>1 DEF Doomed, NoneLeft, Cramped, NoRoomAgain, Gone
  <2>3. Kinds'
    BY <1>1, <1>3, <1>5 DEF Kinds
  <2>4. Built'
    BY <1>1, <1>2, <1>5, <2>1 DEF Built, Early, Late, Gone
  <2>5. Suffixed'
    BY <1>1, <1>5, <2>1 DEF Suffixed, Grows, Gone
  <2>6. Doomed'
    BY <1>5, <2>2 DEF Doomed
  <2> QED
    BY <1>4, <2>1, <2>3, <2>4, <2>5, <2>6 DEF LoadIInv
<1>6. CASE Refused(1) /\ UNCHANGED <<heap, at>>
  <2>1. NoFit(heap, 1) /\ short' = TRUE
    BY <1>6 DEF Refused
  <2>2. Whole(heap, at, paging)'
    BY <1>1, <1>6 DEF LoadIInv
  <2>3. Built'
    BY <1>1, <1>2, <1>6, <2>1 DEF Built, Early, Late, Gone
  <2>4. Suffixed'
    BY <1>1, <1>6 DEF Suffixed, Gone
  <2>5. Doomed'
    BY <1>1, <1>6, <2>1 DEF Doomed, NoneLeft
  <2> QED
    BY <1>3, <1>4, <2>1, <2>2, <2>3, <2>4, <2>5 DEF LoadIInv
<1> QED
  BY <1>5, <1>6 DEF MakeElfFile

LEMMA FopenIInv ==
  ASSUME LoadIInv, Fopen PROVE LoadIInv'
<1> USE Steps
<1>1. /\ Kinds /\ Built /\ Tabled /\ Suffixed /\ Doomed
      /\ step \in Opening /\ Takes(1) /\ step' = After[step]
      /\ UNCHANGED <<file, bytes, at, paging, caller, answer, short>>
  BY DEF LoadIInv, Fopen
<1>2. step \in Early /\ step' \in Opening \cup {"image"} /\ step' \in Early
  <2>1. CASE step = "fd"
    BY <1>1, <2>1 DEF Early
  <2>2. CASE step # "fd"
    BY <1>1, <2>2 DEF Early
  <2> QED
    BY <2>1, <2>2
<1>3. ~current /\ UNCHANGED <<loaded, current, tasks>>
  BY <1>1, <1>2 DEF Built, Early, Late, answer
<1>4. Whole(heap, at, paging)' /\ Grows(1)
  BY <1>1, TakesFacts
<1>5. Kinds'
  BY <1>1, <1>2, <1>3 DEF Kinds
<1>6. Built'
  <2>1. /\ step \notin {"process", "elf_file", "read"} \cup Late \cup Gone
        /\ step' \notin {"process", "elf_file", "read"} \cup Late \cup Gone
    BY <1>1, <1>2 DEF Late, Gone
  <2> QED
    BY <1>1, <1>2, <1>3, <2>1 DEF Built
<1>7. Tabled'
  BY <1>1, <1>2 DEF Tabled, Early, Late
<1>8. Suffixed'
  BY <1>1, <1>2, <1>4 DEF Suffixed, Grows, Gone, Early
<1>9. Doomed'
  <2> SUFFICES ASSUME short, short' PROVE NoRoomAgain'
    BY <1>1 DEF Doomed
  <2>1. NoRoomAgain
    BY <1>1, <1>4 DEF Doomed, NoneLeft, Cramped, Grows, Gone
  <2>2. BlocksFor(bytes) \in Nat /\ UNCHANGED bytes
    BY <1>1, FileBlocks
  <2> QED
    BY <1>1, <1>2, <1>4, <2>1, <2>2 DEF NoRoomAgain, Grows
<1> QED
  BY <1>4, <1>5, <1>6, <1>7, <1>8, <1>9 DEF LoadIInv

\* fopen fails: elf_load goes on to the stack, process_load_binary panics.
LEMMA NotOpenedIInv ==
  ASSUME LoadIInv, NotOpened, step \in Opening, short' \in BOOLEAN,
         short => short',
         caller = "elf_load" /\ ~short' => file = "missing",
         caller = "elf_load" /\ short' => NoFit(heap, 1)
  PROVE  LoadIInv'
<1> USE Steps
<1>1. /\ Kinds /\ Built /\ Tabled /\ Suffixed /\ Doomed
      /\ UNCHANGED <<file, bytes, paging, caller, answer>>
  BY DEF LoadIInv, NotOpened
<1>2. step \in Early \ {"process", "elf_file"}
  BY DEF Early
<1>3. ~current /\ UNCHANGED <<loaded, current, tasks>>
  BY <1>1, <1>2 DEF Built, Early, Late, answer
<1>4. CASE caller = "elf_load"
  <2>1. step' = "stack" /\ UNCHANGED <<heap, at>>
    BY <1>4 DEF NotOpened
  <2>2. Kinds'
    BY <1>1, <1>3, <2>1 DEF Kinds, Late
  <2>3. Built'
    <3>1. /\ at["process"] # NoRegion /\ tasks = 0 /\ loaded = "nothing"
          /\ ~short => at["elf_file"] # NoRegion
      BY <1>1, <1>2 DEF Built, Early, Gone
    <3>2. step' = "stack" /\ UNCHANGED <<file, caller, loaded, current, tasks, at>>
      BY <1>1, <1>3, <2>1
    <3>3. step' \notin Early \cup {"read"}
      BY <3>2 DEF Early
    <3> QED
      BY <1>3, <1>4, <3>1, <3>2, <3>3 DEF Built
  <2>4. Tabled'
    BY <1>1, <1>2, <2>1 DEF Tabled, Early, Late
  <2>5. Suffixed'
    BY <1>1, <1>2, <2>1 DEF Suffixed, Early, Gone
  <2>6. Doomed'
    BY <1>4, <2>1 DEF Doomed, NoneLeft
  <2>7. Whole(heap, at, paging)'
    BY <1>1, <2>1 DEF LoadIInv
  <2> QED
    BY <2>2, <2>3, <2>4, <2>5, <2>6, <2>7 DEF LoadIInv
<1>5. CASE caller # "elf_load"
  <2>1. GivesBack("process", "stack") /\ step' = "panic"
    BY <1>5 DEF NotOpened, Panics
  <2>2. Whole(heap, at, paging)' /\ at'["elf_file"] = at["elf_file"]
    BY <1>1, <2>1, GivesBackFacts
  <2> QED
    BY <1>1, <1>2, <1>3, <2>1, <2>2, PanicIInv DEF Gone
<1> QED
  BY <1>4, <1>5

LEMMA NotFoundIInv ==
  ASSUME LoadIInv, NotFound PROVE LoadIInv'
<1>1. /\ Kinds /\ Built /\ Doomed /\ step = "item" /\ file = "missing"
      /\ NotOpened /\ UNCHANGED short
  BY DEF LoadIInv, NotFound
<1>2. caller # "process_load_binary"
  BY <1>1 DEF Built
<1>3. ~short
  BY <1>1, <1>2 DEF Doomed, NoneLeft, Cramped, NoRoomAgain, Gone
<1>4. short' \in BOOLEAN /\ step \in Opening
  BY <1>1, Steps DEF Kinds
<1> QED
  BY <1>1, <1>3, <1>4, NotOpenedIInv

LEMMA FopenRefusedIInv ==
  ASSUME LoadIInv, FopenRefused PROVE LoadIInv'
<1>1. step \in Opening /\ NoFit(heap, 1) /\ short' = TRUE /\ NotOpened
  BY Steps DEF FopenRefused, Refused
<1> QED
  BY <1>1, NotOpenedIInv

LEMMA GoesOnWithoutIInv ==
  ASSUME LoadIInv, GoesOnWithout PROVE LoadIInv'
<1> USE Steps
<1>1. /\ Kinds /\ Built /\ Tabled /\ Suffixed /\ NoFit(heap, 1) /\ short' = TRUE
      /\ step \in {"end", "clone"} /\ Whole(heap, at, paging)
      /\ UNCHANGED <<file, bytes, heap, at, paging, caller, answer>>
  BY DEF LoadIInv, GoesOnWithout, Refused
<1>2. ~current /\ UNCHANGED <<loaded, current, tasks>>
  BY <1>1 DEF Built, Early, Late, answer
<1>3. CASE step' = "wild"
  BY <1>1, <1>2, <1>3, PanicIInv DEF Gone
<1>4. CASE step' \in {"desc", "fd"}
  <2>1. Kinds'
    BY <1>1, <1>2, <1>4 DEF Kinds, Early
  <2>2. Built'
    BY <1>1, <1>2, <1>4 DEF Built, Early, Late, Gone
  <2>3. Tabled'
    BY <1>1, <1>4 DEF Tabled, Early, Late
  <2>4. Suffixed'
    BY <1>1, <1>4 DEF Suffixed, Early, Gone
  <2>5. Doomed'
    BY <1>1, <1>4 DEF Doomed, NoneLeft
  <2> QED
    BY <1>1, <2>1, <2>2, <2>3, <2>4, <2>5 DEF LoadIInv
<1> QED
  BY <1>3, <1>4 DEF GoesOnWithout

LEMMA NoDescriptorIInv ==
  ASSUME LoadIInv, NoDescriptor PROVE LoadIInv'
<1> USE Steps
<1>1. /\ Kinds /\ Built /\ short' = TRUE /\ step = "fd"
      /\ GivesBack("process", "stack") /\ step' = "panic"
      /\ UNCHANGED <<file, bytes, paging, caller, answer>>
  BY DEF LoadIInv, NoDescriptor, Refused, Panics
<1>2. ~current /\ UNCHANGED <<loaded, current, tasks>>
  BY <1>1 DEF Built, Late, answer
<1>3. Whole(heap, at, paging)' /\ at'["elf_file"] = at["elf_file"]
  BY <1>1, GivesBackFacts
<1> QED
  BY <1>1, <1>2, <1>3, PanicIInv DEF Gone

LEMMA MakeImageIInv ==
  ASSUME LoadIInv, MakeImage PROVE LoadIInv'
<1> USE Steps
<1>1. /\ Kinds /\ Built /\ Tabled /\ Suffixed /\ Doomed
      /\ step = "image" /\ step' = "read" /\ TakesFor("image", BlocksFor(bytes))
      /\ UNCHANGED <<file, bytes, paging, caller, answer, short>>
  BY DEF LoadIInv, MakeImage
<1>2. ~current /\ UNCHANGED <<loaded, current, tasks>>
  BY <1>1 DEF Built, Late, answer
<1>3. PICK n \in Nat : n = BlocksFor(bytes) /\ (n >= 1 => bytes <= n * BlockSize)
  BY <1>1, FileBlocks
<1>4. /\ Whole(heap, at, paging)' /\ Grows(n)
      /\ at'["image"] # NoRegion /\ at'["image"].pages = n
      /\ \A q \in Object : q # "image" => at'[q] = at[q]
  BY <1>1, <1>3, TakesForFacts
<1>5. ~short
  BY <1>1, <1>3, <1>4 DEF Doomed, NoneLeft, Cramped, NoRoomAgain, Gone, Grows
<1>6. Kinds'
  BY <1>1, <1>2 DEF Kinds
<1>7. Imaged'
  BY <1>1, <1>3, <1>4 DEF Imaged, Grows
<1>8. Built'
  <2>1. /\ at["process"] # NoRegion /\ tasks = 0 /\ loaded = "nothing"
        /\ at["elf_file"] # NoRegion
    BY <1>1, <1>5 DEF Built, Early, Gone
  <2>2. step' \notin Early \cup Late /\ UNCHANGED file
    BY <1>1 DEF Early, Late
  <2> QED
    BY <1>1, <1>2, <1>4, <1>7, <2>1, <2>2 DEF Built
<1>9. Tabled'
  BY <1>1 DEF Tabled, Early, Late
<1>10. Suffixed'
  BY <1>1, <1>3, <1>4 DEF Suffixed, Grows, Gone
<1>11. Doomed'
  BY <1>1, <1>5 DEF Doomed
<1> QED
  BY <1>4, <1>6, <1>8, <1>9, <1>10, <1>11 DEF LoadIInv

LEMMA NoImageIInv ==
  ASSUME LoadIInv, NoImage PROVE LoadIInv'
<1> USE Steps
<1>1. /\ Kinds /\ Built /\ Tabled /\ Suffixed
      /\ step = "image" /\ NoFit(heap, BlocksFor(bytes)) /\ short' = TRUE
      /\ UNCHANGED <<file, bytes, paging, caller, answer>>
  BY DEF LoadIInv, NoImage, Refused
<1>2. ~current /\ UNCHANGED <<loaded, current, tasks>>
  BY <1>1 DEF Built, Late, answer
<1>3. CASE Panics
  <2>1. GivesBack("process", "stack") /\ step' = "panic"
    BY <1>3 DEF Panics
  <2>2. Whole(heap, at, paging)' /\ at'["elf_file"] = at["elf_file"]
    BY <1>1, <2>1, GivesBackFacts
  <2> QED
    BY <1>1, <1>2, <2>1, <2>2, PanicIInv DEF Gone
<1>4. CASE step' = "wild" /\ UNCHANGED <<heap, at>>
  BY <1>1, <1>2, <1>4, PanicIInv DEF Gone, LoadIInv
<1>5. CASE /\ caller = "elf_load" /\ bytes # 0 /\ bytes <= Low
           /\ step' = "read" /\ UNCHANGED <<heap, at>>
  <2>1. Kinds'
    BY <1>1, <1>2, <1>5 DEF Kinds
  <2>2. Built'
    <3>1. at["process"] # NoRegion /\ tasks = 0 /\ loaded = "nothing"
      BY <1>1 DEF Built, Early, Gone
    <3>2. step' \notin Early \cup Late
      BY <1>5 DEF Early, Late
    <3> QED
      BY <1>1, <1>2, <1>5, <3>1, <3>2 DEF Built
  <2>3. Tabled'
    BY <1>1, <1>5 DEF Tabled, Early, Late
  <2>4. Suffixed'
    BY <1>1, <1>5 DEF Suffixed, Gone
  <2>5. Cramped'
    <3>1. PICK f \in 0 .. Total : Suffix(heap, f)
      BY <1>1, <1>5 DEF Suffixed, Gone
    <3>2. PICK n \in Nat : n = BlocksFor(bytes) /\ n \in 1 .. Tables + 2
      BY <1>1, <1>5, FileBlocks
    <3>3. f + n > Total
      BY <1>1, <3>1, <3>2, SuffixRefuses
    <3>4. paging = {} /\ Cardinality(paging) = 0
      BY <1>1, FS_EmptySet DEF Tabled, Early
    <3>5. f + Tables + 2 > Total + Cardinality(paging)
      BY <3>2, <3>3, <3>4, HeapAssumption, ProcessLoadAssumption
    <3>6. at["image"] = NoRegion
      BY <1>1 DEF Built, Early
    <3> QED
      BY <1>1, <1>5, <3>1, <3>5, <3>6 DEF Cramped
  <2> QED
    BY <1>1, <1>5, <2>1, <2>2, <2>3, <2>4, <2>5 DEF LoadIInv, Doomed
<1>6. bytes \in Nat /\ Low \in Nat
  BY <1>1, ProcessLoadAssumption DEF Kinds
<1> QED
  BY <1>3, <1>4, <1>5, <1>6 DEF NoImage

LEMMA ReadFailsIInv ==
  ASSUME LoadIInv, ReadFails PROVE LoadIInv'
<1> USE Steps
<1>1. /\ Kinds /\ Built /\ step = "read" /\ GivesBack("image", "process")
      /\ step' = "panic" /\ UNCHANGED <<file, bytes, paging, caller, answer, short>>
  BY DEF LoadIInv, ReadFails
<1>2. ~current /\ UNCHANGED <<loaded, current, tasks>> /\ short' \in BOOLEAN
  BY <1>1 DEF Kinds, Built, Late, answer
<1>3. Whole(heap, at, paging)' /\ at'["elf_file"] = at["elf_file"]
  BY <1>1, GivesBackFacts
<1> QED
  BY <1>1, <1>2, <1>3, PanicIInv DEF Gone

LEMMA ReadElfIInv ==
  ASSUME LoadIInv, ReadElf PROVE LoadIInv'
<1> USE Steps
<1>1. /\ Kinds /\ Built /\ Tabled /\ Suffixed /\ Doomed /\ Whole(heap, at, paging)
      /\ step = "read" /\ step' = "stack" /\ caller = "elf_load"
      /\ file \in {"elf", "badsegment"}
      /\ loaded' = (IF at["elf_file"] = NoRegion THEN "nothing" ELSE file)
      /\ UNCHANGED <<file, bytes, heap, at, paging, caller, current, tasks, short>>
  BY DEF LoadIInv, ReadElf
<1>2. ~current
  BY <1>1 DEF Built, Late
<1>3. Kinds'
  BY <1>1 DEF Kinds, Late
<1>4. Built'
  <2>1. /\ at["process"] # NoRegion /\ tasks = 0
        /\ ~short => at["elf_file"] # NoRegion /\ Imaged
    BY <1>1 DEF Built, Early, Gone
  <2>2. Imaged => Imaged'
    BY <1>1 DEF Imaged
  <2>3. step' \notin Early \cup {"read"} \cup Gone
    BY <1>1 DEF Early, Gone
  <2> QED
    BY <1>1, <1>2, <2>1, <2>2, <2>3 DEF Built
<1>5. Tabled'
  BY <1>1 DEF Tabled, Early, Late
<1>6. Suffixed'
  BY <1>1 DEF Suffixed, Gone
<1>7. Doomed'
  BY <1>1 DEF Doomed, NoneLeft, Cramped, NoRoomAgain, Gone
<1> QED
  BY <1>1, <1>3, <1>4, <1>5, <1>6, <1>7 DEF LoadIInv

LEMMA NotElfIInv ==
  ASSUME LoadIInv, NotElf PROVE LoadIInv'
<1> USE Steps
<1>1. /\ Kinds /\ Built /\ Tabled /\ Doomed
      /\ step = "read" /\ step' = "root" /\ caller = "elf_load" /\ file = "raw"
      /\ Frees("image") /\ caller' = "process_load_binary"
      /\ UNCHANGED <<file, bytes, paging, answer, short>>
  BY DEF LoadIInv, NotElf
<1>2. ~current /\ UNCHANGED <<loaded, current, tasks>>
  BY <1>1 DEF Built, Late, answer
<1>3. /\ Whole(heap, at, paging)' /\ at'["image"] = NoRegion
      /\ \A q \in Object : q # "image" => at'[q] = at[q]
      /\ at["image"] = NoRegion => heap' = heap
  BY <1>1, FreesFacts
<1>4. Kinds'
  BY <1>1, <1>2 DEF Kinds, Early
<1>5. Built'
  <2>1. /\ at["process"] # NoRegion /\ tasks = 0 /\ loaded = "nothing"
        /\ ~short => at["elf_file"] # NoRegion
    BY <1>1 DEF Built, Early, Gone
  <2>2. step' \notin Late \cup {"read"}
    BY <1>1 DEF Late
  <2> QED
    BY <1>1, <1>2, <1>3, <2>1, <2>2 DEF Built
<1>6. Tabled'
  BY <1>1 DEF Tabled, Early, Late
<1>7. Suffixed'
  BY <1>1 DEF Suffixed
<1>8. Doomed'
  <2> SUFFICES ASSUME short PROVE NoRoomAgain'
    BY <1>1 DEF Doomed
  <2>1. at["image"] = NoRegion /\ NoFit(heap, BlocksFor(bytes))
    BY <1>1 DEF Doomed, NoneLeft, Cramped, NoRoomAgain, Gone
  <2>2. heap' = heap /\ UNCHANGED bytes
    BY <1>1, <1>3, <2>1
  <2> QED
    BY <1>1, <2>1, <2>2 DEF NoRoomAgain
<1> QED
  BY <1>3, <1>4, <1>5, <1>6, <1>7, <1>8 DEF LoadIInv

LEMMA ReadBinaryIInv ==
  ASSUME LoadIInv, ReadBinary PROVE LoadIInv'
<1> USE Steps
<1>1. /\ Kinds /\ Built /\ Tabled /\ Suffixed /\ Doomed /\ Whole(heap, at, paging)
      /\ step = "read" /\ step' = "stack" /\ caller = "process_load_binary"
      /\ loaded' = file
      /\ UNCHANGED <<file, bytes, heap, at, paging, caller, current, tasks, short>>
  BY DEF LoadIInv, ReadBinary
<1>2. ~current /\ file = "raw"
  BY <1>1 DEF Built, Late
<1>3. ~short
  BY <1>1 DEF Doomed, NoneLeft, Cramped, NoRoomAgain, Gone
<1>4. Kinds'
  BY <1>1, <1>2 DEF Kinds, Late
<1>5. Built'
  <2>1. /\ at["process"] # NoRegion /\ tasks = 0
        /\ at["elf_file"] # NoRegion /\ Imaged
    BY <1>1, <1>3 DEF Built, Early, Gone
  <2>2. Imaged'
    BY <1>1, <2>1 DEF Imaged
  <2>3. step' \notin Early \cup {"read"} \cup Gone
    BY <1>1 DEF Early, Gone
  <2> QED
    BY <1>1, <1>2, <2>1, <2>2, <2>3 DEF Built
<1>6. Tabled'
  BY <1>1 DEF Tabled, Early, Late
<1>7. Suffixed'
  BY <1>1 DEF Suffixed
<1>8. Doomed'
  BY <1>1, <1>3 DEF Doomed
<1> QED
  BY <1>1, <1>4, <1>5, <1>6, <1>7, <1>8 DEF LoadIInv

\* A kzalloc for an object after the image fails to fit where memory ran out
\* in fopen, and where it ran out for the image leaves fewer page tables.
LEMMA StillDoomed ==
  ASSUME LoadIInv, NEW n \in Nat, Grows(n), step \in {"stack", "task"},
         step' \in {"task", "tables"},
         UNCHANGED <<paging, caller, short>>
  PROVE  Doomed'
<1> SUFFICES ASSUME short PROVE Cramped'
  BY DEF Doomed
<1>1. ~NoFit(heap, 1)
  BY LargerRefused DEF Grows
<1>2. Cramped
  BY <1>1 DEF LoadIInv, Doomed, NoneLeft, NoRoomAgain, Opening, After, Gone
<1>3. PICK f \in 0 .. Total :
        Suffix(heap, f) /\ f + Tables + 2 > Total + Cardinality(paging)
  BY <1>2 DEF Cramped
<1>4. f + n \in 0 .. Total /\ Suffix(heap', f + n)
  BY <1>3 DEF Grows
<1>5. IsFiniteSet(paging) /\ Cardinality(paging) \in Nat
  BY FS_CardinalityType DEF LoadIInv, Tabled
<1>6. f + n + Tables + 2 > Total + Cardinality(paging)
  BY <1>3, <1>5, HeapAssumption, ProcessLoadAssumption
<1> QED
  BY <1>2, <1>4, <1>6 DEF Cramped

LEMMA MakeStackIInv ==
  ASSUME LoadIInv, MakeStack PROVE LoadIInv'
<1> USE Steps
<1>1. /\ Kinds /\ Built /\ Tabled /\ Suffixed /\ step = "stack"
      /\ UNCHANGED <<file, bytes, paging, caller, answer>>
  BY DEF LoadIInv, MakeStack
<1>2. ~current /\ UNCHANGED <<loaded, current, tasks>>
  BY <1>1 DEF Built, Late, answer
<1>3. CASE TakesFor("stack", StackBlocks) /\ step' = "task" /\ UNCHANGED short
  <2>1. /\ Whole(heap, at, paging)' /\ Grows(StackBlocks)
        /\ at'["stack"] # NoRegion
        /\ \A q \in Object : q # "stack" => at'[q] = at[q]
    BY <1>1, <1>3, TakesForFacts, ProcessLoadAssumption
  <2>2. Kinds'
    BY <1>1, <1>2, <1>3 DEF Kinds, Late
  <2>3. Built'
    <3>1. Imaged => Imaged'
      BY <1>1, <2>1 DEF Imaged
    <3>2. step \in Late /\ step \notin Gone
      BY <1>1 DEF Late, Gone
    <3>3. step' \notin Early \cup Gone \cup {"read"}
      BY <1>3 DEF Early, Gone
    <3> QED
      BY <1>1, <1>2, <1>3, <2>1, <3>1, <3>2, <3>3 DEF Built
  <2>4. Tabled'
    BY <1>1, <1>3 DEF Tabled, Early, Late
  <2>5. Suffixed'
    BY <1>1, <1>3, <2>1 DEF Suffixed, Grows, Gone
  <2>6. Doomed'
    BY <1>1, <1>3, <2>1, StillDoomed, ProcessLoadAssumption
  <2> QED
    BY <2>1, <2>2, <2>3, <2>4, <2>5, <2>6 DEF LoadIInv
<1>4. CASE /\ Refused(StackBlocks) /\ GivesBack("process", "stack")
           /\ step' \in {"panic", "wild"}
  <2>1. Whole(heap, at, paging)' /\ at'["elf_file"] = at["elf_file"]
    BY <1>1, <1>4, GivesBackFacts
  <2> QED
    BY <1>1, <1>2, <1>4, <2>1, PanicIInv DEF Gone, Refused
<1> QED
  BY <1>3, <1>4 DEF MakeStack

LEMMA MakeTaskIInv ==
  ASSUME LoadIInv, MakeTask PROVE LoadIInv'
<1> USE Steps
<1>1. /\ Kinds /\ Built /\ Tabled /\ Suffixed /\ step = "task"
      /\ UNCHANGED <<file, bytes, paging, caller, answer>>
  BY DEF LoadIInv, MakeTask
<1>2. ~current /\ UNCHANGED <<loaded, current, tasks>>
  BY <1>1 DEF Built, Late, answer
<1>3. CASE TakesFor("task", 1) /\ step' = "tables" /\ UNCHANGED short
  <2>1. /\ Whole(heap, at, paging)' /\ Grows(1)
        /\ at'["task"] # NoRegion
        /\ \A q \in Object : q # "task" => at'[q] = at[q]
    BY <1>1, <1>3, TakesForFacts
  <2>2. Kinds'
    BY <1>1, <1>2, <1>3 DEF Kinds, Late
  <2>3. Built'
    <3>1. Imaged => Imaged'
      BY <1>1, <2>1 DEF Imaged
    <3>2. step \in Late /\ step \notin Gone
      BY <1>1 DEF Late, Gone
    <3>3. step' \notin Early \cup Gone \cup {"read"}
      BY <1>3 DEF Early, Gone
    <3> QED
      BY <1>1, <1>2, <1>3, <2>1, <3>1, <3>2, <3>3 DEF Built
  <2>4. Tabled'
    <3>1. Cardinality(paging) < Tables + 2
      BY <1>1, FS_EmptySet, ProcessLoadAssumption DEF Tabled
    <3> QED
      BY <1>1, <1>3, <3>1 DEF Tabled, Early, Late
  <2>5. Suffixed'
    BY <1>1, <1>3, <2>1 DEF Suffixed, Grows, Gone
  <2>6. Doomed'
    BY <1>1, <1>3, <2>1, StillDoomed
  <2> QED
    BY <2>1, <2>2, <2>3, <2>4, <2>5, <2>6 DEF LoadIInv
<1>4. CASE Refused(1) /\ step' = "wild" /\ UNCHANGED <<heap, at>>
  BY <1>1, <1>2, <1>4, PanicIInv DEF Gone, Refused, LoadIInv
<1> QED
  BY <1>3, <1>4 DEF MakeTask

LEMMA MakeTableIInv ==
  ASSUME LoadIInv, MakeTable PROVE LoadIInv'
<1> USE Steps
<1>1. /\ Kinds /\ Built /\ Tabled /\ Suffixed /\ Doomed /\ Whole(heap, at, paging)
      /\ step = "tables"
      /\ UNCHANGED <<file, bytes, at, caller, loaded, current, short>>
  BY DEF LoadIInv, MakeTable
<1>2. PICK b \in Block : /\ IsFirstFit(heap, b, 1)
                         /\ heap' = MarkBlocksTaken(heap, b, 1)
                         /\ paging' = paging \cup {b}
  BY <1>1 DEF MakeTable
<1>3. Whole(heap, at, paging)' /\ b \notin paging
  BY <1>1, <1>2, TableWhole
<1>4. Grows(1)
  BY <1>1, <1>2, Grown DEF Whole
<1>5. /\ IsFiniteSet(paging) /\ Cardinality(paging) \in Nat
      /\ IsFiniteSet(paging') /\ Cardinality(paging') = Cardinality(paging) + 1
  BY <1>1, <1>2, <1>3, FS_AddElement, FS_CardinalityType DEF Tabled
<1>6. ~current /\ tasks = 0 /\ tasks + 1 \in 0 .. 1
  BY <1>1 DEF Built, Late
<1>7. short => \E f \in 0 .. Total :
                 /\ caller = "elf_load" /\ Suffix(heap', f + 1) /\ f + 1 \in 0 .. Total
                 /\ (f + 1) + Tables + 2 > Total + Cardinality(paging')
  <2> SUFFICES ASSUME short
               PROVE  \E f \in 0 .. Total :
                 /\ caller = "elf_load" /\ Suffix(heap', f + 1) /\ f + 1 \in 0 .. Total
                 /\ (f + 1) + Tables + 2 > Total + Cardinality(paging')
    OBVIOUS
  <2>1. Cramped
    BY <1>1 DEF Doomed, NoneLeft, NoRoomAgain, Gone
  <2>2. PICK f \in 0 .. Total :
          Suffix(heap, f) /\ f + Tables + 2 > Total + Cardinality(paging)
    BY <2>1 DEF Cramped
  <2>3. f + 1 \in 0 .. Total /\ Suffix(heap', f + 1)
    BY <1>4, <2>2 DEF Grows
  <2>4. (f + 1) + Tables + 2 > Total + Cardinality(paging')
    BY <1>5, <2>2, HeapAssumption, ProcessLoadAssumption
  <2> QED
    BY <2>1, <2>2, <2>3, <2>4 DEF Cramped
<1>8. Suffixed'
  <2>1. caller = "elf_load" => \E f \in 0 .. Total : Suffix(heap, f)
    BY <1>1 DEF Suffixed, Gone
  <2> QED
    BY <1>1, <1>4, <2>1 DEF Suffixed, Grows
<1>9. Imaged => Imaged'
  BY <1>1 DEF Imaged
<1>10. step \in Late /\ step \notin Early \cup Gone \cup {"read"}
  BY <1>1 DEF Early, Late, Gone
<1>11. CASE Cardinality(paging') < Tables + 2 /\ UNCHANGED <<step, tasks>>
  <2>1. Kinds'
    BY <1>1, <1>11 DEF Kinds
  <2>2. Built'
    BY <1>1, <1>6, <1>9, <1>10, <1>11 DEF Built
  <2>3. Tabled'
    BY <1>1, <1>5, <1>10, <1>11 DEF Tabled
  <2>4. Doomed'
    BY <1>1, <1>7, <1>11 DEF Doomed, Cramped
  <2> QED
    BY <1>3, <1>8, <2>1, <2>2, <2>3, <2>4 DEF LoadIInv
<1>12. CASE Cardinality(paging') = Tables + 2 /\ step' = "map" /\ tasks' = tasks + 1
  <2>1. ~short
    BY <1>5, <1>7, <1>12, HeapAssumption, ProcessLoadAssumption
  <2>2. step' \in Late /\ step' \notin Early \cup Gone \cup {"read", "stack", "task", "tables"}
    BY <1>12 DEF Early, Late, Gone
  <2>3. Kinds'
    BY <1>1, <1>6, <1>12, <2>2 DEF Kinds
  <2>4. Built'
    <3>1. /\ at["process"] # NoRegion /\ at["stack"] # NoRegion /\ at["task"] # NoRegion
      BY <1>1, <1>10 DEF Built
    <3> QED
      BY <1>1, <1>6, <1>9, <1>10, <1>12, <2>2, <3>1 DEF Built
  <2>5. Tabled'
    BY <1>5, <1>12, <2>2 DEF Tabled
  <2>6. Doomed'
    BY <1>1, <2>1 DEF Doomed
  <2> QED
    BY <1>3, <1>8, <2>3, <2>4, <2>5, <2>6 DEF LoadIInv
<1> QED
  BY <1>11, <1>12 DEF MakeTable

LEMMA NoTableIInv ==
  ASSUME LoadIInv, NoTable PROVE LoadIInv'
<1> USE Steps
<1>1. /\ Kinds /\ Built /\ step = "tables" /\ short' = TRUE
      /\ Frees("task") /\ step' = "wild"
      /\ UNCHANGED <<file, bytes, paging, caller, answer>>
  BY DEF LoadIInv, NoTable, Refused
<1>2. ~current /\ UNCHANGED <<loaded, current, tasks>>
  BY <1>1 DEF Built, Late, answer
<1>3. Whole(heap, at, paging)' /\ at'["elf_file"] = at["elf_file"]
  BY <1>1, FreesFacts
<1> QED
  BY <1>1, <1>2, <1>3, PanicIInv DEF Gone

LEMMA MapIInv ==
  ASSUME LoadIInv, Map PROVE LoadIInv'
<1> USE Steps
<1>1. /\ Kinds /\ Built /\ Tabled /\ Suffixed /\ Doomed /\ Whole(heap, at, paging)
      /\ step = "map" /\ step' = "ss" /\ current' = TRUE
      /\ UNCHANGED <<file, bytes, heap, at, paging, caller, loaded, tasks, short>>
  BY DEF LoadIInv, Map
<1>2. /\ step \in Late /\ step \notin Early \cup Gone \cup {"read"}
      /\ step' \in Late \ {"stack", "task", "tables", "map"}
      /\ step' \notin Early \cup Gone \cup {"read"}
  BY <1>1 DEF Early, Late, Gone
<1>3. ~short
  BY <1>1 DEF Doomed, NoneLeft, Cramped, NoRoomAgain, Gone
<1>4. Kinds'
  BY <1>1, <1>2 DEF Kinds
<1>5. Built'
  <2>1. Imaged => Imaged'
    BY <1>1 DEF Imaged
  <2>2. at["process"] # NoRegion /\ at["stack"] # NoRegion /\ at["task"] # NoRegion
    BY <1>1, <1>2 DEF Built
  <2> QED
    BY <1>1, <1>2, <2>1, <2>2 DEF Built
<1>6. Tabled'
  BY <1>1, <1>2 DEF Tabled
<1>7. Suffixed'
  BY <1>1, <1>2 DEF Suffixed
<1>8. Doomed'
  BY <1>1, <1>3 DEF Doomed
<1> QED
  BY <1>1, <1>4, <1>5, <1>6, <1>7, <1>8 DEF LoadIInv

LEMMA MapFailsIInv ==
  ASSUME LoadIInv, MapFails PROVE LoadIInv'
<1> USE Steps
<1>1. /\ Kinds /\ Built /\ step = "map"
      /\ GivesBack("process", "stack") /\ step' = "panic"
      /\ UNCHANGED <<file, bytes, paging, caller, answer, short>>
  BY DEF LoadIInv, MapFails, Panics
<1>2. ~current /\ UNCHANGED <<loaded, current, tasks>> /\ short' \in BOOLEAN
  BY <1>1 DEF Kinds, Built, Late, answer
<1>3. Whole(heap, at, paging)' /\ at'["elf_file"] = at["elf_file"]
  BY <1>1, GivesBackFacts
<1> QED
  BY <1>1, <1>2, <1>3, PanicIInv DEF Gone

LEMMA PrintsIInv ==
  ASSUME LoadIInv, Prints PROVE LoadIInv'
<1> USE Steps
<1>1. /\ Kinds /\ Built /\ Tabled /\ Suffixed /\ Doomed /\ Whole(heap, at, paging)
      /\ step \in {"ss", "digits", "address"}
      /\ UNCHANGED <<file, bytes, at, paging, caller, answer, short>>
      /\ step' \in {"digits", "address", "user", "wild"}
  BY DEF LoadIInv, Prints
<1>2. UNCHANGED <<loaded, current, tasks>>
  BY <1>1 DEF answer
<1>3. /\ step \in Late \ {"stack", "task", "tables", "map"}
      /\ step \notin Early \cup Gone \cup {"process", "read"}
      /\ step' \notin Early \cup {"process", "read", "stack", "task", "tables", "map"}
      /\ step' \in Late \/ step' = "wild"
  BY <1>1 DEF Early, Late, Gone
<1>4. ~short
  BY <1>1 DEF Doomed, NoneLeft, Cramped, NoRoomAgain, Gone
<1>5. Whole(heap, at, paging)' /\ (Grows(1) \/ heap' = heap)
  BY <1>1, TakesFacts DEF Prints
<1>6. Kinds'
  BY <1>1, <1>2, <1>3 DEF Kinds, Gone
<1>7. Built'
  <2>1. Imaged => Imaged'
    BY <1>1 DEF Imaged
  <2>2. at["process"] # NoRegion /\ at["elf_file"] # NoRegion
    BY <1>1, <1>3, <1>4 DEF Built, Late
  <2>3. at["stack"] # NoRegion /\ at["task"] # NoRegion
    BY <1>1, <1>3 DEF Built
  <2> QED
    BY <1>1, <1>2, <1>3, <2>1, <2>2, <2>3 DEF Built
<1>8. Tabled'
  BY <1>1, <1>3 DEF Tabled
<1>9. Suffixed'
  <2>1. caller = "elf_load" => \E f \in 0 .. Total : Suffix(heap, f)
    BY <1>1, <1>3 DEF Suffixed
  <2> QED
    BY <1>1, <1>5, <2>1 DEF Suffixed, Grows
<1>10. Doomed'
  BY <1>1, <1>4 DEF Doomed
<1> QED
  BY <1>5, <1>6, <1>7, <1>8, <1>9, <1>10 DEF LoadIInv

LEMMA LoadNextIInv == LoadIInv /\ [LoadNext]_loadVars => LoadIInv'
<1> SUFFICES ASSUME LoadIInv, [LoadNext]_loadVars PROVE LoadIInv'
  OBVIOUS
<1>1. CASE UNCHANGED loadVars
  BY <1>1 DEF loadVars, answer, LoadIInv, Whole, Kinds, Built, Imaged, Tabled,
              Suffixed, Suffix, Doomed, NoneLeft, Cramped, NoRoomAgain, NoFit, Fits
<1>2. CASE LoadNext
  BY <1>2, MakeProcessIInv, MakeElfFileIInv, FopenIInv, NotFoundIInv, FopenRefusedIInv,
     GoesOnWithoutIInv, NoDescriptorIInv, MakeImageIInv, NoImageIInv, ReadFailsIInv,
     ReadElfIInv, NotElfIInv, ReadBinaryIInv, MakeStackIInv, MakeTaskIInv,
     MakeTableIInv, NoTableIInv, MapIInv, MapFailsIInv, PrintsIInv
     DEF LoadNext
<1> QED
  BY <1>1, <1>2

LEMMA AlwaysLoadIInv == LoadSpec => []LoadIInv
<1>1. LoadInit => LoadIInv
  BY LoadInitIInv
<1>2. LoadIInv /\ [LoadNext]_loadVars => LoadIInv'
  BY LoadNextIInv
<1> QED
  BY <1>1, <1>2, PTL DEF LoadSpec

\* Whatever kzalloc of the load is refused (elfloader.c, task.c, process.c),
\* the objects it holds are whole chains, theirs alone, and what processes[]
\* and cur_process lead to was never freed.
THEOREM LoadHolds == LoadSpec => []ObjectsWhole
<1>1. ASSUME LoadIInv PROVE ObjectsWhole
  <2> USE <1>1, HeapAssumption
  <2>1. Whole(heap, at, paging) /\ Kinds /\ Built
    BY DEF LoadIInv
  <2>2. LoadTypeOK
    BY <2>1, Steps DEF LoadTypeOK, Whole, Kinds, Region
  <2>3. ASSUME NEW o \in Made, NEW k \in Owned(o)
        PROVE  heap[k] = IF k = at[o].base + at[o].pages - 1 THEN LAST ELSE NEXT
    <3>1. /\ o \in Object /\ at[o] # NoRegion
          /\ at[o].base \in Nat /\ at[o].pages \in Nat \ {0}
      BY <2>1, <2>3, WholeRegion DEF Made
    <3>2. k = at[o].base + at[o].pages - 1 \/ k \in at[o].base .. at[o].base + at[o].pages - 2
      BY <2>3, <3>1 DEF Owned
    <3> QED
      BY <2>1, <3>1, <3>2 DEF Whole
  <2>4. ASSUME NEW o \in Made
        PROVE  /\ \A p \in Made : p # o => Owned(o) \cap Owned(p) = {}
               /\ Owned(o) \cap paging = {}
    BY <2>1 DEF Whole, Made, Owned, Blocks
  <2>5. \A k \in paging : heap[k] = LAST
    BY <2>1 DEF Whole
  <2>6. current => {"process", "stack", "task"} \subseteq Made
    BY <2>1, Steps DEF Built, Made
  <2> QED
    BY <2>2, <2>3, <2>4, <2>5, <2>6 DEF ObjectsWhole
<1> QED
  BY <1>1, AlwaysLoadIInv, PTL

\* No program is entered after a kzalloc of its load was refused, although
\* elf_load, fopen and paging_new_chunk look at few of them; and one that is
\* entered has its objects and an image that holds the file.
THEOREM LoadEnters == LoadSpec => []EntersComplete
<1>1. ASSUME LoadIInv PROVE EntersComplete
  <2> SUFFICES ASSUME step = "user"
               PROVE  /\ ~short
                      /\ Object \ {"image"} \subseteq Made
                      /\ Cardinality(paging) = Tables + 2
                      /\ loaded = "nothing" <=> file = "missing"
                      /\ loaded # "nothing" =>
                           "image" \in Made /\ bytes <= at["image"].pages * BlockSize
    BY DEF EntersComplete
  <2>1. Built /\ Tabled /\ Doomed
    BY <1>1 DEF LoadIInv
  <2>2. step \in Late \ {"stack", "task", "tables"} /\ step \notin Gone
    BY DEF Late, Gone
  <2>3. ~short
    BY <2>1, <2>2, Steps DEF Doomed, NoneLeft, Cramped, NoRoomAgain
  <2>4. Object \ {"image"} \subseteq Made
    BY <2>1, <2>2, <2>3, Steps DEF Built, Made, Late
  <2>5. Cardinality(paging) = Tables + 2
    BY <2>1, <2>2 DEF Tabled
  <2>6. /\ loaded = "nothing" <=> file = "missing"
        /\ loaded # "nothing" => Imaged
    BY <2>1, <2>2, <2>3 DEF Built
  <2> QED
    BY <2>3, <2>4, <2>5, <2>6, Steps DEF Imaged, Made
<1> QED
  BY <1>1, AlwaysLoadIInv, PTL
=============================================================================
