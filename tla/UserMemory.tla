----------------------------- MODULE UserMemory -----------------------------
(***************************************************************************)
(* The memory a process shares with the kernel: system calls malloc, free, *)
(* print and putchar acting on the kernel heap, on the process's table of  *)
(* allocations and on the heap's pages in the task's own page table.  A    *)
(* heap block is one page.  System calls run with interrupts off: each is  *)
(* one step, but for print, whose two steps are before and after the copy  *)
(* of the string.  Block is the part of the heap left once the kernel is   *)
(* up, below 56 MB: a string copied to a block there makes                 *)
(* copy_string_from_task write one stray word below the heap, further up   *)
(* it would hit the heap.                                                  *)
(***************************************************************************)
EXTENDS HeapTable

CONSTANTS Slots,     \* MAX_PROGRAM_ALLOCATIONS
          Sizes      \* sizes the program asks for

ASSUME UserMemoryAssumption ==
  /\ Slots \in Nat
  /\ Sizes \subseteq 0 .. WordSize - 1

VARIABLES entries,  \* kernel_heap.table->entries
          slots,    \* process->allocations
          pte,      \* flags of each heap page in the task's page table
          copy,     \* print's copy: its block, and the page entry before
          cpu       \* "ok" in the program, "copied" in print; or what ended
                    \* it: an absent page under print's copy ("copy"), its
                    \* string or the program's stack, or the kernel's image
                    \* overwritten ("wild")

vars == <<entries, slots, pte, copy, cpu>>

Slot == 1 .. Slots
Null == [base |-> -1, pages |-> 0]
Live == {i \in Slot : slots[i] # Null}
PagesOf(r) == r.base .. r.base + r.pages - 1
NoCopy == [block |-> -1, old |-> "none"]
Elsewhere == -1   \* a page outside the heap, always present

\* paging_new_chunk(PRESENT | ACCESS_FROM_ALL): the program may read all of
\* memory.  "rw" adds IS_WRITABLE, "none" is process_free's flags of 0.
Init ==
  /\ entries = [k \in Block |-> FREE]
  /\ slots = [i \in Slot |-> Null]
  /\ pte = [k \in Block |-> "ro"]
  /\ copy = NoCopy
  /\ cpu = "ok"

\* paging_map_to from page b for n pages; all its checks hold for a block.
Remap(b, n, flags) ==
  [k \in Block |-> IF k \in b .. b + n - 1 THEN flags ELSE pte[k]]

\* process_free's flags: an access faults, in the kernel as in the program.
Absent(k) == k \in Block /\ pte[k] = "none"

FirstEmpty(i) == slots[i] = Null /\ \A k \in Slot : k < i => slots[k] # Null

\* process_malloc, with a slot for the new region ...
MutSysMalloc(size) ==
  LET n == BlocksFor(size) IN
  /\ cpu = "ok" /\ size # 0
  /\ \E b \in Block, i \in Slot :
       /\ IsFirstFit(entries, b, n) /\ FirstEmpty(i)
       /\ entries' = MarkBlocksTaken(entries, b, n)
       /\ slots' = [slots EXCEPT ![i] = [base |-> b, pages |-> n]]
       /\ pte' = Remap(b, n + 1, "rw")
  /\ UNCHANGED <<copy, cpu>>
SysMalloc(size) ==
  LET n == BlocksFor(size) IN
  /\ cpu = "ok" /\ size # 0
  /\ \E b \in Block, i \in Slot :
       /\ IsFirstFit(entries, b, n) /\ FirstEmpty(i)
       /\ entries' = MarkBlocksTaken(entries, b, n)
       /\ slots' = [slots EXCEPT ![i] = [base |-> b, pages |-> n]]
       /\ pte' = Remap(b, n, "rw")
  /\ UNCHANGED <<copy, cpu>>

\* ... and without: the region goes back to the heap and 0 is returned.
SysMallocNoSlot(size) ==
  LET n == BlocksFor(size) IN
  /\ cpu = "ok" /\ size # 0
  /\ Live = Slot
  /\ \E b \in Block :
       /\ IsFirstFit(entries, b, n)
       /\ entries' = Released(MarkBlocksTaken(entries, b, n), b)
  /\ UNCHANGED <<slots, pte, copy, cpu>>

\* process_free of a pointer in the table; any other non-null one is ignored.
SysFree(i) ==
  /\ cpu = "ok" /\ i \in Live
  /\ pte' = Remap(slots[i].base, slots[i].pages, "none")
  /\ slots' = [slots EXCEPT ![i] = Null]
  /\ entries' = Released(entries, slots[i].base)
  /\ UNCHANGED <<copy, cpu>>

\* free(0) matches an empty slot: kfree(0) reads, and where it finds the
\* HAS_NEXT bit clears, bytes far past the table, in the kernel's image.
SysFreeNull ==
  /\ cpu = "ok" /\ Live # Slot
  /\ cpu' \in {"ok", "wild"}
  /\ UNCHANGED <<entries, slots, pte, copy>>

\* printk of one argument: strdup takes a block, kfree gives none back, and
\* without a block nothing is printed.  t: the table printk starts from.
MutShow(t) == entries' = t
Show(t) ==
  \/ \E b \in Block : IsFirstFit(t, b, 1) /\ entries' = MarkBlocksTaken(t, b, 1)
  \/ NoFit(t, 1) /\ entries' = t

\* isr80h_command3_putchar of a character other than 0 (which takes no block).
SysPutchar ==
  /\ cpu = "ok"
  /\ Show(entries)
  /\ UNCHANGED <<slots, pte, copy, cpu>>

\* task_get_stack_item, with which every command but getkey starts, reads
\* through the task's tables: a program may have its stack in memory it freed.
SysStackFaults ==
  /\ cpu = "ok"
  /\ \E k \in Block : Absent(k)
  /\ cpu' = "stack"
  /\ UNCHANGED <<entries, slots, pte, copy>>

\* What strncpy, under the task's tables, makes of a string in page k that
\* may go on in the next: it reads a byte and writes it to block b, in turn.
CopyEnds(b, k, goesOn) ==
  IF Absent(k) THEN "string"
  ELSE IF Absent(b) THEN "copy"
  ELSE IF goesOn /\ Absent(k + 1) THEN "string"
  ELSE "copied"

\* isr80h_command1_print and copy_string_from_task up to strncpy: a block for
\* the copy, never freed, and its page entry for later.  paging_map is given
\* the directory for the chunk, writes elsewhere and leaves the entry as it
\* is.  strncpy touches no page for a string at 0 or in that very block.
MutSysPrint ==
  /\ cpu = "ok"
  /\ \E b \in Block :
       /\ IsFirstFit(entries, b, 1)
       /\ entries' = MarkBlocksTaken(entries, b, 1)
       /\ copy' = [block |-> b, old |-> "rw"]
       /\ \/ cpu' = "copied"
          \/ \E k \in Block \cup {Elsewhere}, goesOn \in BOOLEAN :
               cpu' = CopyEnds(b, k, goesOn)
  /\ UNCHANGED <<slots, pte>>
SysPrint ==
  /\ cpu = "ok"
  /\ \E b \in Block :
       /\ IsFirstFit(entries, b, 1)
       /\ entries' = MarkBlocksTaken(entries, b, 1)
       /\ copy' = [block |-> b, old |-> pte[b]]
       /\ \/ cpu' = "copied"
          \/ \E k \in Block \cup {Elsewhere}, goesOn \in BOOLEAN :
               cpu' = CopyEnds(b, k, goesOn)
  /\ UNCHANGED <<slots, pte>>

\* The rest, in the kernel's tables: paging_set restores the entry, printk
\* shows the string; strdup's kmalloc(0) takes no block for an empty one.
SysPrintEnds ==
  /\ cpu = "copied"
  /\ pte' = [pte EXCEPT ![copy.block] = copy.old]
  /\ Show(entries) \/ UNCHANGED entries
  /\ copy' = NoCopy /\ cpu' = "ok"
  /\ UNCHANGED slots

Next == \/ \E size \in Sizes : SysMalloc(size) \/ SysMallocNoSlot(size)
        \/ \E i \in Slot : SysFree(i)
        \/ SysFreeNull \/ SysPutchar \/ SysPrint \/ SysPrintEnds
        \/ SysStackFaults

\* A program that reads lines echoes what is typed, for ever (blank.c); the
\* kernel goes on with a call it has begun.
Spec == Init /\ [][Next]_vars /\ WF_vars(SysPutchar) /\ WF_vars(SysPrintEnds)
-----------------------------------------------------------------------------
Lost == {"copy", "string", "stack", "wild"}

TypeOK ==
  /\ entries \in [Block -> Entry]
  /\ slots \in [Slot -> [base : Block, pages : 1 .. Total] \cup {Null}]
  /\ pte \in [Block -> {"ro", "rw", "none"}]
  /\ copy \in [block : Block, old : {"ro", "rw", "none"}] \cup {NoCopy}
  /\ cpu \in {"ok", "copied"} \cup Lost

\* process.h: the table holds all allocations made by the process.  The
\* program can write exactly the heap pages of the regions in its table:
\* never a page of the kernel's, a page it freed or a page that is free.
WritesOnlyItsOwn ==
  \A k \in Block : pte[k] = "rw" <=> \E i \in Live : k \in PagesOf(slots[i])

\* Each of those regions is a whole chain of the heap's table, so giving it
\* back releases its own blocks, and no two share a page.
RegionsWhole ==
  /\ TypeOK
  /\ \A i \in Live :
       LET r == slots[i] IN
       /\ \A k \in PagesOf(r) : entries[k] = IF k = r.base + r.pages - 1
                                             THEN LAST ELSE NEXT
       /\ \A j \in Live : j # i => PagesOf(r) \cap PagesOf(slots[j]) = {}

\* A page the program freed is never readable by it again unless malloc
\* hands it out anew: not even when the kernel stores strings there.
FreedStaysHidden ==
  [][\A k \in Block : pte[k] = "none" /\ pte'[k] # "none" =>
        /\ pte'[k] = "rw"
        /\ \E i \in Slot : slots'[i] # slots[i] /\ k \in PagesOf(slots'[i])]_vars

\* A program that keeps its strings and its stack off memory it freed can
\* still be lost to the kernel's own copy of a string, which goes to a block
\* of the heap's choice.  But never after freeing one-page regions only: the
\* last page of a region stays taken, so an absent page the heap hands out is
\* followed by another one, up to the last page of that region.
CopyFaultNeedsLargeFree ==
  cpu = "copy" =>
    /\ Absent(copy.block) /\ Absent(copy.block + 1)
    /\ \E k \in Block : /\ k > copy.block /\ entries[k] = LAST
                        /\ \A m \in copy.block .. k : Absent(m)

\* Each character shown costs a block for good, so a program that keeps
\* printing ends up mute, whatever it frees, or the kernel is lost before.
GoesMute == <>[](cpu \in Lost \/ NoFit(entries, 1))
=============================================================================
