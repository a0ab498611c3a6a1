---------------------------- MODULE AddressSpace ----------------------------
(***************************************************************************)
(* The address space of a program: elf_process_pheaders takes the file's   *)
(* bounds, process_map_elf and process_map_memory_process map its program  *)
(* headers and then its stack (task/process.c, loader/formats/elfloader.c, *)
(* memory/paging.c), one step per header.  Addresses have a width: WordSize*)
(* is the number of Pages times their size.                                *)
(***************************************************************************)
EXTENDS Integers, Sequences, SequencesExt

CONSTANTS Page,        \* PAGING_PAGE_SIZE
          Pages,       \* pages in the address space
          ImageAt,     \* the page elf_memory starts at
          FileSize,    \* bytes of the file
          StackAt,     \* the page process->stack starts at
          StackVirtual,\* the page PROGRAM_VIRTUAL_STACK_ADDRESS_END is in
          StackPages,  \* USER_PROGRAM_STACK_SIZE in pages
          Addresses, Offsets, Sizes,  \* of program headers
          MaxHeaders   \* bound on e_phnum

ASSUME AddressSpaceAssumption ==
  /\ Page \in Nat \ {0} /\ Pages \in Nat \ {0}
  /\ {ImageAt, StackAt, StackVirtual} \subseteq 0 .. Pages - 1
  /\ StackPages \in Nat /\ FileSize \in Nat /\ MaxHeaders \in Nat
  \* the file and the stack are in memory, the stack's addresses do not wrap
  /\ ImageAt * Page + FileSize <= Page * Pages
  /\ StackAt + StackPages <= Pages /\ StackVirtual + StackPages <= Pages
  \* fields of a program header are words
  /\ Addresses \cup Offsets \cup Sizes \subseteq 0 .. Page * Pages - 1

WordSize == Page * Pages
PageNumber == 0 .. Pages - 1
Header == [vaddr : Addresses, offset : Offsets, filesz : Sizes, memsz : Sizes,
           write : BOOLEAN, load : BOOLEAN]

VARIABLES headers,  \* the program headers of the file, in order
          next,     \* the header the loop is at
          pte,      \* the task's tables: [frame, write] by page
          bounds,   \* virtual_base_address and virtual_end_address
          pc        \* "bounds", "segments", "done" or "refused"

mapVars == <<headers, next, pte, bounds, pc>>

\* paging_new_chunk(PRESENT | ACCESS_FROM_ALL)
MapInit ==
  /\ headers \in BoundedSeq(Header, MaxHeaders)
  /\ next = 1
  /\ pte = [p \in PageNumber |-> [frame |-> p, write |-> FALSE]]
  /\ bounds = [base |-> 0, end |-> 0]
  /\ pc = "bounds"

MutAlignUp(a) == a - (a % Page)
\* paging_align_address.  Its counterpart paging_align_to_lower_page returns
\* its argument as it is.
AlignUp(a) == IF a % Page = 0 THEN a ELSE (a + Page - (a % Page)) % WordSize

\* paging_map_to: what it accepts and the tables after it.
MapsTo(virt, phys, end) ==
  /\ virt % Page = 0 /\ end % Page = 0 /\ phys % Page = 0
  /\ phys <= end

Mapped(virt, phys, end, write) ==
  [p \in PageNumber |->
     LET k == (p - virt \div Page) % Pages
     IN IF k < (end - phys) \div Page
        THEN [frame |-> phys \div Page + k, write |-> write]
        ELSE pte[p]]

MutWithSegment(b, h) ==
  LET end == (h.vaddr + h.filesz) % WordSize
  IN [base |-> IF b.base >= h.vaddr THEN h.vaddr ELSE b.base,
      end |-> IF b.end <= end \/ b.end = 0 THEN end ELSE b.end]
\* elf_process_phdr_pt_load: 0 stands for "not set yet".
WithSegment(b, h) ==
  LET end == (h.vaddr + h.filesz) % WordSize
  IN [base |-> IF b.base >= h.vaddr \/ b.base = 0 THEN h.vaddr ELSE b.base,
      end |-> IF b.end <= end \/ b.end = 0 THEN end ELSE b.end]

\* elf_process_pheader ends without a return: the build leaves 0 or p_type in
\* eax, so only a type from 2^31 on, not tried here, would end the loop.
TakeBounds ==
  /\ pc = "bounds" /\ next <= Len(headers)
  /\ bounds' = IF headers[next].load THEN WithSegment(bounds, headers[next])
               ELSE bounds
  /\ next' = next + 1
  /\ UNCHANGED <<headers, pte, pc>>

BoundsTaken ==
  /\ pc = "bounds" /\ next > Len(headers)
  /\ next' = 1 /\ pc' = "segments"
  /\ UNCHANGED <<headers, pte, bounds>>

Phys(h) == (ImageAt * Page + h.offset) % WordSize
PhysEnd(h) == AlignUp((Phys(h) + h.memsz) % WordSize)

MutMapHeader ==
  LET h == headers[next] IN
  /\ pc = "segments" /\ next <= Len(headers)
  /\ MapsTo(h.vaddr, Phys(h), PhysEnd(h))
  /\ pte' = Mapped(h.vaddr, Phys(h), PhysEnd(h) + Page, h.write)
  /\ next' = next + 1
  /\ UNCHANGED <<headers, bounds, pc>>
\* Every header is mapped, whatever its type; p_memsz counts, not p_filesz.
MapHeader ==
  LET h == headers[next] IN
  /\ pc = "segments" /\ next <= Len(headers)
  /\ MapsTo(h.vaddr, Phys(h), PhysEnd(h))
  /\ pte' = Mapped(h.vaddr, Phys(h), PhysEnd(h), h.write)
  /\ next' = next + 1
  /\ UNCHANGED <<headers, bounds, pc>>

Refuse ==
  LET h == headers[next] IN
  /\ pc = "segments" /\ next <= Len(headers)
  /\ ~MapsTo(h.vaddr, Phys(h), PhysEnd(h))
  /\ pc' = "refused"
  /\ UNCHANGED <<headers, next, pte, bounds>>

\* Blocks of the heap are pages, so the stack is accepted.
MapStack ==
  /\ pc = "segments" /\ next > Len(headers)
  /\ pte' = Mapped(StackVirtual * Page, StackAt * Page,
                   (StackAt + StackPages) * Page, TRUE)
  /\ pc' = "done"
  /\ UNCHANGED <<headers, next, bounds>>

MapNext == TakeBounds \/ BoundsTaken \/ MapHeader \/ Refuse \/ MapStack

MapSpec == MapInit /\ [][MapNext]_mapVars
-----------------------------------------------------------------------------
MapTypeOK ==
  /\ headers \in Seq(Header) /\ next \in 1 .. Len(headers) + 1
  /\ pte \in [PageNumber -> [frame : 0 .. Pages, write : BOOLEAN]]
  /\ bounds \in [base : 0 .. WordSize - 1, end : 0 .. WordSize - 1]
  /\ pc \in {"bounds", "segments", "done", "refused"}

StackFrames == StackAt .. StackAt + StackPages - 1
StackRange == StackVirtual .. StackVirtual + StackPages - 1

FilePages == (FileSize + Page - 1) \div Page
ImagePages == ImageAt .. ImageAt + FilePages - 1

\* The pages header k was given.
PagesOf(k) ==
  {p \in PageNumber : (p - headers[k].vaddr \div Page) % Pages
                        < (PhysEnd(headers[k]) - Phys(headers[k])) \div Page}

\* The segments to load, and those not followed by one at address 0.
Loads == {k \in DOMAIN headers : headers[k].load}
Kept == {k \in Loads : \A j \in Loads : j >= k => headers[j].vaddr # 0}

\* The bounds found: the lowest address of a segment to load, but one at 0
\* and all before it are forgotten for the next; the highest of the ends, each
\* taken modulo the address space.
BoundsRight ==
  LET ends == {(headers[k].vaddr + headers[k].filesz) % WordSize : k \in Loads}
  IN pc # "bounds" =>
       /\ \A k \in Kept : bounds.base <= headers[k].vaddr
       /\ bounds.base \in IF Kept = {} THEN {0} ELSE {headers[k].vaddr : k \in Kept}
       /\ \A e \in ends : e <= bounds.end
       /\ bounds.end \in IF Loads = {} THEN {0} ELSE ends

\* Byte b of header k is where the header wants it.
Arrived(k, b) ==
  LET h == headers[k]
      v == (h.vaddr + b) % WordSize
      p == v \div Page
  IN \/ pc = "done" /\ p \in StackRange
     \/ \E j \in k + 1 .. next - 1 : p \in PagesOf(j)
     \/ /\ pte[p].frame * Page + (v % Page) = (Phys(h) + b) % WordSize
        /\ pte[p].write = h.write

\* When the program starts, every byte of a segment is found at its address
\* with the rights of its header, unless a later header or the stack was
\* mapped over its page: page and file offsets, rounding and order agree.
\* A segment within a page of the whole address space is no such promise: its
\* rounded end wraps to its beginning, so it may be accepted and not mapped.
\* And the bounds elf_load has found are these.
SegmentsArrive ==
  /\ MapTypeOK /\ BoundsRight
  /\ pc = "done" =>
       \A k \in DOMAIN headers : headers[k].memsz <= WordSize - Page =>
         \A b \in 0 .. headers[k].memsz - 1 : Arrived(k, b)

\* The program can write to nothing but its file and, in its place, its
\* stack, unless a segment claims more memory than the pages of the file have
\* behind its offset: such a bss is mapped on whatever the heap keeps there,
\* which is the stack first of all.
WritesOnlyFileAndStack ==
  (\E p \in PageNumber : /\ pte[p].write
                         /\ pte[p].frame \notin ImagePages
                         /\ ~(p \in StackRange /\ pte[p].frame \in StackFrames))
    => \E k \in DOMAIN headers :
         headers[k].offset + headers[k].memsz > Page * FilePages
=============================================================================
