# A verification project for tmpOS

tmpOS is a small i386 kernel in C: one address space per program, a block
heap, FAT16, a keyboard and six system calls. This directory holds TLA+ models
of its core, the TLC configurations that check them on small instances and the
theorems TLAPS proves about them for every value of the constants.

## 1. The system

| Part | State it keeps | Operations | Talks to |
|---|---|---|---|
| Kernel heap (`memory/heap.c`, `kheap.c`) | table of block entries | kmalloc, kzalloc, kfree | everybody |
| Paging (`memory/paging.c`) | page directory per task | new_chunk, map, map_to, switch | heap, tasks |
| Segments (`gdt/`, `kernel.c`, `task/tss.asm`) | the encoded table, the task state segment | encodeGDTEntry, gdt_structured_to_gdt, lgdt, ltr | traps |
| Traps (`idt/`, `task/task.asm`) | IDT, saved registers, loaded tables and segments | interrupt_handler, isr80h_handler, callbacks | tasks, keyboard, system calls |
| System calls (`isr80h/`) | process's allocations | sum, print, getkey, putchar, malloc, free | heap, paging, screen |
| Keyboard (`keyboard/`) | ring buffer in the process | push from the interrupt, pop from getkey | traps, processes |
| Processes and tasks (`task/process.c`, `task.c`) | `processes[]`, task list, `cur_process` | load, load_switch, run_first_task | loader, heap, paging, files |
| ELF loader (`loader/formats`) | file image, bounds | elf_load, process_pheaders, map_elf | files, paging |
| Files (`fs/file.c`) | `file_descriptors[]` | fopen, fread, fseek, fstat, fclose | parser, FAT16 |
| Path parser (`fs/parser.c`) | list of parts | parser_parse | heap |
| FAT16 (`fs/fat/fat16.c`) | root directory and its count, stream positions, item per descriptor | resolve, open, read, seek, stat, close | sector stream, heap |
| Sector stream (`disk/streamer.c`) | a position | seek, read | ATA driver |
| Screen (`utils.c`) | cells, cursor | terminal_writechar | print, printk |
| User library and `blank` (`progs/`) | a line buffer | terminal_readline, main | system calls |

**Concurrency.** Every IDT entry is an interrupt gate (`idt.c:43`), so the
kernel is never interrupted and one system call is one step for everybody else.
What interleaves is the program (interrupts on) with the timer, the keyboard
and faults. There is no scheduler: nothing calls `task_get_next`.

**What is hard to test here.** Orders of interrupts and system calls; long
legal sequences (malloc/free, open/close, a line corrected on a scrolled
screen); every early return of a load; memory running out at any
`kzalloc`, many of which are unchecked; page tables and segments switched in
the middle of a command; and arithmetic at boundaries: wrapped sizes, sector
and cluster ends, full buffers, the last descriptor. `PROJECT.json` lists these
hazards at their lines with the properties that cover them.

The build uses no optimisation (`Makefile`, FLAGS); where C leaves a result
open (`elf_process_pheaders` has no return) the models take what that build
computes and say so.

## 2. The modules

Definitions keep the source's names where they can. An operator `Mut...`
is a deliberately wrong variant of the definition after it, as a slip in the
code would make it; every property is known to fail when one of them takes the
definition's place. No specification uses them. History variables, marked
"history" where they are declared, are read by no guard except for bounds.

**HeapTable** — the block table as a function, entries FREE, NEXT (taken, has
next) and LAST (taken); `AlignValue`, `IsFirstFit`, `MarkBlocksTaken`,
`Released` are heap_align_value, the search's result, mark_blocks_taken and
heap_free. heap_free stops at the first entry without HAS_NEXT, so the last
block of a region stays taken: this one line shapes most of what follows.
**Heap** — kmalloc and kfree as one step each with the regions callers hold.
**HeapScan** extends it with heap_malloc_blocks' two loops, a test or increment
a step; the inner loop writes the outer one's index.
**AllocatorSpec** — what callers need: regions inside the heap, large enough,
disjoint. HeapScan implements Heap, Heap implements AllocatorSpec.

**UserMemory** — malloc, free, print and putchar from a program in any order:
kernel heap, the process's allocation slots and the access rights of each heap
page in the task's tables. print is two steps, before and after the copy of
the string (`copy`: the block and its remembered page entry). Between them the
kernel runs under the task's tables and can meet a page the program freed: in
its own copy (`cpu = "copy"`), in the string (`"string"`), and at the start of
any command in the program's stack (`"stack"`). `free(0)` reads and may clear
bytes far past the table (`"wild"`).

**Keyboard** — push and pop on buffer, head and tail with wrapping counters.
**KeyFifo** — the queue a program expects; Keyboard implements it up to the
first overwritten key.

**Gdt** — the six segments of `kernel.c`, their encoding in split fields with
two units of limit, and what the CPU reads back. Widths are constants.
**Traps** extends it: CPU ring, loaded tables and segments, registers, trap
frame, saved state, raised and unacknowledged interrupt lines; one action per
stage from the stub to `iret`, including the windows in which a command has the
task's tables loaded, the keyboard callback's early return, software
interrupts, faults and the division gate.

**ProcessLoad** — the one load of kernel_start, from process_load_switch to
the iret into the program, on HeapTable: one step per kzalloc, each of which
may be refused, with what the code does then: looks at the answer, goes on at
address 0, or frees and panics. The actions follow process_load_for_slot,
elf_load, fopen with the parser and fat16 under it, process_load_binary,
task_new, paging_new_chunk and the two printk's on the way. What the kernel
allocated before is a prefix of taken blocks of any length, which is what first
fit makes of single blocks that are never given back.
**AddressSpace** — what elf_process_pheaders and process_map_elf make of a
file's program headers, and the stack mapped after them: bounds first, then one
step per header.

**FatLookup** — from fat16_resolve to fat16_close: mounting and counting the
root directory entry by entry, fat16_open's search with an item made of every
match, its refusals, and closing. Each kzalloc of an open may fail; `live`
counts what is allocated and not freed, and `short` remembers a refusal.
**FileTable** — several callers on `file_descriptors[]` and FAT16's private
data: fopen in either mode, fread, fseek, fstat, fclose, descriptors whose item
is hollow (its clone is a null pointer) or bogus (an error code taken for a
pointer).
**FatRead** — one fread, by FAT entry and sector; each byte of the result
records the disk position it was copied from. The position is the int that
fat16_read makes of it: one of 2^31 or more is negative, and quotient and
remainder are C's (`Passed`, `Into`).
**PathParser** — parser_parse part by part, with memory running out at any of
its kzallocs, the one at the end of the path, with its kfree(0), too.

**Terminal** — the screen as a value and what a character does to it.
**Readline** extends it and Keyboard with terminal_readline and `blank`'s loop:
'#' is stored at str[3] and the line printed, through strncpy's terminator.
**Console** composes it with the presses: keys are pressed at any moment, wait
in the ring buffer and are polled by getkey_block.

Proof modules, and the modules they are about:

| Module | About |
|---|---|
| HeapProofs | Heap, HeapScan, AllocatorSpec |
| HeapUsersProofs | UserMemory, ProcessLoad |
| ConsoleProofs | Keyboard, KeyFifo, Terminal, Readline, Console |
| TrapsProofs | Gdt, Traps |
| AddressSpaceProofs | AddressSpace |
| FilesProofs | FileTable, PathParser |
| FatLookupProofs | FatLookup |
| FatReadProofs | FatRead |

`MC*` modules give the constants for TLC. Readline, AddressSpace, ProcessLoad and
PathParser name their specifications after themselves (`ProgramInit`,
`MapSpec`, `LoadSpec`, `ParseNext`), so that one module can extend them together with
another.

How they compose: UserMemory and ProcessLoad use the same HeapTable operators
as Heap; HeapScan extends Heap; Traps extends Gdt; Readline extends Terminal
and Keyboard, whose answer is the key terminal_readline holds, and Console
extends Readline. The others meet at interfaces: ProcessLoad takes the outcome
of a mapping from AddressSpace (`badsegment`), the kzallocs of an open from
PathParser and FatLookup, FileTable takes the outcomes of an open from
FatLookup (`hollow`) and leaves what a read delivers to FatRead, FatLookup
takes the parts of a path from PathParser, Traps leaves what a command does to
UserMemory and Keyboard.

## 3. The runs

| Run | Question | Bounds, and why they suffice |
|---|---|---|
| heap | do the loops keep the table sound, implement the one-step heap, and end? | 5 blocks, sizes of 0, 1, 2, 3 blocks and one that wraps to 0: regions with and without inner blocks, gaps on both sides, exhaustion |
| keyboard | is the buffer a FIFO, and what after an overrun? | 4 cells, counters modulo 8, 2 keys, up to 3 lost keys: counters wrap, lags of 0 to N-1 beyond the buffer |
| user_memory | which pages can the program write, read, see, and which lose the kernel? | 6 pages, 2 slots, requests of 1 to 3 pages, 0 and one that wraps; reuse after free, full slot table, full heap, strings anywhere |
| fat_read | where does each byte of an fread come from? | sectors of 2 bytes, 2 clusters of 2 sectors, every FAT, positions and sizes on and off sector ends, three of them negative, 1 or 2 items |
| fat_chain | is the second cluster the one the FAT names? (violated) | as above |
| fat_lookup | which files are found, where does the search read, what does an open leave? | a table of 3 entries of 8 kinds with the disk going on behind it, so full directories occur; names of 2 + 1 letters that do and do not fill their fields, deleted entries, paths of one and two parts, memory short anywhere |
| process_load | what is whole, and does a program start, when memory runs out in its load? | a heap of 50 blocks of which any number is taken before the load, 2 tables per directory: each kzalloc is refused in some behaviour; files of no bytes, of few enough to be read to low memory, of 17 blocks (what elf_load frees of one then serves the rest), and one whose size wraps |
| file_table | is a descriptor its holder's alone? | 3 callers, 3 descriptors, 3-bit positions, files of 0, 4 and 5 bytes: the last descriptor, failed opens and seeks |
| traps | is the machine's state right at every stage? | 2 stack pointers, 2 values, both interrupt lines, all commands; a limit of one field's 8, 2 in the other, pages of 4: both units of limit are used |
| address_space | does every segment arrive, and nothing else? | 10 pages of 2 bytes, up to 2 headers on and off page boundaries, of none to nearly all of the bytes, in file and in memory independently: rounding, overlap, address 0 and wrapped ends all occur |
| readline | do buffer, screen, typing and printing agree? | 2 x 2 screen, lines of up to 3 keys in 4 bytes: wraps and scrolls; a key buffer of 2 keys, 1 lost key: keys wait, and are overwritten |
| path_parser | is a path split exactly? | all paths of up to 8 characters of 4 kinds, one more than the longest allowed |

CHECK_DEADLOCK is off where the system really stops: after a read, search,
parse or load has answered, after the kernel is lost, when no caller can do
anything more. It is on for heap, keyboard and readline, whose callers can
always go on.

What holds, and what is worth knowing:

- The heap never hands out a block twice and its loops always end, but each
  successful kmalloc costs one block for good (`OneBlockPerMalloc`).
- Because of that a program that echoes keys ends up mute (`GoesMute`), since
  printk copies each argument to the heap. A program can lose the kernel by
  printing a string, or calling with a stack, in memory it freed; keeping both
  elsewhere, it can still lose it to print's own copy, but only after freeing a
  region of several pages (`CopyFaultNeedsLargeFree`).
- After an overrun of the keyboard buffer tail stays ahead of head by the lost
  keys for the life of the process (`LagCountsLosses`); if that is no multiple
  of the size, a drained buffer hides the next key (`DrainedHides`). Before any
  loss, what `blank` reads is the line that was typed, whatever it was doing at
  the moment of each press (`MeantArrives`).
- Reads aligned to sectors within a file's first cluster are exact; an item
  that starts inside a sector and runs past its end leaves bytes unwritten
  while fread reports success (`GapsOnlyUnaligned`).
- `CorrectCluster` is violated: `fat16.c:293` multiplies the FAT's position by
  the entry's offset, against the comment at `fat16.c:305`. A file's second
  cluster is whatever the disk holds at that place.
- The search reads as many entries as are not deleted. fopen succeeds exactly
  if one of these matches, and opens the last that does; a plainly named file
  is among the matches if its index is no more than that number
  (`FindsPlainFiles`), so files behind deleted entries may be missed. The search
  leaves its table only if the directory on the disk has more entries, deleted
  ones aside, than the table (`SearchStaysInTable`). Every refused open keeps a
  descriptor, and every match that was replaced an item (`LeftBehind`).
- A descriptor is its holder's alone (`HandleIsMine`), but the last one can be
  opened, never used and never closed.
- fat16_seek's bound is the negated file size: next to all positions are
  accepted, and reads from them stay inside the caller's buffer and behind the
  first byte of the disk (`StaysInBuffer`), though no longer inside the file.
- Few of the load's kzallocs are looked at, and still no program ever starts
  after one was refused: some later one is refused as well, and is looked at,
  or the kernel is lost (`EntersComplete`). The exception is not memory: a load
  of a missing file "succeeds", and the kernel enters a program over address 0.
  No early return frees what the current process holds, or part of anything
  (`ObjectsWhole`).
- Each byte of a segment arrives at its address (`SegmentsArrive`), except for
  one kind of header: with p_memsz less than a page short of the whole address
  space, the end of the segment rounds up and wraps to where it begins.
  paging_map_to accepts the empty range and nothing is mapped.
- Kernel segments reach all of memory in spite of the change of unit in their
  limits, and every entry the CPU uses is of the right type (`SegmentsFit`).

### Fairness

- heap: weak fairness of the loops' steps. They run with interrupts off, so
  nothing can take the processor.
- keyboard: weak fairness of getkey. `getkey_block` polls without end and no
  other task is scheduled.
- user_memory: weak fairness of putchar and of print's second step, for
  `GoesMute` only: `blank` echoes keys in an endless loop, and the kernel goes on
  with a call it has begun, with interrupts off. The claim is about a program
  that keeps printing.
- fat_read: weak fairness of the next step; the kernel's loops.
- traps: weak fairness of the kernel's steps, strong fairness of taking each
  interrupt: the program returns to interrupts-on again and again, and the
  timer, which has priority, ticks far too seldom to starve the keyboard.
- readline has none: its four properties are invariants, and that keys are
  taken is the keyboard run's `KeysTaken`.

## 4. What is proved

With TLAPS, for every value of the constants: every safety property of the
runs, that is all their invariants and action properties and the three
refinements. The proofs rest on the assumptions the modules name and on nothing
else:

| Assumption | What it says, and why the code justifies it |
|---|---|
| HeapAssumption, RequestsAssumption, UserMemoryAssumption | sizes are positive, requests fit a word |
| KeyboardAssumption | the buffer size divides the counter's range (1024 and 2^32), and counted losses do not wrap |
| TerminalAssumption, ReadlineAssumption | a screen of two lines or more; the mark '#' lies inside the buffer; enter and backspace are keys; a newline is no key, and 0 neither '#' nor a newline |
| GdtAssumption | fields have room, the limit's high field for more than one value; the task state segment fits its limit |
| ProcessLoadAssumption | sizes are positive; HEAP_TABLE_ADDRESS, below which a load may write without harm, is smaller than the word and no larger than the page tables of a directory (31 KB against 4 MB) |
| FileTableAssumption, PathParserAssumption | bounds are numbers, positive where a table has them as its size; characters are told from separators |
| AddressSpaceAssumption | file and stack lie in memory, the stack's addresses do not wrap, a header's fields are words |
| FatReadAssumption | sizes are positive, positions ints, clusters whole sectors, and the data area starts on a sector behind at least one cluster's worth of table and directory |
| TrapsAssumption | there is a stack and a value |
| FatLookupAssumption | every directory is followed by an entry whose name starts with 0 (the count stops there; a disk that ends first is not modelled), what lies outside it are entries too, and a path names at least one part, as the parser sees to |

*Heap.* The inductive invariant `IInv` of HeapProofs joins: regions lie as
chains (`Chained`), are disjoint, every HAS_NEXT block is inside a region
(`NoOrphanChain`), and LAST blocks count the allocations served. NoOrphanChain
is what makes it inductive: without it a free could run from one region's
blocks into a stray chain. From it follow `HeapTableSound` (also that walks
stay inside the table, by looking at the last block), `HeapLifetime` (the
cardinality of LAST blocks is at most Total), `HeapLastStays`, and
`HeapRefines`: every step grants a fresh region, returns one or stutters.

*Search loops.* `LoopIInv` adds the ranges of the indices and: no run that
starts before i is long enough; blocks i to j-1 are free and too few. When the
inner loop meets a taken block at j, no run starting in i..j is long enough, so
setting i to j skips nothing. `ScanRefuses` and `ScanImplementsHeap` follow,
and with Heap's theorems `ScanSound`.

*Process memory.* Slots hold chains of the table that lie apart; a page is
writable exactly if it is in one. What needs an invariant of its own is
`Hidden`: an absent page is LAST, or free and followed by absent pages up to a
LAST one.
It survives because first fit cannot place a region that ends before the next
LAST page without reusing the absent pages, and it gives
`CopyFaultsAfterLargeFree`: strncpy stops in the kernel's copy only where the
block it got is absent. `Copying` (print remembers the entry as it is) carries
the other facts over the restored entry; `OwnPages`, `OwnChains` and
`FreedHidden` follow from the same invariant.

*Keyboard.* `KeyboardLag`: tail - head modulo the width is the number of unread
keys plus all keys ever lost. `KeyboardHides` adds that tail's cell is that many
cells on from head's, so in a drained buffer it is head's cell only for a
multiple of N losses. `KeyboardIsFifo`: while nothing is lost, the Lag cells
from head on (`Lined`) hold keys, so the cell a push finds empty is behind them
and the cell a pop finds empty means none waits; each step is a step of
KeyFifo. That head may wrap in between is `NextCell`, and uses that N divides
the width.

*Console.* The buffer holds the line cell by cell, and its last byte is always
0, which is why `strncpy` and print stop. The line stands on the screen just
before the cursor: each letter moves it one cell on and each backspace one back,
and a scroll shifts cells and cursor by the same row (`ShowsLetter`,
`ShowsBackspace`). What is printed is defined by recursion over the text;
`Recursion` and `SameRun` give that the recursive functions exist and agree, and
`ShownIs` that they write the text. `MeantArrives` needs that the keys still
waiting are the last ones pressed, from the keyboard's invariant, and that
correcting a line key by key is the same however many of the keys have arrived
(`CorrectedFirst`, `CorrectedLast`). Together `ConsoleLines` and `ConsoleMeant`.

*Traps.* `IInv` pairs each stage with the tables, segments, stack and interrupt
flag it runs on (`Context`) and with the line it serves (`Serving`), which is
what the early return of the keyboard's callback could break.
`TrapsRightContext`, `TrapsUndisturbed`, and, with `EncodeExact` (an entry
decodes to what it was made from, unless encodeGDTEntry refused it),
`TrapsSegmentsFit`.

*Loading.* `Whole` (objects and page tables are chains of the heap, apart) is
kept by every kzalloc, which takes free blocks only, and by every kfree, which
frees one object's blocks but the last; `Built` and `Tabled` say what is there
at each step. Hence `LoadHolds`. For `LoadEnters` the invariant must carry a
refusal that nobody saw to one that somebody sees: until elf_load gives its file
up nothing is freed, so the heap is taken up to a block and free behind it
(`Suffixed`), and what was refused stays refused. `Doomed` lists what a refusal
leaves: no block at all, or, where only the image was refused, too few for the
page tables, which need more than any file that may be read to low memory, or
too few for the image a second time, when process_load_binary asks for it.

*Address space.* Everything is counted in pages: the rounded end of a segment
is its first page plus the pages it needs, wrapped (`EndWraps`); since
paging_map_to accepts it only if it does not end below its beginning, and the
segment is no larger than the word less a page, nothing did wrap and it is
given as many pages as it needs (`InPages`, `ByteArrives`). A later header's
pages are exactly those it takes over, so what has arrived stays or is behind a
later header (`InPlace`). `Owned`: a writable page belongs to an accepted header
or the stack, hence `MappingWrites`; `Bounded` follows the file's bounds header
by header, as the word 0 stands for an address and for none (`SeenKept`). `MappingArrives`.

*Files.* `DescriptorsPrivate`: holders of the same descriptor are equal below
the last (`Alone`), and the first empty slot is nobody's.

*Paths.* `Split`: there are joined beginnings of the parts (`IsJoin`) whose last
is the path up to the last separator read; a step adds one (`JoinMore`), and the
recursive `Joined` can only be that one (`JoinUnique`). `ParserSplits`.

*Finding files.* `IInv` of FatLookupProofs: the count is the number of entries
not deleted among those scanned (`Counted`), so at the end mark it is that of
`Undeleted`; the matches among the entries the search has passed (`Found`) bound
what is allocated, and with memory enough are counted by it exactly and lie at
or before the one held (`Searched`). That a plain name matches itself is
`PlainName`: unpadded by the code's rules and by those of other systems, such a
field is the same. `LookupFinds`, `LookupStays`, `LookupLeaves`.

*Reading.* `ReadStaysInBuffer`: the position in the buffer plus what is left of
a chunk adds up to the chunk's place in the request (`Adds`), whatever FAT and
geometry send the reads to; and where the offset is negative the cluster is the
file's first, far enough from the disk's beginning (`IntoCluster`, `Placed`). `ReadGaps`: while all chunks start on sectors or end
within one, every byte behind the position is written. `ReadsRight`: in the
first cluster the stream's position is the file's position plus where the
cluster lies, before and after each sector.

Induction over numbers is done as infinite descent: a least counterexample
exists (`Descent`, from the library's WFMin for `<` on Nat) and a step finds a
smaller one. This serves for the fixed predicates above.

Only model-checked: liveness (`CallsReturn`, `KeysTaken`, `GoesMute`, `Ends`,
`EveryIrqHandled`), since fairness and ENABLED are beyond the prover.

## 5. Not modelled, and limits

- Boot sector and kernel entry, ATA and port I/O: straight-line or device code.
  `ext2.c` is not built. String and number helpers, printf, itoa and printk's
  conversions, beyond its heap use.
- Subdirectories: `fat16_new_fat_item_for_directory_item` types every item as a
  file, so `fat16_get_directory_entry` refuses any path of two parts.
- Functions nobody calls: ksize, vsize, keyboard_backspace, path_free,
  task_free, paging_free_chunk, elf_close, disk_stream_write, walk_stack,
  is_process_ptr. process_map_binary cannot be reached, for
  process_load_binary leaves the file type at ELF.
- UserMemory covers heap blocks below 56 MB: `copy_string_from_task` maps
  through the wrong pointer and writes one stray word, which for such blocks
  lies below the heap.
- After `wild` or a fault in the kernel nothing more is said of the machine. The
  steps that lead there are modelled (a fault whose `iret` takes the error code
  for an address, `free(0)`, a string or stack in freed memory, a load that goes
  on beyond low memory, a descriptor with a hollow or bogus item), but no
  document says what should hold after them.
- ProcessLoad takes what allocated blocks before the load for single ones. Where
  the file is missing it says that the program starts, not what it does.
- The bound check of fat16_seek has no property of its own: over several seeks
  nearly every position can be reached, whatever one seek refuses.
- FatRead's disk is fixed: nothing in the kernel writes to it. ReadStaysInBuffer
  is about the kernel's writes into the buffer, not about which bytes arrive.

## 6. Plan

Done: the modules above, in the order heap, user memory, keyboard, traps,
loading, files, screen, then segments and the console; and a theorem for every
safety property of a run.

Next: opening a file as a whole, with PathParser, FatLookup and FileTable in
one specification; a load that ends in the program of UserMemory, whose heap
then begins where the load's ends; and Console over Traps, so that a press lands
between instructions and not between calls. For the proofs: bounded versions of the
liveness properties (a variant that every step of a loop decreases), which need
no fairness.
