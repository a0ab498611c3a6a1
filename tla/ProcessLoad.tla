----------------------------- MODULE ProcessLoad -----------------------------
(***************************************************************************)
(* Loading the one program, from process_load_switch in kernel_start to    *)
(* the iret into it: task/process.c, task/task.c, loader/formats/elfloader *)
(* and the fopen under it, one step per kzalloc, on the kernel heap.  The  *)
(* kernel starts it once and panics, for ever, when it fails.  Many of the *)
(* kzallocs are not looked at: the question is what follows when memory    *)
(* runs out at any one of them.  Where the kernel uses a pointer that is   *)
(* none beyond the low memory nobody needs, it is "wild" and nothing more  *)
(* is said of it.                                                          *)
(***************************************************************************)
EXTENDS HeapTable

CONSTANTS ProcessBlocks, \* blocks of a struct process
          StackBlocks,   \* and of USER_PROGRAM_STACK_SIZE
          Tables,        \* PAGING_TOTAL_ENTRIES_PER_TABLE
          Low,           \* HEAP_TABLE_ADDRESS: bytes nobody needs, from 0 on
          FileSizes      \* sizes of the file

ASSUME ProcessLoadAssumption ==
  /\ ProcessBlocks \in Nat \ {0} /\ StackBlocks \in Nat \ {0}
  /\ Tables \in Nat
  /\ FileSizes \subseteq 0 .. WordSize - 1
  \* a file that fits into low memory takes no more blocks than page tables
  /\ Low \in Nat /\ Low + BlockSize <= WordSize
  /\ Low <= (Tables + 2) * BlockSize

\* The file: an ELF file whose program headers can all be mapped, one with a
\* header off a page boundary (AddressSpace.tla), no ELF file, or none.
File == {"elf", "badsegment", "raw", "missing"}
Object == {"process", "elf_file", "image", "stack", "task"}
NoRegion == [base |-> -1, pages |-> 0]

VARIABLES file, bytes, \* what the path names, and its size
          heap,        \* kernel_heap.table->entries
          at,          \* the region of each object, while it is not freed
          paging,      \* blocks of the task's directory, tables and chunk
          caller,      \* of fopen: "elf_load" or "process_load_binary"
          loaded,      \* what process->elf_file or ptr lead to: a kind of
                       \* file, or "nothing": address 0
          current,     \* processes[0] and cur_process are set
          tasks,       \* length of the list from task_head
          short,       \* history: a kzalloc of the load was refused
          step      \* the kzalloc or step that is next

answer == <<loaded, current, tasks>>
loadVars == <<file, bytes, heap, at, paging, caller, answer, short, step>>

\* Nothing that was made while the kernel came up is freed again but single
\* blocks, which stay taken.
LoadInit ==
  /\ file \in File /\ bytes \in FileSizes
  /\ \E up \in Block : heap = [k \in Block |-> IF k < up THEN LAST ELSE FREE]
  /\ at = [o \in Object |-> NoRegion]
  /\ paging = {}
  /\ caller = "elf_load" /\ loaded = "nothing"
  /\ current = FALSE /\ tasks = 0
  /\ short = FALSE
  /\ step = "process"

\* kzalloc finds n blocks ...
Takes(n) == \E b \in Block :
              IsFirstFit(heap, b, n) /\ heap' = MarkBlocksTaken(heap, b, n)
TakesFor(o, n) ==
  \E b \in Block :
    /\ IsFirstFit(heap, b, n) /\ heap' = MarkBlocksTaken(heap, b, n)
    /\ at' = [at EXCEPT ![o] = [base |-> b, pages |-> n]]

\* ... or not.
Refused(n) == NoFit(heap, n) /\ short' = TRUE

\* kfree of one object after the other, if there.
Without(t, r) == IF r = NoRegion THEN t ELSE Released(t, r.base)
Frees(o) ==
  heap' = Without(heap, at[o]) /\ at' = [at EXCEPT ![o] = NoRegion]
GivesBack(first, second) ==
  /\ heap' = Without(Without(heap, at[first]), at[second])
  /\ at' = [at EXCEPT ![first] = NoRegion, ![second] = NoRegion]

\* process_load_for_slot fails after it made the process and perhaps the
\* stack: both are freed, what else there is stays, and kernel_start panics.
Panics == GivesBack("process", "stack") /\ step' = "panic"

MakeProcess ==
  /\ step = "process"
  /\ \/ TakesFor("process", ProcessBlocks) /\ step' = "elf_file"
        /\ UNCHANGED short
     \/ Refused(ProcessBlocks) /\ step' = "panic" /\ UNCHANGED <<heap, at>>
  /\ UNCHANGED <<file, bytes, paging, caller, answer>>

\* elf_load does not look at its elf_file before it is through with fopen.
MakeElfFile ==
  /\ step = "elf_file"
  /\ \/ TakesFor("elf_file", 1) /\ UNCHANGED short
     \/ Refused(1) /\ UNCHANGED <<heap, at>>
  /\ step' = "root"
  /\ UNCHANGED <<file, bytes, paging, caller, answer>>

\* The kzallocs of fopen, a block each: parser_create_root; a string and a
\* path_part for the name, a string for the end of the path, freed at once;
\* fat16's descriptor, item and its clone; file_new_descriptor.  Closing the
\* file and freeing a single block change nothing in the table.
After == [root |-> "text", text |-> "part", part |-> "end", end |-> "desc",
          desc |-> "item", item |-> "clone", clone |-> "fd", fd |-> "image"]
Opening == DOMAIN After

Fopen ==
  /\ step \in Opening /\ ~(step = "item" /\ file = "missing")
  /\ Takes(1) /\ step' = After[step]
  /\ UNCHANGED <<file, bytes, at, paging, caller, answer, short>>

\* fopen answers 0, which elf_load hands on for success, with no elf_file.
NotOpened ==
  /\ IF caller = "elf_load"
     THEN step' = "stack" /\ UNCHANGED <<heap, at>>
     ELSE Panics
  /\ UNCHANGED <<file, bytes, paging, caller, answer>>

NotFound == /\ step = "item" /\ file = "missing"
            /\ NotOpened /\ UNCHANGED short

\* The root, the string and the part are used unseen, at address 0, but all
\* end in a null pointer that parser_parse or fopen refuses.
FopenRefused ==
  /\ step \in {"root", "text", "part", "desc", "item"}
  /\ ~(step = "item" /\ file = "missing")
  /\ Refused(1) /\ NotOpened

\* At the end of the path kfree(0) reads, and may clear, bytes far past the
\* heap's table; and a clone that was refused leaves an item of nothing.
GoesOnWithout ==
  /\ Refused(1)
  /\ \/ step = "end" /\ step' \in {"desc", "wild"}
     \/ step = "clone" /\ step' = "fd"
  /\ UNCHANGED <<file, bytes, heap, at, paging, caller, answer>>

\* A descriptor made at address 0 is none to fstat.
NoDescriptor ==
  /\ step = "fd" /\ Refused(1) /\ Panics
  /\ UNCHANGED <<file, bytes, paging, caller, answer>>

MakeImage ==
  /\ step = "image"
  /\ TakesFor("image", BlocksFor(bytes))
  /\ step' = "read"
  /\ UNCHANGED <<file, bytes, paging, caller, answer, short>>

\* process_load_binary looks at what it got, elf_load reads the file to
\* address 0; fread refuses to read no bytes.
NoImage ==
  /\ step = "image" /\ Refused(BlocksFor(bytes))
  /\ \/ caller = "process_load_binary" /\ Panics
     \/ caller = "elf_load" /\ bytes = 0 /\ Panics
     \/ caller = "elf_load" /\ bytes # 0
        /\ step' = (IF bytes > Low THEN "wild" ELSE "read")
        /\ UNCHANGED <<heap, at>>
  /\ UNCHANGED <<file, bytes, paging, caller, answer>>

\* The disk, or the chain of the file's clusters, fails: either caller frees
\* the image, then process_load_for_slot the process.
ReadFails ==
  /\ step = "read"
  /\ GivesBack("image", "process") /\ step' = "panic"
  /\ UNCHANGED <<file, bytes, paging, caller, answer, short>>

ReadElf ==
  /\ step = "read" /\ caller = "elf_load" /\ file \in {"elf", "badsegment"}
  /\ loaded' = IF at["elf_file"] = NoRegion THEN "nothing" ELSE file
  /\ step' = "stack"
  /\ UNCHANGED <<file, bytes, heap, at, paging, caller, current, tasks, short>>

\* elf_load frees a file that is no ELF; process_load_binary opens it again.
MutNotElf ==
  /\ step = "read" /\ caller = "elf_load" /\ file = "raw"
  /\ Frees("image")
  /\ loaded' = file /\ step' = "stack"
  /\ UNCHANGED <<file, bytes, paging, caller, current, tasks, short>>
NotElf ==
  /\ step = "read" /\ caller = "elf_load" /\ file = "raw"
  /\ Frees("image")
  /\ caller' = "process_load_binary" /\ step' = "root"
  /\ UNCHANGED <<file, bytes, paging, answer, short>>

ReadBinary ==
  /\ step = "read" /\ caller = "process_load_binary"
  /\ loaded' = file
  /\ step' = "stack"
  /\ UNCHANGED <<file, bytes, heap, at, paging, caller, current, tasks, short>>

\* Without a stack both are freed: kfree(0) again.
MakeStack ==
  /\ step = "stack"
  /\ \/ TakesFor("stack", StackBlocks) /\ step' = "task" /\ UNCHANGED short
     \/ /\ Refused(StackBlocks) /\ GivesBack("process", "stack")
        /\ step' \in {"panic", "wild"}
  /\ UNCHANGED <<file, bytes, paging, caller, answer>>

\* The test ERROR_I(task) == 0 lets an error code pass for a task.
MakeTask ==
  /\ step = "task"
  /\ \/ TakesFor("task", 1) /\ step' = "tables" /\ UNCHANGED short
     \/ Refused(1) /\ step' = "wild" /\ UNCHANGED <<heap, at>>
  /\ UNCHANGED <<file, bytes, paging, caller, answer>>

\* paging_new_chunk: directory, tables and the chunk, a block each.  With the
\* last, task_new has its task and puts it into the list.
MakeTable ==
  /\ step = "tables"
  /\ \E b \in Block :
       /\ IsFirstFit(heap, b, 1) /\ heap' = MarkBlocksTaken(heap, b, 1)
       /\ paging' = paging \cup {b}
  /\ \/ Cardinality(paging') < Tables + 2 /\ UNCHANGED <<step, tasks>>
     \/ Cardinality(paging') = Tables + 2
        /\ step' = "map" /\ tasks' = tasks + 1
  /\ UNCHANGED <<file, bytes, at, caller, loaded, current, short>>

\* Only the chunk, which is the last, is looked at: where a block before it
\* was refused it is refused as well.  The task is freed and the error taken
\* for a task.
NoTable ==
  /\ step = "tables" /\ Refused(1)
  /\ Frees("task") /\ step' = "wild"
  /\ UNCHANGED <<file, bytes, paging, caller, answer>>

\* process_map_memory_process walks the program headers it finds: behind
\* address 0 these are whatever is in memory there.  process_load_binary
\* leaves process->filetype at PROCESS_FILETYPE_ELF, and elf_file at 0.
Map ==
  /\ step = "map" /\ loaded # "badsegment"
  /\ current' = TRUE
  /\ step' = "ss"
  /\ UNCHANGED <<file, bytes, heap, at, paging, caller, loaded, tasks, short>>
MutMapFails ==
  /\ step = "map" /\ loaded # "elf"
  /\ Panics
  /\ current' = TRUE
  /\ UNCHANGED <<file, bytes, paging, caller, loaded, tasks, short>>
MapFails ==
  /\ step = "map" /\ loaded # "elf"
  /\ Panics
  /\ UNCHANGED <<file, bytes, paging, caller, answer, short>>

\* Two printk's on the way: a block for the number of the stack segment, two
\* for the task's address, in two steps.  The second takes the first's digits
\* and, where that was refused, the string at address 0, of any length.
Started == [ss |-> "digits", digits |-> "address", address |-> "user"]
Prints ==
  /\ step \in DOMAIN Started
  /\ \/ Takes(1) /\ step' = Started[step]
     \/ NoFit(heap, 1) /\ UNCHANGED heap
        /\ step' \in {Started[step]}
                        \cup (IF step = "digits" THEN {"wild"} ELSE {})
  /\ UNCHANGED <<file, bytes, at, paging, caller, answer, short>>

LoadNext ==
  \/ MakeProcess \/ MakeElfFile
  \/ Fopen \/ NotFound \/ FopenRefused \/ GoesOnWithout \/ NoDescriptor
  \/ MakeImage \/ NoImage \/ ReadFails \/ ReadElf \/ NotElf \/ ReadBinary
  \/ MakeStack \/ MakeTask \/ MakeTable \/ NoTable
  \/ Map \/ MapFails \/ Prints

LoadSpec == LoadInit /\ [][LoadNext]_loadVars
-----------------------------------------------------------------------------
Ready == {"ss", "digits", "address", "user"}
Call == {"process", "elf_file", "image", "read", "stack", "task", "tables",
         "map", "panic", "wild"} \cup Opening \cup Ready

LoadTypeOK ==
  /\ file \in File /\ bytes \in FileSizes
  /\ heap \in [Block -> Entry]
  /\ at \in [Object -> [base : Block, pages : 1 .. Total] \cup {NoRegion}]
  /\ paging \subseteq Block
  /\ caller \in {"elf_load", "process_load_binary"}
  /\ loaded \in {"elf", "badsegment", "raw", "nothing"}
  /\ current \in BOOLEAN /\ tasks \in 0 .. 1
  /\ short \in BOOLEAN /\ step \in Call

Owned(o) == at[o].base .. at[o].base + at[o].pages - 1
Made == {o \in Object : at[o] # NoRegion}

\* Whatever is refused and whatever is freed on the way, all objects the
\* load holds are whole chains of the heap's table, theirs alone, and so are
\* the page tables; a process in processes[] and cur_process is never one
\* that was freed, nor one without its stack or task.
ObjectsWhole ==
  /\ LoadTypeOK
  /\ \A o \in Made :
       /\ \A k \in Owned(o) : heap[k] = IF k = at[o].base + at[o].pages - 1
                                        THEN LAST ELSE NEXT
       /\ \A p \in Made : p # o => Owned(o) \cap Owned(p) = {}
       /\ Owned(o) \cap paging = {}
  /\ \A k \in paging : heap[k] = LAST
  /\ current => {"process", "stack", "task"} \subseteq Made

\* The kernel never enters a program after any kzalloc of its load was
\* refused, seen or unseen: it panics, or is lost before.  When it does enter
\* one, all of its objects are there, with room for all of the file, unless
\* the file was missing: then it "runs" from address 0.
EntersComplete ==
  step = "user" =>
    /\ ~short
    /\ Object \ {"image"} \subseteq Made /\ Cardinality(paging) = Tables + 2
    /\ loaded = "nothing" <=> file = "missing"
    /\ loaded # "nothing" => "image" \in Made /\ bytes <= at["image"].pages * BlockSize
=============================================================================
