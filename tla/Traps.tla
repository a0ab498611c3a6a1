-------------------------------- MODULE Traps --------------------------------
(***************************************************************************)
(* The way into the kernel and back (idt/idt.asm, idt/idt.c, kernel_page   *)
(* and task_page, the keyboard's callback, task_get_stack_item and         *)
(* copy_string_from_task): which page tables and data segments are loaded, *)
(* what is saved and what the program finds again.  Gdt.tla is the segment *)
(* table.  The state starts where task_return has entered the first        *)
(* program.  Every gate is an interrupt gate, so only the program can be   *)
(* interrupted.                                                            *)
(***************************************************************************)
EXTENDS Gdt

CONSTANTS Stacks,   \* values of the program's esp
          Values    \* values of eax, and results of system calls

ASSUME TrapsAssumption == Stacks # {} /\ Values # {}

Irq == {"timer", "keyboard"}   \* vectors 0x20 and 0x21
Command == {"sum", "print", "getkey", "putchar", "malloc", "free", "unknown"}
Registers == [esp : Stacks, eax : Values]

\* Stack items a command reads: for each the task's page tables are loaded.
Items(command) ==
  CASE command = "sum" -> 2
    [] command \in {"print", "putchar", "malloc", "free"} -> 1
    [] OTHER -> 0

VARIABLES pc,         \* what the CPU executes
          ring,       \* "user" or "kernel"
          cr3, ds,    \* page tables and data segments: "task" or "kernel"
          enabled,    \* the interrupt flag
          regs,       \* the program's registers, while it runs
          frame,      \* those the CPU and pushad put on the kernel's stack
          saved,      \* curr_task->registers
          vector,     \* what entered the kernel
          items,      \* stack items still to read
          pending,    \* lines raised and not yet taken
          inService   \* taken and not yet acknowledged

cpu == <<ring, cr3, ds, enabled>>
context == <<regs, frame, saved>>
pic == <<pending, inService>>
vars == <<pc, cpu, context, vector, items, pic>>

Init ==
  /\ pc = "program" /\ ring = "user"
  /\ cr3 = "task" /\ ds = "task" /\ enabled = TRUE
  /\ regs \in Registers /\ frame = regs /\ saved = regs
  /\ vector = "none" /\ items = 0
  /\ pending = {} /\ inService = {}

InUser == pc = "program" /\ ring = "user"

Compute ==
  /\ InUser
  /\ regs' \in Registers
  /\ UNCHANGED <<pc, cpu, frame, saved, vector, items, pic>>

Raise(irq) ==
  /\ irq \notin pending
  /\ pending' = pending \cup {irq}
  /\ UNCHANGED <<pc, cpu, context, vector, items, inService>>

\* The CPU changes stacks and clears the flag, the stub pushes the registers.
Enter(v) ==
  /\ InUser
  /\ pc' = "entry" /\ ring' = "kernel" /\ enabled' = FALSE
  /\ frame' = regs /\ vector' = v
  /\ UNCHANGED <<cr3, ds, regs, saved, items>>

TakeIrq(irq) ==
  /\ enabled /\ irq \in pending /\ inService = {}
  /\ Enter(irq)
  /\ pending' = pending \ {irq} /\ inService' = {irq}

\* The gates admit int n from ring 3, for any n.
Int80(command) == Enter(command) /\ UNCHANGED pic
IntN(irq) == Enter(irq) /\ UNCHANGED pic

\* A page or protection fault: its error code lies over the return address.
Fault == Enter("fault") /\ UNCHANGED pic

\* Entry 0 is the C function idt_zero: it prints and returns to the dividing
\* instruction as to a caller, in ring 0 with the flag clear.
DivideByZero ==
  /\ pc = "program"
  /\ ring' = "kernel" /\ enabled' = FALSE
  /\ UNCHANGED <<pc, cr3, ds, context, vector, items, pic>>

Load(tables, segments) == cr3' = tables /\ ds' = segments

\* interrupt_handler saves the state only for a vector with a callback.
KernelPage ==
  /\ pc = "entry"
  /\ Load("kernel", "kernel")
  /\ pc' = IF vector \in Command \cup {"keyboard"} THEN "save" ELSE "leave"
  /\ UNCHANGED <<ring, enabled, context, vector, items, pic>>

SaveState ==
  /\ pc = "save"
  /\ saved' = frame
  /\ pc' = IF vector = "keyboard" THEN "callback" ELSE "command"
  /\ items' = IF vector = "keyboard" THEN 0 ELSE Items(vector)
  /\ UNCHANGED <<cpu, regs, frame, vector, pic>>

\* PS2_keyboard_handle_interrupt returns early for a released key, on the
\* kernel's tables; otherwise it has loaded the task's.
Callback ==
  /\ pc = "callback"
  /\ \/ Load("kernel", "kernel")
     \/ Load("task", "task")
  /\ pc' = "leave"
  /\ UNCHANGED <<ring, enabled, context, vector, items, pic>>

\* task_get_stack_item reads at saved.esp through the task's tables ...
ReadItem ==
  /\ pc = "command" /\ items > 0
  /\ Load("task", "task")
  /\ pc' = "reading"
  /\ UNCHANGED <<ring, enabled, context, vector, items, pic>>

ItemRead ==
  /\ pc = "reading"
  /\ Load("kernel", "kernel")
  /\ items' = items - 1
  /\ pc' = IF vector = "print" THEN "string" ELSE "command"
  /\ UNCHANGED <<ring, enabled, context, vector, pic>>

\* ... copy_string_from_task likewise, on the kernel's data segments.  When
\* there is no memory for its copy it returns at once.
CopyString ==
  /\ pc = "string"
  /\ \/ Load("task", ds) /\ pc' = "copying"
     \/ UNCHANGED <<cr3, ds>> /\ pc' = "command"
  /\ UNCHANGED <<ring, enabled, context, vector, items, pic>>

StringCopied ==
  /\ pc = "copying"
  /\ Load("kernel", "kernel")
  /\ pc' = "command"
  /\ UNCHANGED <<ring, enabled, context, vector, items, pic>>

\* The program's esp or string may be anywhere: a fault in the kernel.
KernelFault ==
  /\ pc \in {"reading", "copying"}
  /\ pc' = "wild"
  /\ UNCHANGED <<cpu, context, vector, items, pic>>

\* The command's result, 0 for an unknown one, becomes eax after popad.
CommandDone ==
  /\ pc = "command" /\ items = 0
  /\ \E res \in Values : frame' = [frame EXCEPT !.eax = res]
  /\ pc' = "leave"
  /\ UNCHANGED <<cpu, regs, saved, vector, items, pic>>

\* task_page ends both handlers.
MutTaskPage ==
  /\ pc = "leave"
  /\ IF vector = "keyboard" THEN UNCHANGED <<cr3, ds>> ELSE Load("task", "task")
  /\ pc' = IF vector \in Command THEN "iret" ELSE "eoi"
  /\ UNCHANGED <<ring, enabled, context, vector, items, pic>>
TaskPage ==
  /\ pc = "leave"
  /\ Load("task", "task")
  /\ pc' = IF vector \in Command THEN "iret" ELSE "eoi"
  /\ UNCHANGED <<ring, enabled, context, vector, items, pic>>

\* interrupt_handler acknowledges whatever entered it.
MutEndOfInterrupt ==
  /\ pc = "eoi"
  /\ inService' = inService \ {"keyboard"}
  /\ pc' = "iret"
  /\ UNCHANGED <<cpu, context, vector, items, pending>>
EndOfInterrupt ==
  /\ pc = "eoi"
  /\ inService' = {}
  /\ pc' = "iret"
  /\ UNCHANGED <<cpu, context, vector, items, pending>>

\* popad and iret.  No stub drops the error code a fault has pushed.
MutReturn ==
  /\ pc = "iret" /\ vector # "fault"
  /\ pc' = "program" /\ ring' = "user" /\ enabled' = TRUE
  /\ regs' = saved
  /\ UNCHANGED <<cr3, ds, frame, saved, vector, items, pic>>
Return ==
  /\ pc = "iret" /\ vector # "fault"
  /\ pc' = "program" /\ ring' = "user" /\ enabled' = TRUE
  /\ regs' = frame
  /\ UNCHANGED <<cr3, ds, frame, saved, vector, items, pic>>

ReturnAstray ==
  /\ pc = "iret" /\ vector = "fault"
  /\ pc' = "wild"
  /\ UNCHANGED <<cpu, context, vector, items, pic>>

Kernel == \/ KernelPage \/ SaveState \/ Callback \/ ReadItem \/ ItemRead
          \/ CopyString \/ StringCopied \/ KernelFault \/ CommandDone
          \/ TaskPage \/ EndOfInterrupt \/ Return \/ ReturnAstray

Next == \/ Compute \/ Fault \/ DivideByZero \/ Kernel
        \/ \E irq \in Irq : Raise(irq) \/ TakeIrq(irq) \/ IntN(irq)
        \/ \E command \in Command : Int80(command)

\* The kernel's code runs on, and a line that is raised is taken sooner or
\* later when the program keeps running with interrupts enabled: the timer,
\* which goes first, ticks too seldom to keep the keyboard waiting for ever.
Spec == /\ Init /\ [][Next]_vars
        /\ WF_vars(Kernel)
        /\ \A irq \in Irq : SF_vars(TakeIrq(irq))
-----------------------------------------------------------------------------
TypeOK ==
  /\ pc \in {"program", "entry", "save", "callback", "command", "reading",
             "string", "copying", "leave", "eoi", "iret", "wild"}
  /\ ring \in {"user", "kernel"} /\ enabled \in BOOLEAN
  /\ cr3 \in {"task", "kernel"} /\ ds \in {"task", "kernel"}
  /\ {regs, frame, saved} \subseteq Registers
  /\ vector \in Irq \cup Command \cup {"none", "fault"}
  /\ items \in 0 .. 2
  /\ pending \subseteq Irq /\ inService \subseteq Irq

\* The program in ring 3 always runs on its own page tables, with interrupts
\* enabled and none left unacknowledged: the early return of the keyboard's
\* callback and every window into the task's tables end before it goes on.
\* Kernel code that touches the kernel's own data runs on the kernel's tables
\* and segments, and is never interrupted.
RightContext ==
  /\ TypeOK
  /\ InUser => cr3 = "task" /\ enabled /\ inService = {}
  /\ pc \in {"save", "callback", "command", "string"} =>
       cr3 = "kernel" /\ ds = "kernel" /\ ~enabled /\ ring = "kernel"

\* The data segments in use, as the CPU finds them in the encoded table.
\* "task" is selector 0x23, "kernel" 0x10; the low two bits are a privilege.
DataSelector == IF ds = "task" THEN 35 ELSE 16
CurrentLevel == IF ring = "user" THEN 3 ELSE 0
EntryOf(selector) == Decode(Loaded[selector \div 8 + 1])
FlatData(selector, level) ==
  LET e == EntryOf(selector) IN
  /\ e.type.use = "data" /\ e.type.dpl >= level /\ e.type.dpl >= selector % 8
  /\ e.base = 0 /\ e.limit = MaxWord

\* Whatever happens between the rings, the segments that are loaded can be
\* used at the level the CPU runs at and reach all of memory; so does the
\* kernel's stack segment in the task state segment, which the CPU finds at
\* 0x28 when it takes an interrupt.  (Back in ring 3 the CPU clears a
\* segment that ring 3 may not use.)
SegmentsFit ==
  /\ \A k \in 1 .. 6 : ~Refused(Table[k])
  /\ FlatData(DataSelector, CurrentLevel)
  /\ FlatData(16, 0)
  /\ EntryOf(27).type = Of(3, "code") /\ EntryOf(8).type = Of(0, "code")
  /\ EntryOf(40) = [base |-> TssBase, limit |-> TssSize, type |-> Of(0, "tss")]

\* What an interrupt does to the program: nothing.  What a system call does:
\* it changes eax.
Undisturbed ==
  [][pc # "program" /\ pc' = "program" =>
       /\ regs'.esp = regs.esp
       /\ vector \in Irq => regs' = regs]_vars

Dead == pc = "wild" \/ (pc = "program" /\ ring = "kernel")

\* Every interrupt raised is handled, unless the machine is lost first, to a
\* fault or to a program that divides by zero.
EveryIrqHandled ==
  \A irq \in Irq : irq \in pending ~> (irq \in inService \/ Dead)
=============================================================================
