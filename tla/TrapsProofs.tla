---------------------------- MODULE TrapsProofs -----------------------------
(***************************************************************************)
(* Proofs about Gdt and Traps: the segment table says what it was made     *)
(* from, for every width of its fields, and every trap keeps the context   *)
(* it enters and leaves.                                                   *)
(***************************************************************************)
EXTENDS Traps, TLAPS

-----------------------------------------------------------------------------
\* A number is its quotient and its remainder.
LEMMA DivMod ==
  ASSUME NEW x \in Nat, NEW n \in Nat \ {0}
  PROVE  /\ x % n \in 0 .. n - 1 /\ x \div n \in Nat
         /\ x = (x \div n) * n + (x % n)
  OBVIOUS

\* A quotient is below b if the number is below b times its divisor.
LEMMA DivBelow ==
  ASSUME NEW n \in Nat \ {0}, NEW b \in Nat, NEW x \in Nat, x < b * n
  PROVE  x \div n < b
<1> DEFINE q == x \div n
<1>1. q \in Nat /\ q * n <= x
  BY DivMod
<1> HIDE DEF q
<1>2. SUFFICES ASSUME q >= b PROVE FALSE
  BY <1>1 DEF q
<1>3. q * n >= b * n
  BY <1>1, <1>2
<1> QED
  BY <1>1, <1>3

\* A number below n is its own remainder.
LEMMA ModBelow ==
  ASSUME NEW n \in Nat \ {0}, NEW x \in Nat, x < n
  PROVE  x % n = x
  OBVIOUS

\* The four base bytes of an entry make up the base.
LEMMA BaseExact ==
  ASSUME NEW x \in Base
  PROVE  LET b == BaseBytes(x)
         IN b[1] + Byte * (b[2] + Byte * (b[3] + Byte * b[4])) = x
<1> DEFINE q1 == x \div Byte
           q2 == q1 \div Byte
           q3 == q2 \div Byte
<1>1. Byte \in Nat \ {0} /\ x \in Nat /\ x < Byte * Byte * Byte * Byte
  BY GdtAssumption DEF Base
<1>2. q1 \in Nat /\ x = q1 * Byte + (x % Byte) /\ q1 < Byte * Byte * Byte
  <2>1. Byte * Byte * Byte \in Nat
    BY <1>1
  <2> QED
    BY <1>1, <2>1, DivMod, DivBelow
<1> HIDE DEF q1
<1>3. q2 \in Nat /\ q1 = q2 * Byte + (q1 % Byte) /\ q2 < Byte * Byte
  <2>1. Byte * Byte \in Nat
    BY <1>1
  <2> QED
    BY <1>1, <1>2, <2>1, DivMod, DivBelow
<1> HIDE DEF q2
<1>4. q3 \in Nat /\ q2 = q3 * Byte + (q2 % Byte) /\ q3 < Byte
  BY <1>1, <1>3, DivMod, DivBelow
<1> HIDE DEF q3
<1>5. q3 % Byte = q3
  BY <1>1, <1>4, ModBelow
<1>6. BaseBytes(x) = <<x % Byte, q1 % Byte, q2 % Byte, q3 % Byte>>
  BY DEF BaseBytes, q1, q2, q3
<1>7. (x % Byte) + Byte * ((q1 % Byte) + Byte * ((q2 % Byte) + Byte * q3)) = x
  <2> DEFINE r0 == x % Byte
             r1 == q1 % Byte
             r2 == q2 % Byte
  <2>1. r0 \in Nat /\ r1 \in Nat /\ r2 \in Nat
    BY <1>1, <1>2, <1>3, DivMod
  <2>2. x = q1 * Byte + r0 /\ q1 = q2 * Byte + r1 /\ q2 = q3 * Byte + r2
    BY <1>2, <1>3, <1>4
  <2> HIDE DEF r0, r1, r2
  <2>3. r2 + Byte * q3 = q2 /\ r1 + Byte * q2 = q1 /\ r0 + Byte * q1 = x
    BY <1>1, <1>2, <1>3, <1>4, <2>1, <2>2
  <2> QED
    BY <2>3 DEF r0, r1, r2
<1> QED
  BY <1>5, <1>6, <1>7

\* The two limit fields of an entry make up what was split over them.
LEMMA LimitFields ==
  ASSUME NEW x \in Nat, x < Low * High
  PROVE  (x % Low) + Low * ((x \div Low) % High) = x
<1> DEFINE q == x \div Low
           r == x % Low
<1>1. Low \in Nat \ {0} /\ High \in Nat \ {0}
  BY GdtAssumption
<1>2. x < High * Low
  BY <1>1
<1>3. q \in Nat /\ r \in Nat /\ x = q * Low + r /\ q < High
  BY <1>1, <1>2, DivMod, DivBelow
<1> HIDE DEF q, r
<1>4. q % High = q
  BY <1>1, <1>3, ModBelow
<1>5. r + Low * q = x
  BY <1>1, <1>3
<1> QED
  BY <1>4, <1>5 DEF q, r

\* What encodeGDTEntry does not refuse it encodes without loss: base, limit
\* and type of the segment the CPU finds are those of the table in kernel.c.
THEOREM EncodeExact ==
  ASSUME NEW d \in Segment, ~Refused(d)
  PROVE  Decode(Encode(d)) = d
<1>1. /\ Low \in Nat \ {0} /\ High \in Nat \ {0} /\ Page \in Nat \ {0}
      /\ High > 1
  BY GdtAssumption
<1>2. /\ d = [base |-> d.base, limit |-> d.limit, type |-> d.type]
      /\ d.base \in Base /\ d.limit \in Nat /\ d.limit < Low * High * Page
  <2>1. Low * High * Page \in Nat
    BY <1>1
  <2> QED
    BY <2>1 DEF Segment, Limit, MaxWord
<1> DEFINE large == d.limit > Low
           limit == IF large THEN d.limit \div Page ELSE d.limit
<1>3. limit \in Nat /\ limit < Low * High
  <2>1. CASE large
    <3>1. Low * High \in Nat
      BY <1>1
    <3>2. d.limit \div Page \in Nat
      BY <1>1, <1>2, DivMod
    <3>3. d.limit \div Page < Low * High
      BY <1>1, <1>2, <3>1, DivBelow
    <3> QED
      BY <2>1, <3>2, <3>3
  <2>2. CASE ~large
    <3>1. Low < Low * High
      BY <1>1
    <3> QED
      BY <1>1, <1>2, <2>2, <3>1
  <2> QED
    BY <2>1, <2>2
<1>4. (limit % Low) + Low * ((limit \div Low) % High) = limit
  BY <1>3, LimitFields
<1>5. (IF large THEN limit * Page + Page - 1 ELSE limit) = d.limit
  <2>1. CASE large
    <3>1. d.limit % Page = Page - 1
      BY <2>1 DEF Refused
    <3> QED
      BY <1>1, <1>2, <2>1, <3>1, DivMod
  <2>2. CASE ~large
    BY <2>2
  <2> QED
    BY <2>1, <2>2
<1>6. LET b == BaseBytes(d.base)
      IN b[1] + Byte * (b[2] + Byte * (b[3] + Byte * b[4])) = d.base
  BY <1>2, BaseExact
<1>7. Encode(d) = [pages |-> large, limitLow |-> limit % Low,
                   limitHigh |-> (limit \div Low) % High,
                   base |-> BaseBytes(d.base), type |-> d.type]
  BY DEF Encode
<1> HIDE DEF large, limit
<1>8. Decode(Encode(d)) = [base |-> d.base, limit |-> d.limit, type |-> d.type]
  BY <1>4, <1>5, <1>6, <1>7 DEF Decode
<1> QED
  BY <1>2, <1>8

\* No entry of the kernel's table is refused, so all are found again.
LEMMA TableExact ==
  \A k \in 1 .. 6 : ~Refused(Table[k]) /\ Decode(Loaded[k]) = Table[k]
<1>1. /\ Low \in Nat \ {0} /\ High \in Nat \ {0} /\ Page \in Nat \ {0}
      /\ High > 1 /\ Byte \in Nat \ {0}
  BY GdtAssumption
<1>2. Low * High \in Nat \ {0} /\ Byte * Byte * Byte * Byte \in Nat \ {0}
  BY <1>1
<1>3. MaxWord \in Nat /\ MaxWord \in Limit /\ 0 \in Limit /\ 0 \in Base
  <2>1. Low * High * Page \in Nat \ {0}
    BY <1>1
  <2> QED
    BY <1>2, <2>1 DEF MaxWord, Limit, Base
<1>4. MaxWord % Page = Page - 1
  <2> DEFINE n == Low * High
  <2>1. MaxWord = (n - 1) * Page + (Page - 1)
    BY <1>1, <1>2 DEF MaxWord
  <2>2. n - 1 \in Nat
    BY <1>2
  <2> HIDE DEF n
  <2> QED
    BY <1>1, <2>1, <2>2
<1>5. TssSize \in Limit /\ TssSize <= Low /\ TssBase \in Base
  <2>1. Low <= Low * High /\ Low * High <= Low * High * Page
    BY <1>1
  <2>2. Low < Low * High
    BY <1>1
  <2> QED
    BY <1>1, <1>2, <1>3, <2>1, <2>2, GdtAssumption DEF Limit, MaxWord, Base
<1>6. \A k \in 1 .. 6 : Table[k] \in Segment
  BY <1>3, <1>5 DEF Table, Entry, Of, Segment, Type
<1>7. \A k \in 1 .. 6 : ~Refused(Table[k])
  <2>1. \A k \in 1 .. 6 : Table[k].limit \in {0, MaxWord, TssSize}
    BY DEF Table, Entry
  <2>2. \A k \in {0, MaxWord, TssSize} : ~(k > Low /\ k % Page # Page - 1)
    BY <1>1, <1>3, <1>4, <1>5
  <2> QED
    BY <2>1, <2>2 DEF Refused
<1> QED
  BY <1>6, <1>7, EncodeExact DEF Loaded

-----------------------------------------------------------------------------
\* The kernel's steps between an entry and its return: what is loaded, who
\* is served, and where the program's registers are.
InCommand == pc \in {"command", "reading", "string", "copying"}

Context ==
  /\ InUser => cr3 = "task" /\ ds = "task" /\ enabled /\ inService = {}
  /\ pc # "program" => ring = "kernel" /\ ~enabled
  /\ pc \in {"save", "callback", "command", "string"} =>
       cr3 = "kernel" /\ ds = "kernel"
  /\ pc \in {"eoi", "iret"} => cr3 = "task" /\ ds = "task"

Serving ==
  /\ vector \in Command \/ pc = "iret" => inService = {}
  /\ InCommand => vector \in Command
  /\ pc = "save" => vector \in Command \cup {"keyboard"}
  /\ pc = "callback" => vector = "keyboard"
  /\ pc = "reading" => items > 0
  /\ pc # "program" =>
       /\ frame.esp = regs.esp
       /\ vector \in Irq => frame = regs

IInv == TypeOK /\ Context /\ Serving

LEMMA InitIInv == Init => IInv
<1> SUFFICES ASSUME Init PROVE IInv
  OBVIOUS
<1> QED
  BY DEF Init, IInv, TypeOK, Context, Serving, InUser, InCommand, Irq, Command, Registers

\* Irq and Command have no vector in common.
LEMMA Vectors ==
  /\ Irq = {"timer", "keyboard"}
  /\ \A v \in Command : v \notin Irq /\ v # "fault" /\ v # "none" /\ Items(v) \in 0 .. 2
  /\ \A v \in Irq \cup {"fault", "none"} : v \notin Command
  BY DEF Irq, Command, Items

LEMMA NextIInv == IInv /\ [Next]_vars => IInv'
<1> SUFFICES ASSUME IInv, [Next]_vars PROVE IInv'
  OBVIOUS
<1> USE TrapsAssumption
<1>1. CASE Compute
  BY <1>1, Vectors DEF Compute, IInv, TypeOK, Context, Serving, InUser,
     InCommand, Load, Registers, cpu, context, pic
<1>2. CASE Fault
  BY <1>2, Vectors DEF Fault, Enter, IInv, TypeOK, Context, Serving, InUser,
     InCommand, Load, Registers, cpu, context, pic
<1>3. CASE DivideByZero
  BY <1>3, Vectors DEF DivideByZero, IInv, TypeOK, Context, Serving, InUser,
     InCommand, Load, Registers, cpu, context, pic
<1>4. CASE KernelPage
  BY <1>4, Vectors DEF KernelPage, IInv, TypeOK, Context, Serving, InUser,
     InCommand, Load, Registers, cpu, context, pic
<1>5. CASE SaveState
  BY <1>5, Vectors DEF SaveState, IInv, TypeOK, Context, Serving, InUser,
     InCommand, Load, Registers, cpu, context, pic
<1>6. CASE Callback
  BY <1>6, Vectors DEF Callback, IInv, TypeOK, Context, Serving, InUser,
     InCommand, Load, Registers, cpu, context, pic
<1>7. CASE ReadItem
  BY <1>7, Vectors DEF ReadItem, IInv, TypeOK, Context, Serving, InUser,
     InCommand, Load, Registers, cpu, context, pic
<1>8. CASE ItemRead
  BY <1>8, Vectors DEF ItemRead, IInv, TypeOK, Context, Serving, InUser,
     InCommand, Load, Registers, cpu, context, pic
<1>9. CASE CopyString
  BY <1>9, Vectors DEF CopyString, IInv, TypeOK, Context, Serving, InUser,
     InCommand, Load, Registers, cpu, context, pic
<1>10. CASE StringCopied
  BY <1>10, Vectors DEF StringCopied, IInv, TypeOK, Context, Serving, InUser,
     InCommand, Load, Registers, cpu, context, pic
<1>11. CASE KernelFault
  BY <1>11, Vectors DEF KernelFault, IInv, TypeOK, Context, Serving, InUser,
     InCommand, Load, Registers, cpu, context, pic
<1>12. CASE CommandDone
  BY <1>12, Vectors DEF CommandDone, IInv, TypeOK, Context, Serving, InUser,
     InCommand, Load, Registers, cpu, context, pic
<1>13. CASE TaskPage
  BY <1>13, Vectors DEF TaskPage, IInv, TypeOK, Context, Serving, InUser,
     InCommand, Load, Registers, cpu, context, pic
<1>14. CASE EndOfInterrupt
  BY <1>14, Vectors DEF EndOfInterrupt, IInv, TypeOK, Context, Serving, InUser,
     InCommand, Load, Registers, cpu, context, pic
<1>15. CASE Return
  BY <1>15, Vectors DEF Return, IInv, TypeOK, Context, Serving, InUser,
     InCommand, Load, Registers, cpu, context, pic
<1>16. CASE ReturnAstray
  BY <1>16, Vectors DEF ReturnAstray, IInv, TypeOK, Context, Serving, InUser,
     InCommand, Load, Registers, cpu, context, pic
<1>17. ASSUME NEW v \in Irq, Raise(v) PROVE IInv'
  BY <1>17, Vectors DEF Raise, IInv, TypeOK, Context, Serving, InUser,
     InCommand, Load, Registers, cpu, context, pic
<1>18. ASSUME NEW v \in Irq, TakeIrq(v) PROVE IInv'
  BY <1>18, Vectors DEF TakeIrq, Enter, IInv, TypeOK, Context, Serving, InUser,
     InCommand, Load, Registers, cpu, context, pic
<1>19. ASSUME NEW v \in Irq, IntN(v) PROVE IInv'
  BY <1>19, Vectors DEF IntN, Enter, IInv, TypeOK, Context, Serving, InUser,
     InCommand, Load, Registers, cpu, context, pic
<1>20. ASSUME NEW v \in Command, Int80(v) PROVE IInv'
  BY <1>20, Vectors DEF Int80, Enter, IInv, TypeOK, Context, Serving, InUser,
     InCommand, Load, Registers, cpu, context, pic
<1>21. CASE UNCHANGED vars
  BY <1>21 DEF vars, IInv, TypeOK, Context, Serving, InUser, InCommand,
     cpu, context, pic
<1> QED
  BY <1>1, <1>2, <1>3, <1>4, <1>5, <1>6, <1>7, <1>8, <1>9, <1>10, <1>11, <1>12, <1>13, <1>14, <1>15, <1>16, <1>17, <1>18, <1>19, <1>20, <1>21 DEF Next, Kernel

LEMMA AlwaysIInv == Spec => []IInv
<1> QED
  BY InitIInv, NextIInv, PTL DEF Spec

\* The program runs on its own page tables with interrupts enabled and none
\* unacknowledged, the kernel on its own tables and segments.
THEOREM TrapsRightContext == Spec => []RightContext
<1>1. IInv => RightContext
  BY DEF IInv, Context, RightContext, InUser
<1> QED
  BY <1>1, AlwaysIInv, PTL

\* The segments the CPU finds in the encoded table at 0x10 and 0x23 are of
\* all memory and may be used where they are.
LEMMA Segments ==
  /\ FlatData(16, 0) /\ FlatData(35, 0) /\ FlatData(35, 3)
  /\ EntryOf(27).type = Of(3, "code") /\ EntryOf(8).type = Of(0, "code")
  /\ EntryOf(40) = [base |-> TssBase, limit |-> TssSize, type |-> Of(0, "tss")]
<1>1. /\ 16 \div 8 + 1 = 3 /\ 35 \div 8 + 1 = 5 /\ 27 \div 8 + 1 = 4
      /\ 8 \div 8 + 1 = 2 /\ 40 \div 8 + 1 = 6
      /\ 16 % 8 = 0 /\ 35 % 8 = 3
  OBVIOUS
<1>2. /\ EntryOf(16) = Table[3] /\ EntryOf(35) = Table[5]
      /\ EntryOf(27) = Table[4] /\ EntryOf(8) = Table[2] /\ EntryOf(40) = Table[6]
  BY <1>1, TableExact DEF EntryOf
<1>3. /\ Table[2].type = Of(0, "code") /\ Table[4].type = Of(3, "code")
      /\ Table[3] = Entry(0, MaxWord, Of(0, "data"))
      /\ Table[5] = Entry(0, MaxWord, Of(3, "data"))
      /\ Table[6] = Entry(TssBase, TssSize, Of(0, "tss"))
  BY DEF Table, Entry
<1> QED
  BY <1>1, <1>2, <1>3 DEF FlatData, Entry, Of

\* Every ring finds segments it may use and that reach all of memory, at
\* every moment of every trap.
THEOREM TrapsSegmentsFit == Spec => []SegmentsFit
<1>1. IInv => SegmentsFit
  <2> SUFFICES ASSUME IInv PROVE SegmentsFit
    OBVIOUS
  <2>1. ring \in {"user", "kernel"} /\ ds \in {"task", "kernel"}
    BY DEF IInv, TypeOK
  <2>2. ring = "user" => ds = "task"
    BY DEF IInv, Context, InUser
  <2>3. FlatData(DataSelector, CurrentLevel)
    BY <2>1, <2>2, Segments DEF DataSelector, CurrentLevel
  <2> QED
    BY <2>3, Segments, TableExact DEF SegmentsFit
<1> QED
  BY <1>1, AlwaysIInv, PTL

\* An interrupt gives the program back every register, a system call every
\* one but eax.
THEOREM TrapsUndisturbed == Spec => Undisturbed
<1>1. ASSUME IInv, [Next]_vars, pc # "program", pc' = "program"
      PROVE  regs'.esp = regs.esp /\ (vector \in Irq => regs' = regs)
  <2>1. CASE UNCHANGED vars
    BY <1>1, <2>1 DEF vars
  <2>2. CASE Next
    <3>1. regs' = frame
      BY <1>1, <2>2 DEF Next, Kernel, Compute, Fault, DivideByZero, KernelPage,
           SaveState, Callback, ReadItem, ItemRead, CopyString, StringCopied,
           KernelFault, CommandDone, TaskPage, EndOfInterrupt, Return,
           ReturnAstray, Raise, TakeIrq, IntN, Int80, Enter, InUser
    <3> QED
      BY <1>1, <3>1 DEF IInv, Serving
  <2> QED
    BY <1>1, <2>1, <2>2
<1>2. IInv /\ [Next]_vars
        => [pc # "program" /\ pc' = "program" =>
              regs'.esp = regs.esp /\ (vector \in Irq => regs' = regs)]_vars
  BY <1>1
<1> QED
  BY <1>2, AlwaysIInv, PTL DEF Spec, Undisturbed
=============================================================================
