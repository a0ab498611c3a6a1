--------------------------------- MODULE Gdt ----------------------------------
(***************************************************************************)
(* The segment table: gdt_structured in kernel.c, encodeGDTEntry in        *)
(* gdt/gdt.c, and what the CPU reads out of an encoded entry.  A segment's *)
(* type byte is given by what it says: privilege level and use.            *)
(***************************************************************************)
EXTENDS Integers

CONSTANTS Low,      \* 2^16: the limit's low field
          High,     \* 2^4: its high field
          Page,     \* 2^12: the unit of a large segment's limit
          Byte,     \* 2^8
          TssBase, TssSize   \* &tss, sizeof(tss)

ASSUME GdtAssumption ==
  /\ {Low, High, Page, Byte} \subseteq Nat \ {0} /\ High > 1
  /\ TssBase \in 0 .. Byte * Byte * Byte * Byte - 1
  /\ TssSize \in 1 .. Low

MaxWord == Low * High * Page - 1   \* 0xffffffff
Limit == 0 .. MaxWord
Base == 0 .. Byte * Byte * Byte * Byte - 1

\* The types 0x9A, 0x92, 0xF8, 0xF2 and 0x89, and the zero of the first entry.
Type == [dpl : {0, 3}, use : {"code", "data", "tss", "none"}]
Segment == [base : Base, limit : Limit, type : Type]

Of(dpl, use) == [dpl |-> dpl, use |-> use]
Entry(base, limit, type) == [base |-> base, limit |-> limit, type |-> type]

\* Selector 8 * k is the entry k + 1 here.
Table == <<Entry(0, 0, Of(0, "none")),
           Entry(0, MaxWord, Of(0, "code")),
           Entry(0, MaxWord, Of(0, "data")),
           Entry(0, MaxWord, Of(3, "code")),
           Entry(0, MaxWord, Of(3, "data")),
           Entry(TssBase, TssSize, Of(0, "tss"))>>

\* encodeGDTEntry panics on a large limit that is not a whole number of pages.
Refused(d) == d.limit > Low /\ d.limit % Page # Page - 1

BaseBytes(base) ==
  <<base % Byte, (base \div Byte) % Byte, ((base \div Byte) \div Byte) % Byte,
    (((base \div Byte) \div Byte) \div Byte) % Byte>>

\* Into an entry that kernel_start has cleared.
MutEncode(d) ==
  [pages |-> FALSE,
   limitLow |-> d.limit % Low,
   limitHigh |-> (d.limit \div Low) % High,
   base |-> BaseBytes(d.base),
   type |-> d.type]
Encode(d) ==
  LET large == d.limit > Low
      limit == IF large THEN d.limit \div Page ELSE d.limit
  IN [pages |-> large,
      limitLow |-> limit % Low,
      limitHigh |-> (limit \div Low) % High,
      base |-> BaseBytes(d.base),
      type |-> d.type]

\* The CPU's reading of an entry.
Decode(e) ==
  LET limit == e.limitLow + Low * e.limitHigh
      b == e.base
  IN [base |-> b[1] + Byte * (b[2] + Byte * (b[3] + Byte * b[4])),
      limit |-> IF e.pages THEN limit * Page + Page - 1 ELSE limit,
      type |-> e.type]

\* gdt_structured_to_gdt over the whole table.
Loaded == [k \in 1 .. 6 |-> Encode(Table[k])]
=============================================================================
