------------------------------ MODULE Keyboard ------------------------------
(***************************************************************************)
(* The key buffer of the running process (src/src/keyboard): the interrupt *)
(* handler pushes at tail, getkey pops at head, a zero cell means empty    *)
(* and neither side compares head with tail.  Both run in the kernel with  *)
(* interrupts off, so each is one step; they interleave whenever the       *)
(* program polls with interrupts on.  keyboard_backspace has no caller.    *)
(***************************************************************************)
EXTENDS Integers, FiniteSets

CONSTANTS N,         \* KEYBOARD_BUFFER_SIZE
          WordSize,  \* 2^32: head and tail are uint32_t
          Keys,      \* the non-zero characters
          NoKey,     \* character 0
          MaxLost    \* bound on overwritten keys; Lag wraps at WordSize

ASSUME KeyboardAssumption ==
  /\ N \in Nat \ {0} /\ WordSize \in Nat \ {0}
  /\ WordSize % N = 0
  /\ NoKey \notin Keys
  /\ MaxLost \in Nat /\ N + MaxLost < WordSize

Cell == 0 .. N - 1

VARIABLES buffer, head, tail,  \* process->keyboard
          answer,              \* eax of the last getkey
          lost                 \* history: pushes that hit an unread key

vars == <<buffer, head, tail, answer, lost>>

\* process_init: the whole struct process is zeroed.
Init ==
  /\ buffer = [k \in Cell |-> NoKey]
  /\ head = 0 /\ tail = 0
  /\ answer = NoKey
  /\ lost = 0

Filled == {k \in Cell : buffer[k] # NoKey}
Lag == (tail - head) % WordSize

MutPush(c) ==
  LET at == tail % N IN
  /\ buffer[at] # NoKey => lost < MaxLost
  /\ buffer' = [buffer EXCEPT ![at] = c]
  /\ tail' = IF buffer[at] # NoKey THEN tail ELSE (tail + 1) % WordSize
  /\ lost' = IF buffer[at] # NoKey THEN lost + 1 ELSE lost
  /\ UNCHANGED <<head, answer>>
\* A make code: PS2_keyboard_handle_interrupt looks it up and keyboard_push
\* stores it.  Codes from 84 on read past keyboard_scan_table and can give
\* any character; a zero is not pushed, and break codes return early.
Push(c) ==
  LET at == tail % N IN
  /\ buffer[at] # NoKey => lost < MaxLost
  /\ buffer' = [buffer EXCEPT ![at] = c]
  /\ tail' = (tail + 1) % WordSize
  /\ lost' = IF buffer[at] # NoKey THEN lost + 1 ELSE lost
  /\ UNCHANGED <<head, answer>>

\* System call 2, keyboard_pop.
MutPopSticks ==
  LET at == head % N IN
  /\ answer' = buffer[at]
  /\ buffer' = [buffer EXCEPT ![at] = NoKey]
  /\ UNCHANGED <<head, tail, lost>>
MutPop ==
  LET at == head % N IN
  /\ answer' = buffer[at]
  /\ head' = (head + 1) % WordSize
  /\ buffer' = [buffer EXCEPT ![at] = NoKey]
  /\ UNCHANGED <<tail, lost>>
Pop ==
  LET at == head % N IN
  /\ answer' = buffer[at]
  /\ IF buffer[at] = NoKey
     THEN UNCHANGED <<buffer, head>>
     ELSE /\ buffer' = [buffer EXCEPT ![at] = NoKey]
          /\ head' = (head + 1) % WordSize
  /\ UNCHANGED <<tail, lost>>

Next == Pop \/ \E c \in Keys : Push(c)

\* getkey_block polls until it gets a key, and nothing else is scheduled.
Spec == Init /\ [][Next]_vars /\ WF_vars(Pop)
-----------------------------------------------------------------------------
TypeOK ==
  /\ buffer \in [Cell -> Keys \cup {NoKey}]
  /\ head \in 0 .. WordSize - 1 /\ tail \in 0 .. WordSize - 1
  /\ answer \in Keys \cup {NoKey}
  /\ lost \in 0 .. MaxLost

\* The counters count keys: tail is ahead of head by the keys still in the
\* buffer plus every key ever overwritten in it.  So an overrun is never
\* made good: the two stay apart by that many for the life of the process.
LagCountsLosses == Lag = Cardinality(Filled) + lost

\* After losses that are not a multiple of N, a drained buffer hides keys:
\* the next press lands in a cell getkey does not look at.
DrainedHides ==
  [][Filled = {} /\ lost % N # 0 /\ tail' # tail
       => buffer'[head % N] = NoKey]_vars

\* Until the first overrun the cells from head on hold the waiting keys in
\* the order of arrival: the buffer is the queue its program expects.
Waiting == [k \in 1 .. Lag |-> buffer[(head + k - 1) % N]]
Fifo == INSTANCE KeyFifo WITH waiting <- Waiting, Room <- N
IsFifo ==
  /\ Fifo!Init
  /\ [][lost' = 0 => [Fifo!Next]_<<Waiting, answer>>]_vars

\* ... and a key in the buffer is taken out, however the presses interleave.
KeysTaken ==
  \A k \in Cell : (buffer[k] # NoKey) ~> (buffer[k] = NoKey \/ lost > 0)
=============================================================================
