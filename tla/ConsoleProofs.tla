--------------------------- MODULE ConsoleProofs ----------------------------
(***************************************************************************)
(* Proofs about Keyboard for every buffer size, counter width and alphabet,*)
(* and about the program that reads lines from it, for every screen and    *)
(* length of line.                                                         *)
(***************************************************************************)
EXTENDS Console, FiniteSetTheorems, SequenceTheorems, WellFoundedInduction,
        TLAPS

\* Counting modulo w, as uint32_t does: what x % w is near the range.
LEMMA ModNear ==
  ASSUME NEW w \in Nat \ {0}, NEW x \in Int
  PROVE  /\ x % w \in 0 .. w - 1
         /\ x \in 0 .. w - 1 => x % w = x
         /\ x \in w .. 2 * w - 1 => x % w = x - w
         /\ x \in -w .. -1 => x % w = x + w
  OBVIOUS

\* One more, and how far apart, on counters that wrap at w.
LEMMA CounterNext ==
  ASSUME NEW w \in Nat \ {0}, NEW t \in 0 .. w - 1
  PROVE  (t + 1) % w = IF t + 1 = w THEN 0 ELSE t + 1
<1> DEFINE x == t + 1
<1>1. x \in Int /\ x \in 1 .. w
  OBVIOUS
<1>2. x = w => x \in w .. 2 * w - 1
  BY <1>1
<1>3. x # w => x \in 0 .. w - 1
  BY <1>1
<1> HIDE DEF x
<1>4. CASE x = w
  <2>1. x % w = x - w
    BY <1>1, <1>2, <1>4, ModNear
  <2> QED
    BY <1>4, <2>1 DEF x
<1>5. CASE x # w
  <2>1. x % w = x
    BY <1>1, <1>3, <1>5, ModNear
  <2> QED
    BY <1>5, <2>1 DEF x
<1> QED
  BY <1>4, <1>5

LEMMA CounterGap ==
  ASSUME NEW w \in Nat \ {0}, NEW t \in 0 .. w - 1, NEW h \in 0 .. w - 1
  PROVE  (t - h) % w = IF t >= h THEN t - h ELSE t - h + w
<1> DEFINE x == t - h
<1>1. x \in Int /\ (t >= h <=> x >= 0)
  OBVIOUS
<1>2. x >= 0 => x \in 0 .. w - 1
  OBVIOUS
<1>3. x < 0 => x \in -w .. -1
  OBVIOUS
<1> HIDE DEF x
<1>4. CASE x >= 0
  <2>1. x % w = x
    BY <1>1, <1>2, <1>4, ModNear
  <2> QED
    BY <1>1, <1>4, <2>1 DEF x
<1>5. CASE x < 0
  <2>1. x % w = x + w
    BY <1>1, <1>3, <1>5, ModNear
  <2> QED
    BY <1>1, <1>5, <2>1 DEF x
<1> QED
  BY <1>1, <1>4, <1>5

\* A counter stays a counter, and its cell is a cell of the buffer.
LEMMA CellOfCounter ==
  ASSUME NEW x \in 0 .. WordSize - 1
  PROVE  x % N \in Cell
  BY KeyboardAssumption, ModNear DEF Cell

LEMMA FilledFinite ==
  /\ IsFiniteSet(Filled)
  /\ Cardinality(Filled) \in Nat
  /\ Cardinality(Filled) <= N
<1>1. IsFiniteSet(Cell) /\ Cardinality(Cell) = N
  BY KeyboardAssumption, FS_Interval DEF Cell
<1>2. Filled \subseteq Cell
  BY DEF Filled
<1> QED
  BY <1>1, <1>2, FS_Subset, FS_CardinalityType

\* An empty cell is room for one more key.
LEMMA EmptyIsRoom ==
  ASSUME NEW x \in Cell, buffer[x] = NoKey
  PROVE  Cardinality(Filled) < N
<1>1. IsFiniteSet(Cell) /\ Cardinality(Cell) = N
  BY KeyboardAssumption, FS_Interval DEF Cell
<1>2. Filled \subseteq Cell /\ Filled # Cell
  BY DEF Filled
<1>3. Cardinality(Filled) # Cardinality(Cell)
  BY <1>1, <1>2, FS_Subset
<1> QED
  BY <1>1, <1>3, FilledFinite, KeyboardAssumption
-----------------------------------------------------------------------------
IInv == TypeOK /\ LagCountsLosses

LEMMA InitIInv == Init => IInv
<1> SUFFICES ASSUME Init PROVE IInv
  OBVIOUS
<1> USE KeyboardAssumption
<1>1. TypeOK
  BY DEF Init, TypeOK
<1>2. Filled = {}
  BY DEF Init, Filled
<1>3. Lag = 0
  BY ModNear DEF Init, Lag
<1> QED
  BY <1>1, <1>2, <1>3, FS_EmptySet DEF IInv, LagCountsLosses, Init

\* keyboard_push moves tail on by one: into an empty cell it adds a key,
\* onto a key it adds a loss.
LEMMA PushIInv ==
  ASSUME IInv, NEW c \in Keys, Push(c)
  PROVE  IInv' /\ Lag' = Lag + 1
<1> USE KeyboardAssumption
<1> DEFINE at == tail % N
<1>0. TypeOK /\ LagCountsLosses
  BY DEF IInv
<1>1. at \in Cell
  BY <1>0, CellOfCounter DEF TypeOK
<1>2. /\ buffer' = [buffer EXCEPT ![at] = c]
      /\ tail' = (tail + 1) % WordSize
      /\ head' = head /\ answer' = answer
      /\ buffer[at] # NoKey => lost' = lost + 1 /\ lost < MaxLost
      /\ buffer[at] = NoKey => lost' = lost
  BY DEF Push
<1>3. TypeOK'
  <2>1. tail' \in 0 .. WordSize - 1
    BY <1>0, <1>2, ModNear DEF TypeOK
  <2> QED
    BY <1>0, <1>1, <1>2, <2>1 DEF TypeOK
<1>4. Filled' = Filled \cup {at}
  BY <1>0, <1>1, <1>2 DEF Filled, TypeOK
<1>5. Cardinality(Filled') + lost' = Cardinality(Filled) + lost + 1
  <2>1. CASE buffer[at] = NoKey
    <3>1. at \notin Filled
      BY <2>1 DEF Filled
    <3>2. Cardinality(Filled') = Cardinality(Filled) + 1
      BY <1>4, <3>1, FilledFinite, FS_AddElement
    <3> QED
      BY <1>0, <1>2, <2>1, <3>2, FilledFinite DEF TypeOK
  <2>2. CASE buffer[at] # NoKey
    <3>1. Filled' = Filled
      BY <1>1, <1>4, <2>2 DEF Filled
    <3> QED
      BY <1>0, <1>2, <2>2, <3>1, FilledFinite DEF TypeOK
  <2> QED
    BY <2>1, <2>2
<1>6. Lag + 1 < WordSize
  <2>1. CASE buffer[at] = NoKey
    <3>1. Cardinality(Filled) < N
      BY <1>1, <2>1, EmptyIsRoom
    <3> QED
      BY <1>0, <3>1, FilledFinite DEF LagCountsLosses, TypeOK
  <2>2. CASE buffer[at] # NoKey
    BY <1>0, <1>2, <2>2, FilledFinite DEF LagCountsLosses, TypeOK
  <2> QED
    BY <2>1, <2>2
<1>7. Lag' = Lag + 1
  <2>1. head \in 0 .. WordSize - 1 /\ tail \in 0 .. WordSize - 1
    BY <1>0 DEF TypeOK
  <2>2. Lag = IF tail >= head THEN tail - head ELSE tail - head + WordSize
    BY <2>1, CounterGap DEF Lag
  <2>3. tail' = IF tail + 1 = WordSize THEN 0 ELSE tail + 1
    BY <1>2, <2>1, CounterNext
  <2>4. Lag' = IF tail' >= head THEN tail' - head ELSE tail' - head + WordSize
    <3>1. tail' \in 0 .. WordSize - 1
      BY <1>3 DEF TypeOK
    <3>2. Lag' = (tail' - head) % WordSize
      BY <1>2 DEF Lag
    <3> QED
      BY <2>1, <3>1, <3>2, CounterGap
  <2> QED
    BY <1>6, <2>1, <2>2, <2>3, <2>4
<1> QED
  BY <1>0, <1>3, <1>5, <1>7, FilledFinite DEF IInv, LagCountsLosses, TypeOK

\* keyboard_pop takes a key out and moves head on by one, or does nothing.
LEMMA PopIInv ==
  ASSUME IInv, Pop
  PROVE  /\ IInv'
         /\ buffer[head % N] # NoKey => Lag' = Lag - 1
<1> USE KeyboardAssumption
<1> DEFINE at == head % N
<1>0. TypeOK /\ LagCountsLosses
  BY DEF IInv
<1>1. at \in Cell
  BY <1>0, CellOfCounter DEF TypeOK
<1>2. tail' = tail /\ lost' = lost /\ answer' = buffer[at]
  BY DEF Pop
<1>3. CASE buffer[at] = NoKey
  <2>1. buffer' = buffer /\ head' = head
    BY <1>3 DEF Pop
  <2> QED
    BY <1>0, <1>2, <1>3, <2>1
       DEF IInv, TypeOK, LagCountsLosses, Lag, Filled
<1>4. CASE buffer[at] # NoKey
  <2>1. /\ buffer' = [buffer EXCEPT ![at] = NoKey]
        /\ head' = (head + 1) % WordSize
    BY <1>4 DEF Pop
  <2>2. TypeOK'
    <3>1. head' \in 0 .. WordSize - 1
      BY <1>0, <2>1, ModNear DEF TypeOK
    <3>2. buffer[at] \in Keys \cup {NoKey}
      BY <1>0, <1>1 DEF TypeOK
    <3> QED
      BY <1>0, <1>1, <1>2, <2>1, <3>1, <3>2 DEF TypeOK
  <2>3. at \in Filled /\ Filled' = Filled \ {at}
    BY <1>0, <1>1, <1>4, <2>1 DEF Filled, TypeOK
  <2>4. Cardinality(Filled') = Cardinality(Filled) - 1
    BY <2>3, FilledFinite, FS_RemoveElement
  <2>5. Lag >= 1
    <3>1. Cardinality(Filled) # 0
      BY <2>3, FilledFinite, FS_EmptySet
    <3> QED
      BY <1>0, <3>1, FilledFinite DEF LagCountsLosses, TypeOK
  <2>6. Lag' = Lag - 1
    <3>1. head \in 0 .. WordSize - 1 /\ tail \in 0 .. WordSize - 1
      BY <1>0 DEF TypeOK
    <3>2. Lag = IF tail >= head THEN tail - head ELSE tail - head + WordSize
      BY <3>1, CounterGap DEF Lag
    <3>3. head' = IF head + 1 = WordSize THEN 0 ELSE head + 1
      BY <2>1, <3>1, CounterNext
    <3>4. Lag' = IF tail >= head' THEN tail - head' ELSE tail - head' + WordSize
      <4>1. head' \in 0 .. WordSize - 1
        BY <2>2 DEF TypeOK
      <4>2. Lag' = (tail - head') % WordSize
        BY <1>2 DEF Lag
      <4> QED
        BY <3>1, <4>1, <4>2, CounterGap
    <3> QED
      BY <2>5, <3>1, <3>2, <3>3, <3>4
  <2> QED
    BY <1>0, <1>2, <2>2, <2>4, <2>6, FilledFinite
       DEF IInv, LagCountsLosses, TypeOK
<1> QED
  BY <1>3, <1>4

LEMMA StutterIInv ==
  ASSUME IInv, UNCHANGED vars
  PROVE  IInv'
  BY DEF IInv, vars, TypeOK, LagCountsLosses, Lag, Filled

LEMMA StepIInv == IInv /\ [Next]_vars => IInv'
  BY PushIInv, PopIInv, StutterIInv DEF Next

\* tail runs ahead of head by the keys in the buffer and all keys ever
\* overwritten: what an overrun skews stays skewed.
THEOREM KeyboardLag == Spec => [](TypeOK /\ LagCountsLosses)
<1>1. IInv => TypeOK /\ LagCountsLosses
  BY DEF IInv
<1> QED
  BY <1>1, InitIInv, StepIInv, PTL DEF Spec
-----------------------------------------------------------------------------
\* Multiples of the divisor do not show in a remainder, and numbers with the
\* same remainder are multiples of it apart.
LEMMA SameCell ==
  ASSUME NEW n \in Nat \ {0}, NEW x \in Int, NEW y \in Int, NEW z \in Int,
         z = x + y
  PROVE  /\ y % n = 0 => z % n = x % n
         /\ z % n = x % n => y % n = 0
<1> DEFINE q == x \div n
           r == x % n
           j == y \div n
           s == y % n
           k == z \div n
           t == z % n
           e == k - q - j
<1>1. /\ q \in Int /\ r \in 0 .. n - 1 /\ x = q * n + r
      /\ j \in Int /\ s \in 0 .. n - 1 /\ y = j * n + s
      /\ k \in Int /\ t \in 0 .. n - 1 /\ z = k * n + t
  OBVIOUS
<1> HIDE DEF q, r, j, s, k, t
<1>2. /\ e \in Int /\ e * n = k * n - q * n - j * n
      /\ q * n \in Int /\ j * n \in Int /\ k * n \in Int
  BY <1>1
<1> HIDE DEF e
<1>3. e * n = r + s - t
  BY <1>1, <1>2
<1>4. -n < r + s - t /\ r + s - t < n => e = 0
  <2>1. CASE e >= 1
    <3>1. e * n >= n
      BY <1>2, <2>1
    <3> QED
      BY <1>1, <1>3, <3>1
  <2>2. CASE e <= -1
    <3>1. e * n <= -n
      BY <1>2, <2>2
    <3> QED
      BY <1>1, <1>3, <3>1
  <2> QED
    BY <1>2, <2>1, <2>2
<1>5. e = 0 => r + s - t = 0
  BY <1>1, <1>3
<1>6. (s = 0 => t = r) /\ (t = r => s = 0)
  BY <1>1, <1>4, <1>5
<1> QED
  BY <1>6 DEF r, s, t

\* tail's cell is Lag cells on from head's.
LEMMA TailCell ==
  ASSUME TypeOK
  PROVE  Lag \in Nat /\ tail % N = (head + Lag) % N
<1> USE KeyboardAssumption
<1>1. head \in Nat /\ tail \in Nat /\ Lag \in Nat
  BY ModNear DEF TypeOK, Lag
<1>2. head + Lag = tail \/ head + Lag = tail + WordSize
  <2>1. Lag = IF tail >= head THEN tail - head ELSE tail - head + WordSize
    BY CounterGap DEF TypeOK, Lag
  <2> QED
    BY <1>1, <2>1
<1>3. WordSize % N = 0 /\ WordSize \in Int
  OBVIOUS
<1> DEFINE z == tail + WordSize
<1>4. z \in Int
  BY <1>1, <1>3
<1>5. z = tail + WordSize
  OBVIOUS
<1> HIDE DEF z
<1>6. N \in Nat \ {0} /\ tail \in Int
  BY <1>1
<1>7. z % N = tail % N
  BY <1>3, <1>4, <1>5, <1>6, SameCell, Zenon
<1> QED
  BY <1>1, <1>2, <1>5, <1>7

\* After losses that are no multiple of N, a key pressed into a drained
\* buffer lands where getkey does not look.
THEOREM KeyboardHides == Spec => DrainedHides
<1> USE KeyboardAssumption
<1>1. ASSUME IInv, [Next]_vars, Filled = {}, lost % N # 0, tail' # tail
      PROVE  buffer'[head % N] = NoKey
  <2>1. TypeOK /\ Lag = lost /\ head \in Int /\ lost \in Int
    BY <1>1, FS_EmptySet DEF IInv, LagCountsLosses, TypeOK
  <2> DEFINE z == head + lost
  <2>z. z \in Int /\ z = head + lost
    BY <2>1
  <2>t. tail % N = z % N
    BY <2>1, TailCell
  <2> HIDE DEF z
  <2>n. N \in Nat \ {0}
    OBVIOUS
  <2>2. tail % N # head % N
    <3>1. z % N # head % N
      BY <1>1, <2>1, <2>n, <2>z, SameCell, Zenon
    <3> QED
      BY <2>t, <3>1
  <2>3. head % N \in Cell /\ tail % N \in Cell
    BY <2>1, CellOfCounter DEF TypeOK
  <2>4. buffer[head % N] = NoKey
    BY <1>1, <2>3 DEF Filled
  <2>5. PICK c \in Keys : Push(c)
    BY <1>1 DEF Next, Pop, vars
  <2> QED
    BY <2>1, <2>2, <2>3, <2>4, <2>5 DEF Push, TypeOK
<1>2. ASSUME IInv, [Next]_vars
      PROVE  Filled = {} /\ lost % N # 0 /\ tail' # tail
               => buffer'[head % N] = NoKey
  BY <1>1, <1>2
<1> QED
  BY <1>2, InitIInv, StepIInv, PTL DEF Spec, DrainedHides
-----------------------------------------------------------------------------
\* Until the first loss the waiting keys are the cells from head on, none of
\* them empty.
Lined == lost = 0 => \A k \in 1 .. Lag : buffer[(head + k - 1) % N] # NoKey

FInv == IInv /\ Lined

\* Putting one element behind n others.
LEMMA Grown ==
  ASSUME NEW S, NEW n \in Nat, NEW c \in S,
         NEW f \in [1 .. n -> S], NEW g \in [1 .. n + 1 -> S],
         g[n + 1] = c, \A k \in 1 .. n : g[k] = f[k]
  PROVE  Len(f) = n /\ g = Append(f, c)
<1> DEFINE m == n + 1
<1>1. f \in Seq(S) /\ Len(f) = n
  OBVIOUS
<1>2. m \in Nat /\ m = n + 1
  OBVIOUS
<1>3. g \in Seq(S) /\ Len(g) = n + 1
  <2>1. g \in [1 .. m -> S]
    OBVIOUS
  <2> HIDE DEF m
  <2> QED
    BY <1>2, <2>1
<1>4. /\ Append(f, c) \in Seq(S) /\ Len(Append(f, c)) = n + 1
      /\ \A k \in 1 .. n : Append(f, c)[k] = f[k]
      /\ Append(f, c)[n + 1] = c
  BY <1>1, AppendProperties
<1>5. \A k \in 1 .. Len(g) : g[k] = Append(f, c)[k]
  BY <1>3, <1>4
<1>6. g = Append(f, c)
  BY <1>3, <1>4, <1>5, SeqEqual
<1> QED
  BY <1>1, <1>6

\* Taking the first of n elements.
LEMMA Shrunk ==
  ASSUME NEW S, NEW n \in Nat \ {0},
         NEW f \in [1 .. n -> S], NEW g \in [1 .. n - 1 -> S],
         \A k \in 1 .. n - 1 : g[k] = f[k + 1]
  PROVE  f # <<>> /\ Head(f) = f[1] /\ g = Tail(f)
<1> DEFINE m == n - 1
<1>1. f \in Seq(S) /\ Len(f) = n /\ f # <<>> /\ Head(f) = f[1]
  OBVIOUS
<1>2. m \in Nat /\ m = n - 1
  OBVIOUS
<1>3. g \in Seq(S) /\ Len(g) = n - 1
  <2>1. g \in [1 .. m -> S]
    OBVIOUS
  <2> HIDE DEF m
  <2> QED
    BY <1>2, <2>1
<1>4. /\ Tail(f) \in Seq(S) /\ Len(Tail(f)) = n - 1
      /\ \A k \in 1 .. Len(Tail(f)) : Tail(f)[k] = f[k + 1]
  BY <1>1, HeadTailProperties
<1>5. \A k \in 1 .. Len(g) : g[k] = Tail(f)[k]
  BY <1>3, <1>4
<1>6. g = Tail(f)
  BY <1>3, <1>4, <1>5, SeqEqual
<1> QED
  BY <1>1, <1>6

\* What waits are characters out of the cells.
LEMMA WaitingTyped ==
  /\ TypeOK => Waiting \in [1 .. Lag -> Keys \cup {NoKey}]
  /\ TypeOK' => Waiting' \in [1 .. Lag' -> Keys \cup {NoKey}]
<1>1. TypeOK => Waiting \in [1 .. Lag -> Keys \cup {NoKey}]
  <2> SUFFICES ASSUME TypeOK, NEW k \in 1 .. Lag
               PROVE  buffer[(head + k - 1) % N] \in Keys \cup {NoKey}
    BY DEF Waiting
  <2>1. head \in Int /\ Lag \in Nat
    BY KeyboardAssumption, ModNear DEF TypeOK, Lag
  <2>2. (head + k - 1) % N \in Cell
    BY <2>1, KeyboardAssumption DEF Cell
  <2> QED
    BY <2>2 DEF TypeOK
<1>2. (TypeOK => Waiting \in [1 .. Lag -> Keys \cup {NoKey}])'
  BY <1>1, PTL
<1> QED
  BY <1>1, <1>2

\* keyboard_push, nothing lost: the key goes behind the waiting ones.
LEMMA PushQueues ==
  ASSUME FInv, NEW c \in Keys, Push(c)
  PROVE  FInv' /\ (lost' = 0 => Fifo!Type(c))
<1> USE KeyboardAssumption
<1> DEFINE at == tail % N
<1>1. TypeOK /\ LagCountsLosses /\ IInv' /\ Lag' = Lag + 1
  BY PushIInv DEF FInv, IInv
<1>2. at \in Cell /\ Lag \in Nat /\ at = (head + Lag) % N /\ head \in Int
  BY <1>1, CellOfCounter, TailCell DEF TypeOK
<1>3. CASE lost' # 0
  BY <1>1, <1>3 DEF FInv, Lined
<1>4. CASE lost' = 0
  <2>1. buffer[at] = NoKey /\ lost = 0
    BY <1>1, <1>4 DEF Push, TypeOK
  <2>2. /\ buffer' = [buffer EXCEPT ![at] = c]
        /\ head' = head /\ answer' = answer
    BY DEF Push
  <2>3. \A k \in 1 .. Lag : buffer[(head + k - 1) % N] # NoKey
    BY <2>1 DEF FInv, Lined
  <2>4. \A k \in 1 .. Lag : buffer'[(head + k - 1) % N] = buffer[(head + k - 1) % N]
    <3> SUFFICES ASSUME NEW k \in 1 .. Lag
                 PROVE  buffer'[(head + k - 1) % N] = buffer[(head + k - 1) % N]
      OBVIOUS
    <3> DEFINE x == (head + k - 1) % N
    <3>1. x # at
      BY <2>1, <2>3
    <3> HIDE DEF x, at
    <3>2. buffer'[x] = buffer[x]
      BY <1>1, <2>2, <3>1 DEF TypeOK
    <3> QED
      BY <3>2 DEF x
  <2>5. buffer'[(head + (Lag + 1) - 1) % N] = c
    <3>1. buffer'[at] = c
      BY <1>1, <1>2, <2>2 DEF TypeOK
    <3>2. head + (Lag + 1) - 1 = head + Lag
      BY <1>2
    <3> QED
      BY <1>2, <3>1, <3>2
  <2>6. Lined'
    <3> SUFFICES ASSUME NEW k \in 1 .. Lag + 1
                 PROVE  buffer'[(head + k - 1) % N] # NoKey
      BY <1>1, <2>2 DEF Lined
    <3>1. CASE k = Lag + 1
      BY <2>5, <3>1
    <3>2. CASE k \in 1 .. Lag
      BY <2>3, <2>4, <3>2
    <3> QED
      BY <1>2, <3>1, <3>2
  <2>7. Len(Waiting) = Lag /\ Waiting' = Append(Waiting, c)
    <3> DEFINE S == Keys \cup {NoKey}
    <3>1. Waiting \in [1 .. Lag -> S] /\ Waiting' \in [1 .. Lag + 1 -> S]
      BY <1>1, WaitingTyped DEF IInv
    <3>2. Waiting'[Lag + 1] = c
      BY <1>1, <1>2, <2>2, <2>5 DEF Waiting
    <3>3. \A k \in 1 .. Lag : Waiting'[k] = Waiting[k]
      BY <1>1, <1>2, <2>2, <2>4 DEF Waiting
    <3>4. c \in S
      OBVIOUS
    <3> HIDE DEF S
    <3> QED
      BY <1>2, <3>1, <3>2, <3>3, <3>4, Grown
  <2>8. Lag < N
    BY <1>1, <1>2, <2>1, EmptyIsRoom, FilledFinite DEF LagCountsLosses
  <2> QED
    BY <1>1, <2>2, <2>6, <2>7, <2>8 DEF FInv, Fifo!Type
<1> QED
  BY <1>3, <1>4

\* head's next cell is the next cell, wrap or not.
LEMMA NextCell ==
  ASSUME TypeOK, NEW k \in Nat
  PROVE  (((head + 1) % WordSize) + k) % N = (head + k + 1) % N
<1> USE KeyboardAssumption
<1> DEFINE h == (head + 1) % WordSize
           x == h + k
           z == head + k + 1
<1>1. head \in 0 .. WordSize - 1 /\ N \in Nat \ {0}
  BY DEF TypeOK
<1>2. h = IF head + 1 = WordSize THEN 0 ELSE head + 1
  BY <1>1, CounterNext
<1>3. x \in Int /\ z \in Int /\ WordSize \in Int /\ WordSize % N = 0
  BY <1>1, <1>2
<1>4. z = x \/ z = x + WordSize
  BY <1>1, <1>2
<1> HIDE DEF x, z
<1>5. CASE z = x
  BY <1>5 DEF x, z
<1>6. CASE z = x + WordSize
  <2>1. z % N = x % N
    BY <1>1, <1>3, <1>6, SameCell, Zenon
  <2> QED
    BY <2>1 DEF x, z
<1> QED
  BY <1>4, <1>5, <1>6

\* Cells of waiting keys differ from the first one's, up to N of them.
LEMMA OtherCell ==
  ASSUME NEW k \in 1 .. N - 1, NEW x \in Int
  PROVE  (x + k) % N # x % N
<1> DEFINE z == x + k
<1>1. k % N # 0 /\ k \in Int /\ N \in Nat \ {0}
  BY KeyboardAssumption, ModNear
<1>2. z \in Int /\ z = x + k
  BY <1>1
<1> HIDE DEF z
<1>3. z % N # x % N
  BY <1>1, <1>2, SameCell, Zenon
<1> QED
  BY <1>2, <1>3

\* keyboard_pop: the first waiting key, or none when none waits.
LEMMA PopTakes ==
  ASSUME FInv, Pop
  PROVE  FInv' /\ (lost' = 0 => Fifo!Take \/ Fifo!TakeNothing)
<1> USE KeyboardAssumption
<1> DEFINE at == head % N
<1>1. /\ TypeOK /\ LagCountsLosses /\ IInv'
      /\ buffer[at] # NoKey => Lag' = Lag - 1
  BY PopIInv DEF FInv, IInv
<1>2. at \in Cell /\ Lag \in Nat /\ head \in Int /\ lost \in Nat
  BY <1>1, CellOfCounter, TailCell DEF TypeOK
<1>3. lost' = lost /\ tail' = tail /\ answer' = buffer[at]
  BY DEF Pop
<1>4. CASE lost # 0
  BY <1>1, <1>3, <1>4 DEF FInv, Lined
<1>5. CASE lost = 0 /\ buffer[at] = NoKey
  <2>1. buffer' = buffer /\ head' = head
    BY <1>5 DEF Pop
  <2>2. Lag = 0
    <3>1. CASE Lag >= 1
      <4>1. buffer[(head + 1 - 1) % N] # NoKey
        BY <1>2, <1>5, <3>1 DEF FInv, Lined
      <4>2. head + 1 - 1 = head
        BY <1>2
      <4> QED
        BY <1>5, <4>1, <4>2
    <3> QED
      BY <1>2, <3>1
  <2>3. Waiting = <<>>
    BY <1>1, <2>2, WaitingTyped
  <2>4. Waiting' = Waiting
    BY <1>3, <2>1 DEF Waiting, Lag
  <2>5. Lined'
    BY <1>3, <2>1 DEF FInv, Lined, Lag
  <2> QED
    BY <1>1, <1>3, <1>5, <2>3, <2>4, <2>5 DEF FInv, Fifo!TakeNothing
<1>6. CASE lost = 0 /\ buffer[at] # NoKey
  <2>1. /\ buffer' = [buffer EXCEPT ![at] = NoKey]
        /\ head' = (head + 1) % WordSize
    BY <1>6 DEF Pop
  <2>2. Lag \in 1 .. N /\ Lag' = Lag - 1
    <3>1. at \in Filled
      BY <1>2, <1>6 DEF Filled
    <3>2. Cardinality(Filled) # 0
      BY <3>1, FilledFinite, FS_EmptySet
    <3> QED
      BY <1>1, <1>2, <1>6, <3>2, FilledFinite DEF LagCountsLosses
  <2>3. \A k \in 1 .. Lag : buffer[(head + k - 1) % N] # NoKey
    BY <1>6 DEF FInv, Lined
  <2>4. \A k \in 1 .. Lag - 1 :
          buffer'[(head' + k - 1) % N] = buffer[(head + (k + 1) - 1) % N]
    <3> SUFFICES ASSUME NEW k \in 1 .. Lag - 1
                 PROVE  buffer'[(head' + k - 1) % N] = buffer[(head + (k + 1) - 1) % N]
      OBVIOUS
    <3> DEFINE j == k - 1
    <3>1. j \in Nat /\ j + 1 = k
      BY <2>2
    <3>2. (head' + j) % N = (head + j + 1) % N
      <4> HIDE DEF j
      <4> QED
        BY <1>1, <2>1, <3>1, NextCell
    <3>3. head' \in Int
      BY <1>1 DEF IInv, TypeOK
    <3>4. /\ head' + k - 1 = head' + j
          /\ head + (k + 1) - 1 = head + j + 1 /\ head + j + 1 = head + k
      BY <1>2, <2>2, <3>3
    <3>5. (head + k) % N # at
      BY <1>2, <2>2, OtherCell
    <3>6. (head + k) % N \in Cell
      BY <1>2, <2>2 DEF Cell
    <3>7. buffer'[(head + k) % N] = buffer[(head + k) % N]
      BY <1>1, <2>1, <3>5, <3>6 DEF TypeOK
    <3> QED
      BY <3>2, <3>4, <3>7
  <2>5. Lined'
    <3> SUFFICES ASSUME NEW k \in 1 .. Lag - 1
                 PROVE  buffer'[(head' + k - 1) % N] # NoKey
      BY <2>2 DEF Lined
    <3>1. k + 1 \in 1 .. Lag
      BY <2>2
    <3> QED
      BY <2>3, <2>4, <3>1
  <2>6. /\ Waiting # <<>> /\ Head(Waiting) = buffer[at]
        /\ Waiting' = Tail(Waiting)
    <3> DEFINE S == Keys \cup {NoKey}
    <3>1. Waiting \in [1 .. Lag -> S] /\ Waiting' \in [1 .. Lag - 1 -> S]
      BY <1>1, <2>2, WaitingTyped DEF IInv
    <3>2. \A k \in 1 .. Lag - 1 : Waiting'[k] = Waiting[k + 1]
      <4> SUFFICES ASSUME NEW k \in 1 .. Lag - 1
                   PROVE  Waiting'[k] = Waiting[k + 1]
        OBVIOUS
      <4>1. k + 1 \in 1 .. Lag
        BY <2>2
      <4>2. Waiting[k + 1] = buffer[(head + (k + 1) - 1) % N]
        BY <4>1 DEF Waiting
      <4>3. Waiting'[k] = buffer'[(head' + k - 1) % N]
        BY <2>2 DEF Waiting
      <4> QED
        BY <2>4, <4>2, <4>3
    <3>3. Waiting[1] = buffer[at]
      <4>1. head + 1 - 1 = head /\ 1 \in 1 .. Lag
        BY <1>2, <2>2
      <4> QED
        BY <4>1 DEF Waiting
    <3>4. Lag \in Nat \ {0}
      BY <2>2
    <3> HIDE DEF S
    <3> QED
      BY <3>1, <3>2, <3>3, <3>4, Shrunk
  <2> QED
    BY <1>1, <1>3, <2>5, <2>6 DEF FInv, Fifo!Take
<1> QED
  BY <1>4, <1>5, <1>6

LEMMA KeyboardStarts == Init => FInv /\ Fifo!Init
<1> SUFFICES ASSUME Init PROVE FInv /\ Fifo!Init
  OBVIOUS
<1> USE KeyboardAssumption
<1>1. IInv /\ TypeOK
  BY InitIInv DEF IInv
<1>2. Lag = 0
  BY ModNear DEF Init, Lag
<1>3. Waiting = <<>>
  BY <1>1, <1>2, WaitingTyped
<1>4. Lined
  BY <1>2 DEF Lined
<1> QED
  BY <1>1, <1>3, <1>4 DEF FInv, Fifo!Init, Init

\* Nothing lost, the buffer is the queue a program expects: getkey answers
\* the keys in the order of the presses, each once.
THEOREM KeyboardIsFifo == Spec => IsFifo
<1> USE KeyboardAssumption
<1>1. Init => FInv /\ Fifo!Init
  BY KeyboardStarts
<1>2. FInv /\ [Next]_vars
        => FInv' /\ (lost' = 0 => [Fifo!Next]_<<Waiting, answer>>)
  <2> SUFFICES ASSUME FInv, [Next]_vars
               PROVE  FInv' /\ (lost' = 0 => [Fifo!Next]_<<Waiting, answer>>)
    OBVIOUS
  <2>1. CASE Pop
    BY <2>1, PopTakes DEF Fifo!Next
  <2>2. CASE \E c \in Keys : Push(c)
    BY <2>2, PushQueues DEF Fifo!Next
  <2>3. CASE UNCHANGED vars
    BY <2>3, StutterIInv DEF FInv, Lined, Lag, Waiting, vars
  <2> QED
    BY <2>1, <2>2, <2>3 DEF Next
<1> QED
  BY <1>1, <1>2, PTL DEF Spec, IsFifo
-----------------------------------------------------------------------------
\* A set of naturals that holds a smaller one with every member is empty.
LEMMA Descent ==
  ASSUME NEW B, B \subseteq Nat, \A x \in B : \E y \in B : y < x
  PROVE  B = {}
<1> SUFFICES ASSUME B # {} PROVE FALSE
  OBVIOUS
<1>1. PICK x \in B : \A y \in B : ~(<<y, x>> \in OpToRel(<, Nat))
  BY WFMin, NatLessThanWellFounded, Zenon
<1>2. \A y \in B : ~(y < x)
  BY <1>1, Zenon DEF OpToRel
<1> QED
  BY <1>2

\* Step by step from base, with a step for every number up to n.
Runs(f, n, base, step) ==
  f[0] = base /\ \A k \in 1 .. n : f[k] = step[<<k, f[k - 1]>>]

LEMMA Recursion ==
  ASSUME NEW S, NEW n \in Nat, NEW base \in S,
         NEW step \in [(1 .. n) \X S -> S]
  PROVE  \E f \in [0 .. n -> S] : Runs(f, n, base, step)
<1> DEFINE Good(m) == \E f \in [0 .. m -> S] : Runs(f, m, base, step)
           B == {m \in 0 .. n : ~Good(m)}
<1>1. B \subseteq Nat
  OBVIOUS
<1>2. Good(0)
  <2>1. [k \in 0 .. 0 |-> base] \in [0 .. 0 -> S]
    OBVIOUS
  <2>2. Runs([k \in 0 .. 0 |-> base], 0, base, step)
    BY DEF Runs
  <2> QED
    BY <2>1, <2>2
<1>3. ASSUME NEW m \in 1 .. n, Good(m - 1)
      PROVE  Good(m)
  <2>1. PICK f \in [0 .. m - 1 -> S] : Runs(f, m - 1, base, step)
    BY <1>3
  <2> DEFINE g == [k \in 0 .. m |-> IF k = m THEN step[<<m, f[m - 1]>>] ELSE f[k]]
  <2>2. g \in [0 .. m -> S]
    <3>1. f[m - 1] \in S
      BY <2>1
    <3>2. step[<<m, f[m - 1]>>] \in S
      BY <3>1
    <3>3. \A k \in 0 .. m : k # m => f[k] \in S
      OBVIOUS
    <3> QED
      BY <3>2, <3>3
  <2>3. g[0] = base
    BY <2>1 DEF Runs
  <2>4. ASSUME NEW k \in 1 .. m
        PROVE  g[k] = step[<<k, g[k - 1]>>]
    <3>0. k - 1 \in 0 .. m /\ k - 1 # m /\ k \in 0 .. m
      OBVIOUS
    <3>1. g[k - 1] = f[k - 1]
      BY <3>0
    <3>2. CASE k = m
      <4>1. g[m] = step[<<m, f[m - 1]>>]
        BY <3>0, <3>2
      <4> QED
        BY <3>1, <3>2, <4>1
    <3>3. CASE k # m
      <4>1. k \in 1 .. m - 1
        BY <3>3
      <4>2. f[k] = step[<<k, f[k - 1]>>]
        BY <2>1, <4>1 DEF Runs
      <4>3. g[k] = f[k]
        BY <3>0, <3>3
      <4> QED
        BY <3>1, <4>2, <4>3
    <3> QED
      BY <3>2, <3>3
  <2>5. Runs(g, m, base, step)
    BY <2>3, <2>4 DEF Runs
  <2> QED
    BY <2>2, <2>5
<1>4. \A x \in B : \E y \in B : y < x
  <2> SUFFICES ASSUME NEW x \in B PROVE x - 1 \in B /\ x - 1 < x
    OBVIOUS
  <2>1. x # 0 /\ x \in 0 .. n /\ ~Good(x)
    BY <1>2
  <2>2. x \in 1 .. n /\ x - 1 \in 0 .. n
    BY <2>1
  <2>3. ~Good(x - 1)
    BY <1>3, <2>1, <2>2
  <2> QED
    BY <2>2, <2>3
<1>5. B = {}
  <2> HIDE DEF B
  <2> QED
    BY <1>1, <1>4, Descent
<1>6. Good(n)
  BY <1>5
<1> QED
  BY <1>6

\* Two runs of the same steps, one d numbers later, end alike.
RunsLater(g, n, d, base, step) ==
  g[d] = base /\ \A k \in 1 .. n : g[k + d] = step[<<k, g[k + d - 1]>>]

LEMMA SameRun ==
  ASSUME NEW n \in Nat, NEW d \in Nat, NEW f, NEW g, NEW base, NEW step,
         Runs(f, n, base, step), RunsLater(g, n, d, base, step)
  PROVE  f[n] = g[n + d]
<1> DEFINE B == {m \in 0 .. n : f[m] # g[m + d]}
<1>1. B \subseteq Nat
  OBVIOUS
<1>2. \A x \in B : \E y \in B : y < x
  <2> SUFFICES ASSUME NEW x \in B PROVE x - 1 \in B /\ x - 1 < x
    OBVIOUS
  <2>1. x # 0 /\ x \in 0 .. n /\ f[x] # g[x + d]
    BY DEF Runs, RunsLater
  <2>2. /\ x \in 1 .. n /\ x - 1 \in 0 .. n
        /\ (x - 1) + d = x + d - 1
    BY <2>1
  <2>3. f[x - 1] # g[x + d - 1]
    BY <2>1, <2>2 DEF Runs, RunsLater
  <2> QED
    BY <2>2, <2>3
<1>3. B = {}
  <2> HIDE DEF B
  <2> QED
    BY <1>1, <1>2, Descent
<1> QED
  BY <1>3
-----------------------------------------------------------------------------
Lines == Seq(Letters)

LEMMA EditedTyped ==
  ASSUME NEW line \in Lines, NEW key \in Keys
  PROVE  Edited(line, key) \in Lines
<1>1. CASE key = ENTER
  BY <1>1, EmptySeq DEF Edited, Lines
<1>2. CASE key # ENTER /\ key # BACKSPACE
  BY <1>2, AppendProperties DEF Edited, Lines, Letters
<1>3. CASE key # ENTER /\ key = BACKSPACE
  <2>1. Len(line) \in Nat /\ \A k \in 1 .. Len(line) : line[k] \in Letters
    BY LenProperties DEF Lines
  <2> DEFINE l == Len(line) - 1
  <2>2. l \in Int /\ \A k \in 1 .. l : line[k] \in Letters
    BY <2>1
  <2> HIDE DEF l
  <2>3. SubSeq(line, 1, l) \in Seq(Letters)
    BY <2>2, SubSeqProperties
  <2> QED
    BY <1>3, <2>3 DEF l, Edited, Lines
<1> QED
  BY <1>1, <1>2, <1>3

\* What Corrected computes, as a run of steps that does not leave the lines.
Editing(s) == [p \in (1 .. Len(s)) \X Lines |-> Edited(p[2], s[p[1]])]

LEMMA CorrectedRuns ==
  ASSUME NEW line \in Lines, NEW s \in Seq(Keys)
  PROVE  \E f \in [0 .. Len(s) -> Lines] :
           /\ Runs(f, Len(s), line, Editing(s))
           /\ \A k \in 1 .. Len(s) : f[k] = Edited(f[k - 1], s[k])
           /\ Corrected(line, s) = f[Len(s)]
<1> DEFINE n == Len(s)
           Is(f) == f = [k \in 0 .. n |-> IF k = 0 THEN line
                                          ELSE Edited(f[k - 1], s[k])]
           f0 == CHOOSE f : Is(f)
<1>1. n \in Nat /\ \A k \in 1 .. n : s[k] \in Keys
  BY LenProperties
<1>2. Editing(s) \in [(1 .. n) \X Lines -> Lines]
  BY <1>1, EditedTyped DEF Editing
<1>3. Corrected(line, s) = f0[n]
  BY DEF Corrected
<1> HIDE DEF n
<1>4. PICK f \in [0 .. n -> Lines] : Runs(f, n, line, Editing(s))
  BY <1>1, <1>2, Recursion
<1>5. ASSUME NEW g, \A k \in 1 .. n : g[k - 1] \in Lines
      PROVE  \A k \in 1 .. n :
               Editing(s)[<<k, g[k - 1]>>] = Edited(g[k - 1], s[k])
  BY <1>5 DEF Editing, n
<1>6. \A k \in 1 .. n : k - 1 \in 0 .. n
  BY <1>1
<1>7. \A k \in 1 .. n : f[k] = Edited(f[k - 1], s[k])
  BY <1>4, <1>5, <1>6 DEF Runs
<1>8. Is(f)
  BY <1>1, <1>4, <1>7 DEF Runs
<1>9. Is(f0)
  <2> HIDE DEF Is
  <2> QED
    BY <1>8
<1>10. \A k \in 0 .. n : f0[k] = IF k = 0 THEN line ELSE Edited(f0[k - 1], s[k])
  BY <1>9
<1>11. f0 = f
  <2> DEFINE B == {k \in 0 .. n : f0[k] # f[k]}
  <2>1. \A x \in B : \E y \in B : y < x
    <3> SUFFICES ASSUME NEW x \in B PROVE x - 1 \in B /\ x - 1 < x
      OBVIOUS
    <3>1. x # 0 /\ x \in 1 .. n /\ x - 1 \in 0 .. n
      BY <1>1, <1>4, <1>10 DEF Runs
    <3>2. f0[x] = Edited(f0[x - 1], s[x]) /\ f[x] = Edited(f[x - 1], s[x])
      BY <1>7, <1>10, <3>1
    <3> QED
      BY <3>1, <3>2
  <2>2. B \subseteq Nat
    BY <1>1
  <2> HIDE DEF B
  <2>3. B = {}
    BY <2>1, <2>2, Descent
  <2>4. \A k \in 0 .. n : f0[k] = f[k]
    BY <2>3 DEF B
  <2>5. f0 = [k \in 0 .. n |-> f0[k]]
    BY <1>9
  <2> HIDE DEF f0
  <2> QED
    BY <1>4, <2>4, <2>5
<1> QED
  BY <1>3, <1>4, <1>7, <1>11 DEF n

LEMMA CorrectedNone ==
  ASSUME NEW line \in Lines
  PROVE  Corrected(line, <<>>) = line
<1>1. <<>> \in Seq(Keys) /\ Len(<<>>) = 0
  BY EmptySeq
<1>2. PICK f \in [0 .. 0 -> Lines] :
        Runs(f, 0, line, Editing(<<>>)) /\ Corrected(line, <<>>) = f[0]
  BY <1>1, CorrectedRuns
<1> QED
  BY <1>2 DEF Runs

\* The last key corrects what the keys before it left.
LEMMA CorrectedLast ==
  ASSUME NEW line \in Lines, NEW s \in Seq(Keys), NEW c \in Keys
  PROVE  Corrected(line, Append(s, c)) = Edited(Corrected(line, s), c)
<1> DEFINE n == Len(s)
           t == Append(s, c)
           m == Len(t)
<1>1. /\ n \in Nat /\ t \in Seq(Keys) /\ m = n + 1
      /\ \A k \in 1 .. n : t[k] = s[k]
      /\ t[m] = c
  BY AppendProperties, LenProperties
<1>2. PICK f : /\ Runs(f, n, line, Editing(s))
               /\ f \in [0 .. n -> Lines]
               /\ \A k \in 1 .. n : f[k] = Edited(f[k - 1], s[k])
               /\ Corrected(line, s) = f[n]
  BY CorrectedRuns
<1>3. PICK g : /\ Runs(g, m, line, Editing(t))
               /\ g \in [0 .. m -> Lines]
               /\ \A k \in 1 .. m : g[k] = Edited(g[k - 1], t[k])
               /\ Corrected(line, t) = g[m]
  BY <1>1, CorrectedRuns
<1> HIDE DEF n, t, m
<1>4. ASSUME NEW k \in 1 .. n
      PROVE  g[k + 0] = Editing(s)[<<k, g[k + 0 - 1]>>]
  <2>1. /\ k \in 1 .. m /\ k - 1 \in 0 .. m
        /\ k + 0 = k /\ k + 0 - 1 = k - 1
    BY <1>1
  <2>2. g[k] = Edited(g[k - 1], s[k]) /\ g[k - 1] \in Lines
    BY <1>1, <1>3, <2>1
  <2>3. Editing(s)[<<k, g[k - 1]>>] = Edited(g[k - 1], s[k])
    BY <2>2 DEF Editing, n
  <2> QED
    BY <2>1, <2>2, <2>3
<1>5. RunsLater(g, n, 0, line, Editing(s))
  BY <1>3, <1>4 DEF Runs, RunsLater
<1>6. f[n] = g[n + 0]
  <2> DEFINE d == 0
             step == Editing(s)
  <2>1. n \in Nat /\ d \in Nat
    BY <1>1
  <2>2. Runs(f, n, line, step) /\ RunsLater(g, n, d, line, step)
    BY <1>2, <1>5
  <2> HIDE DEF d, step
  <2>3. f[n] = g[n + d]
    BY <2>1, <2>2, SameRun, Zenon
  <2> QED
    BY <2>3 DEF d
<1>7. m \in 1 .. m /\ m - 1 = n /\ n + 0 = n
  BY <1>1
<1>8. g[m] = Edited(g[n], c)
  BY <1>1, <1>3, <1>7
<1> QED
  BY <1>2, <1>3, <1>6, <1>7, <1>8 DEF t

\* Correcting with the first key, then with the others.
LEMMA CorrectedFirst ==
  ASSUME NEW line \in Lines, NEW s \in Seq(Keys), NEW c \in Keys
  PROVE  Corrected(line, <<c>> \o s) = Corrected(Edited(line, c), s)
<1> DEFINE n == Len(s)
           t == <<c>> \o s
           m == Len(t)
           u == Edited(line, c)
<1>1. /\ n \in Nat /\ t \in Seq(Keys) /\ m = n + 1
      /\ t[1] = c
      /\ \A k \in 1 .. n : t[k + 1] = s[k]
  <2>1. <<c>> \in Seq(Keys) /\ Len(<<c>>) = 1 /\ <<c>>[1] = c
    OBVIOUS
  <2>2. n \in Nat
    BY LenProperties
  <2>3. /\ t \in Seq(Keys) /\ Len(t) = Len(<<c>>) + n
        /\ \A k \in 1 .. Len(<<c>>) + n :
             t[k] = IF k <= Len(<<c>>) THEN <<c>>[k] ELSE s[k - Len(<<c>>)]
    BY <2>1, ConcatProperties
  <2> HIDE DEF t, n
  <2>4. t[1] = c
    BY <2>1, <2>2, <2>3
  <2>5. ASSUME NEW k \in 1 .. n PROVE t[k + 1] = s[k]
    <3> DEFINE j == k + 1
    <3>1. j \in 1 .. 1 + n /\ ~(j <= 1) /\ j - 1 = k
      BY <2>2
    <3> HIDE DEF j
    <3>2. t[j] = s[k]
      BY <2>1, <2>3, <3>1
    <3> QED
      BY <3>2 DEF j
  <2> QED
    BY <2>1, <2>2, <2>3, <2>4, <2>5
<1>2. u \in Lines
  BY EditedTyped
<1> HIDE DEF u
<1>3. PICK f : /\ Runs(f, n, u, Editing(s))
               /\ f \in [0 .. n -> Lines]
               /\ \A k \in 1 .. n : f[k] = Edited(f[k - 1], s[k])
               /\ Corrected(u, s) = f[n]
  BY <1>2, CorrectedRuns
<1>4. PICK g : /\ Runs(g, m, line, Editing(t))
               /\ g \in [0 .. m -> Lines]
               /\ \A k \in 1 .. m : g[k] = Edited(g[k - 1], t[k])
               /\ Corrected(line, t) = g[m]
  BY <1>1, CorrectedRuns
<1> HIDE DEF n, t, m
<1>5. ASSUME NEW k \in 1 .. n
      PROVE  g[k + 1] = Editing(s)[<<k, g[k + 1 - 1]>>]
  <2>1. k + 1 \in 1 .. m /\ k \in 0 .. m /\ k + 1 - 1 = k
    BY <1>1
  <2>2. g[k + 1] = Edited(g[k], s[k]) /\ g[k] \in Lines
    BY <1>1, <1>4, <2>1
  <2>3. Editing(s)[<<k, g[k]>>] = Edited(g[k], s[k])
    BY <2>2 DEF Editing, n
  <2> QED
    BY <2>1, <2>2, <2>3
<1>6. RunsLater(g, n, 1, u, Editing(s))
  <2>1. 1 \in 1 .. m /\ 1 - 1 = 0
    BY <1>1
  <2>2. g[1] = Edited(g[0], c) /\ g[0] = line
    BY <1>1, <1>4, <2>1 DEF Runs
  <2> QED
    BY <1>5, <2>2 DEF RunsLater, u
<1>7. f[n] = g[n + 1]
  <2> DEFINE d == 1
             step == Editing(s)
  <2>1. n \in Nat /\ d \in Nat
    BY <1>1
  <2>2. Runs(f, n, u, step) /\ RunsLater(g, n, d, u, step)
    BY <1>3, <1>6
  <2> HIDE DEF d, step
  <2>3. f[n] = g[n + d]
    BY <2>1, <2>2, SameRun, Zenon
  <2> QED
    BY <2>3 DEF d
<1> QED
  BY <1>1, <1>3, <1>4, <1>7 DEF t, u
-----------------------------------------------------------------------------
\* Row r begins at cell r * Width, and the cell at column c of it exists.
LEMMA Rows ==
  ASSUME NEW r \in 0 .. Height - 1
  PROVE  /\ r * Width \in Nat
         /\ (r + 1) * Width = r * Width + Width
         /\ (r - 1) * Width = r * Width - Width
         /\ r >= 1 => r * Width >= Width
         /\ r = Height - 1 => r * Width = Width * Height - Width
         /\ r * Width <= Width * Height - Width
<1> USE TerminalAssumption
<1>1. Width \in Nat /\ Height \in Nat /\ r \in Nat /\ Width * Height \in Nat
  OBVIOUS
<1>2. r * Width \in Nat
  BY <1>1
<1>3. /\ (r + 1) * Width = r * Width + Width
      /\ (r - 1) * Width = r * Width - Width
  BY <1>1
<1>4. r >= 1 => r * Width >= Width
  <2> DEFINE q == r - 1
  <2>1. r >= 1 => q \in Nat
    BY <1>1
  <2> HIDE DEF q
  <2>2. q \in Nat => q * Width >= 0
    BY <1>1
  <2>3. q * Width = r * Width - Width
    BY <1>3 DEF q
  <2> QED
    BY <1>1, <1>2, <2>1, <2>2, <2>3
<1>5. (Height - 1) * Width = Width * Height - Width
  BY <1>1
<1>6. r * Width <= (Height - 1) * Width
  <2> DEFINE q == (Height - 1) - r
  <2>1. q \in Nat
    BY <1>1
  <2>2. q * Width = (Height - 1) * Width - r * Width
    BY <1>1
  <2> HIDE DEF q
  <2>3. q * Width >= 0
    BY <1>1, <2>1
  <2> QED
    BY <1>1, <1>2, <1>5, <2>2, <2>3
<1> QED
  BY <1>2, <1>3, <1>4, <1>5, <1>6

Colour == Char \cup {Blank}

LEMMA ScreenIs ==
  ASSUME NEW t \in Screen
  PROVE  /\ t.cell \in [Place -> Colour]
         /\ t.row \in 0 .. Height - 1 /\ t.col \in 0 .. Width - 1
         /\ Cursor(t) = t.row * Width + t.col
         /\ Cursor(t) \in Place
<1>1. /\ t.cell \in [Place -> Colour]
      /\ t.row \in 0 .. Height - 1 /\ t.col \in 0 .. Width - 1
      /\ Cursor(t) = t.row * Width + t.col
  BY DEF Screen, Colour, Cursor
<1> DEFINE r == t.row
           w == r * Width
<1>2. w \in Nat /\ w <= Width * Height - Width
  BY <1>1, Rows
<1> HIDE DEF w
<1>3. w + t.col \in 0 .. Width * Height - 1
  BY <1>1, <1>2, TerminalAssumption
<1> QED
  BY <1>1, <1>3 DEF Place, w

\* A line end moves the cursor to the next row, or the rows under it.
LEMMA NewLineIs ==
  ASSUME NEW t, t \in [cell : [Place -> Colour], row : 0 .. Height - 1,
                       col : 0 .. Width]
  PROVE  /\ NewLine(t) \in Screen
         /\ \E shift \in {0, Width} :
              /\ Cursor(NewLine(t)) = t.row * Width + Width - shift
              /\ \A k \in Place : k + shift \in Place =>
                   NewLine(t).cell[k] = t.cell[k + shift]
<1> USE TerminalAssumption
<1> DEFINE u == NewLine(t)
<1>1. /\ t.cell \in [Place -> Colour]
      /\ t.row \in 0 .. Height - 1 /\ t.col \in 0 .. Width
      /\ 0 \in 0 .. Width - 1
  OBVIOUS
<1>2. CASE t.row = Height - 1
  <2> DEFINE cells == [k \in Place |-> IF k + Width \in Place
                                       THEN t.cell[k + Width] ELSE t.cell[k]]
  <2>1. u = [t EXCEPT !.col = 0, !.cell = cells]
    BY <1>2 DEF NewLine
  <2>2. cells \in [Place -> Colour]
    BY <1>1
  <2>3. \A k \in Place : k + Width \in Place => cells[k] = t.cell[k + Width]
    OBVIOUS
  <2> HIDE DEF cells
  <2>4. u.cell = cells /\ u.row = t.row /\ u.col = 0 /\ u \in Screen
    BY <1>1, <2>1, <2>2 DEF Screen, Colour
  <2> HIDE DEF u
  <2>5. Cursor(u) = t.row * Width + Width - Width
    <3>1. t.row * Width \in Nat
      BY <1>1, Rows
    <3> QED
      BY <2>4, <3>1 DEF Cursor
  <2> QED
    BY <2>3, <2>4, <2>5 DEF u
<1>3. CASE t.row # Height - 1
  <2> DEFINE r == t.row + 1
  <2>1. u = [t EXCEPT !.col = 0, !.row = r]
    BY <1>3 DEF NewLine
  <2>2. r \in 0 .. Height - 1 /\ r * Width = t.row * Width + Width
    BY <1>1, <1>3, Rows
  <2> HIDE DEF r
  <2>3. u.cell = t.cell /\ u.row = r /\ u.col = 0 /\ u \in Screen
    BY <1>1, <2>1, <2>2 DEF Screen, Colour
  <2> HIDE DEF u
  <2>4. Cursor(u) = t.row * Width + Width - 0
    <3>1. t.row * Width \in Nat
      BY <1>1, Rows
    <3> QED
      BY <2>2, <2>3, <3>1 DEF Cursor
  <2>5. \A k \in Place : k + 0 = k
    BY DEF Place
  <2>6. \A k \in Place : k + 0 \in Place => u.cell[k] = t.cell[k + 0]
    BY <2>3, <2>5
  <2> QED
    BY <2>3, <2>4, <2>6 DEF u
<1> QED
  BY <1>2, <1>3

\* A character goes to the cursor, which moves on by one cell, or all by
\* one cell less than a row.
LEMMA PutIs ==
  ASSUME NEW t \in Screen, NEW c \in Colour
  PROVE  /\ Put(t, c) \in Screen
         /\ \E shift \in {0, Width} :
              /\ Cursor(Put(t, c)) = Cursor(t) + 1 - shift
              /\ \A k \in Place : k + shift \in Place =>
                   Put(t, c).cell[k] = [t.cell EXCEPT ![Cursor(t)] = c][k + shift]
<1> USE TerminalAssumption
<1> DEFINE p == Cursor(t)
           cells == [t.cell EXCEPT ![p] = c]
           l == t.col + 1
           put == [t EXCEPT !.cell[p] = c, !.col = @ + 1]
           w == t.row * Width
<1>1. /\ t.cell \in [Place -> Colour]
      /\ t.row \in 0 .. Height - 1 /\ t.col \in 0 .. Width - 1
      /\ p = w + t.col /\ p \in Place
  BY ScreenIs
<1>2. w \in Nat /\ l \in 0 .. Width
  <2>1. w \in Nat
    BY <1>1, Rows
  <2>2. l \in 0 .. Width
    BY <1>1
  <2> QED
    BY <2>1, <2>2
<1>3. cells \in [Place -> Colour]
  BY <1>1
<1>4. put = [t EXCEPT !.cell = cells, !.col = l]
  OBVIOUS
<1> HIDE DEF cells, p
<1>5. /\ put.cell = cells /\ put.row = t.row /\ put.col = l
      /\ put \in [cell : [Place -> Colour], row : 0 .. Height - 1, col : 0 .. Width]
  BY <1>1, <1>2, <1>3, <1>4 DEF Screen
<1>6. Put(t, c) = IF put.col = Width THEN NewLine(put) ELSE put
  BY DEF Put, p
<1> HIDE DEF put, l
<1>7. CASE put.col = Width
  <2>1. Put(t, c) = NewLine(put) /\ t.col + 1 = Width
    BY <1>5, <1>6, <1>7 DEF l
  <2>2. PICK shift \in {0, Width} :
          /\ Cursor(NewLine(put)) = put.row * Width + Width - shift
          /\ \A k \in Place : k + shift \in Place =>
               NewLine(put).cell[k] = put.cell[k + shift]
    BY <1>5, NewLineIs
  <2>3. Put(t, c) \in Screen
    BY <1>5, <2>1, NewLineIs
  <2>4. Cursor(Put(t, c)) = p + 1 - shift
    <3>1. Cursor(Put(t, c)) = w + Width - shift
      BY <1>5, <2>1, <2>2
    <3> HIDE DEF w
    <3> QED
      BY <1>1, <1>2, <2>1, <2>2, <3>1
  <2>5. \A k \in Place : k + shift \in Place => Put(t, c).cell[k] = cells[k + shift]
    BY <1>5, <2>1, <2>2
  <2> QED
    BY <2>3, <2>4, <2>5 DEF p, cells
<1>8. CASE put.col # Width
  <2>1. Put(t, c) = put
    BY <1>6, <1>8
  <2>2. put \in Screen
    <3>1. put.col \in 0 .. Width - 1
      BY <1>2, <1>5, <1>8
    <3> QED
      BY <1>1, <1>3, <1>4, <1>5, <3>1 DEF Screen, Colour
  <2>3. Cursor(put) = p + 1 - 0
    <3>1. Cursor(put) = w + l
      BY <1>5 DEF Cursor
    <3> HIDE DEF w
    <3> QED
      BY <1>1, <1>2, <3>1 DEF l
  <2>4. \A k \in Place : k + 0 = k
    BY DEF Place
  <2>5. \A k \in Place : k + 0 \in Place => put.cell[k] = cells[k + 0]
    BY <1>5, <2>4
  <2> QED
    BY <2>1, <2>2, <2>3, <2>5 DEF p, cells
<1> QED
  BY <1>7, <1>8

\* A backspace moves the cursor back by one cell, over a row's start too,
\* and blanks that cell; only at the first cell it does nothing.
LEMMA BackSpaceIs ==
  ASSUME NEW t \in Screen
  PROVE  /\ BackSpace(t) \in Screen
         /\ Cursor(t) = 0 => BackSpace(t) = t
         /\ Cursor(t) # 0 =>
              /\ Cursor(BackSpace(t)) = Cursor(t) - 1
              /\ BackSpace(t).cell = [t.cell EXCEPT ![Cursor(t) - 1] = Blank]
<1> USE TerminalAssumption
<1> DEFINE p == Cursor(t)
           w == t.row * Width
<1>1. /\ t.cell \in [Place -> Colour]
      /\ t.row \in 0 .. Height - 1 /\ t.col \in 0 .. Width - 1
      /\ p = w + t.col /\ p \in Place
  BY ScreenIs
<1>2. w \in Nat
  BY <1>1, Rows
<1>3. t.row >= 1 => w >= Width
  BY <1>1, Rows
<1>4. t.row = 0 => w = 0
  BY <1>1
<1> HIDE DEF p
<1>5. p = 0 <=> t.col = 0 /\ t.row = 0
  <2> HIDE DEF w
  <2> QED
    BY <1>1, <1>2, <1>3, <1>4
<1>6. CASE p = 0
  BY <1>5, <1>6 DEF BackSpace, p
<1>7. ASSUME NEW u, u.cell = t.cell, u \in Screen, Cursor(u) = p - 1,
             BackSpace(t) = Erase(u), p # 0
      PROVE  /\ BackSpace(t) \in Screen
             /\ Cursor(BackSpace(t)) = p - 1
             /\ BackSpace(t).cell = [t.cell EXCEPT ![p - 1] = Blank]
  <2> DEFINE q == p - 1
             cells == [u.cell EXCEPT ![q] = Blank]
  <2>1. cells \in [Place -> Colour]
    BY <1>1, <1>7 DEF Colour
  <2>2. Erase(u) = [u EXCEPT !.cell = cells]
    <3> HIDE DEF q
    <3>1. Cursor(u) = q
      BY <1>7 DEF q
    <3> QED
      BY <3>1 DEF Erase
  <2> HIDE DEF cells
  <2>3. Erase(u) \in Screen /\ Erase(u).cell = cells
        /\ Erase(u).row = u.row /\ Erase(u).col = u.col
    BY <1>7, <2>1, <2>2 DEF Screen, Colour
  <2> QED
    BY <1>7, <2>3 DEF cells, Cursor
<1>8. CASE p # 0 /\ t.col = 0
  <2> DEFINE r == t.row - 1
             l == Width - 1
             u == [t EXCEPT !.row = r, !.col = l]
  <2>1. BackSpace(t) = Erase(u)
    BY <1>5, <1>8 DEF BackSpace
  <2>2. r \in 0 .. Height - 1 /\ l \in 0 .. Width - 1
    BY <1>1, <1>5, <1>8
  <2>3. r * Width = w - Width
    BY <1>1, Rows
  <2> HIDE DEF r, l
  <2>4. /\ u \in Screen /\ u.cell = t.cell
        /\ u.row = r /\ u.col = l
    BY <2>2 DEF Screen
  <2> HIDE DEF u
  <2>5. Cursor(u) = p - 1
    <3>1. Cursor(u) = w - Width + l
      BY <2>3, <2>4 DEF Cursor
    <3> HIDE DEF w
    <3> QED
      BY <1>1, <1>2, <1>8, <3>1 DEF l
  <2> QED
    BY <1>7, <1>8, <2>1, <2>4, <2>5 DEF p
<1>9. CASE p # 0 /\ t.col # 0
  <2> DEFINE l == t.col - 1
             u == [t EXCEPT !.col = l]
  <2>1. BackSpace(t) = Erase(u)
    BY <1>9 DEF BackSpace
  <2>2. l \in 0 .. Width - 1
    BY <1>1, <1>9
  <2> HIDE DEF l
  <2>4. u \in Screen /\ u.cell = t.cell /\ u.row = t.row /\ u.col = l
    BY <2>2 DEF Screen
  <2> HIDE DEF u
  <2>5. Cursor(u) = p - 1
    <3>1. Cursor(u) = w + l
      BY <2>4 DEF Cursor
    <3> HIDE DEF w
    <3> QED
      BY <1>1, <1>2, <3>1 DEF l
  <2> QED
    BY <1>7, <1>9, <2>1, <2>4, <2>5 DEF p
<1> QED
  BY <1>6, <1>8, <1>9 DEF p

LEMMA WriteTyped ==
  ASSUME NEW t \in Screen, NEW c \in Char
  PROVE  WriteChar(t, c) \in Screen
<1>1. c # NEWLINE
  BY ReadlineAssumption DEF Char, Echoed, NEWLINE
<1> QED
  BY <1>1, BackSpaceIs, PutIs DEF WriteChar, Colour

\* The screen shows line just before the cursor, if it fits there.
Shows(t, line) ==
  Len(line) <= Cursor(t) =>
    \A k \in 1 .. Len(line) : t.cell[Cursor(t) - Len(line) + k - 1] = line[k]

LEMMA ShowsLetter ==
  ASSUME NEW t \in Screen, NEW line \in Lines, NEW c \in Letters, Shows(t, line)
  PROVE  Shows(WriteChar(t, c), Append(line, c))
<1> USE TerminalAssumption
<1> DEFINE u == WriteChar(t, c)
           p == Cursor(t)
           q == Cursor(u)
           n == Len(line)
           more == Append(line, c)
           cells == [t.cell EXCEPT ![p] = c]
<1>1. /\ n \in Nat /\ Len(more) = n + 1 /\ more[n + 1] = c
      /\ \A k \in 1 .. n : more[k] = line[k]
  BY AppendProperties, LenProperties DEF Lines
<1>2. u = Put(t, c) /\ c \in Colour
  BY ReadlineAssumption
     DEF WriteChar, Colour, Char, Echoed, Letters, NEWLINE, BACKSPACE
<1>3. p \in Place /\ t.cell \in [Place -> Colour]
  BY ScreenIs
<1>4. PICK shift \in {0, Width} :
        /\ q = p + 1 - shift
        /\ \A k \in Place : k + shift \in Place => u.cell[k] = cells[k + shift]
  BY <1>2, PutIs
<1>5. cells \in [Place -> Colour] /\ cells[p] = c
      /\ \A k \in Place : k # p => cells[k] = t.cell[k]
  BY <1>2, <1>3
<1> HIDE DEF u, p, q, n, more, cells
<1>6. ASSUME n + 1 <= q, NEW k \in 1 .. n + 1
      PROVE  u.cell[q - (n + 1) + k - 1] = more[k]
  <2> DEFINE j == q - (n + 1) + k - 1
             x == j + shift
  <2>1. shift \in Nat /\ p \in Nat /\ q \in Int /\ n \in Nat
    BY <1>1, <1>3, <1>4 DEF Place
  <2>2. x = p - n + k - 1 /\ x <= p /\ j >= 0 /\ j <= x
    BY <1>4, <1>6, <2>1
  <2>3. p < Width * Height /\ Width * Height \in Nat
    BY <1>3 DEF Place
  <2>4. j \in Place /\ x \in Place
    BY <2>1, <2>2, <2>3 DEF Place
  <2> HIDE DEF j, x
  <2>5. u.cell[j] = cells[x]
    BY <1>4, <2>4 DEF x
  <2>6. CASE k = n + 1
    <3>1. x = p
      BY <2>1, <2>2, <2>6
    <3> QED
      BY <1>1, <1>5, <2>5, <2>6, <3>1 DEF j
  <2>7. CASE k # n + 1
    <3>1. k \in 1 .. n /\ x # p /\ n <= p
      BY <1>4, <1>6, <2>1, <2>2, <2>7
    <3>2. cells[x] = t.cell[p - n + k - 1]
      BY <1>5, <2>2, <2>4, <3>1
    <3>3. t.cell[p - n + k - 1] = line[k]
      BY <3>1 DEF Shows, p, n
    <3> QED
      BY <1>1, <2>5, <3>1, <3>2, <3>3 DEF j
  <2> QED
    BY <2>6, <2>7
<1> QED
  BY <1>1, <1>6 DEF Shows, u, q, more

LEMMA ShowsBackspace ==
  ASSUME NEW t \in Screen, NEW line \in Lines, Shows(t, line)
  PROVE  Shows(WriteChar(t, BACKSPACE), SubSeq(line, 1, Len(line) - 1))
<1> DEFINE u == WriteChar(t, BACKSPACE)
           p == Cursor(t)
           n == Len(line)
           m == n - 1
           less == SubSeq(line, 1, m)
<1>1. n \in Nat /\ \A k \in 1 .. n : line[k] \in Letters
  BY LenProperties DEF Lines
<1>2. m \in Int /\ m = n - 1
  BY <1>1
<1> HIDE DEF n, m
<1>3. \A k \in 1 .. m : line[k] \in Letters
  BY <1>1, <1>2
<1>4. /\ Len(less) = IF 1 <= m THEN m - 1 + 1 ELSE 0
      /\ \A k \in 1 .. m - 1 + 1 : less[k] = line[1 + k - 1]
  BY <1>2, <1>3, SubSeqProperties
<1>5. u = BackSpace(t)
  BY DEF WriteChar, NEWLINE, BACKSPACE
<1>6. p \in Nat /\ p \in Place /\ t.cell \in [Place -> Colour]
  BY ScreenIs DEF Place
<1> HIDE DEF p, u, less
<1>7. ASSUME Len(less) <= Cursor(u), NEW k \in 1 .. Len(less)
      PROVE  u.cell[Cursor(u) - Len(less) + k - 1] = less[k]
  <2>1. /\ Len(less) = m /\ k \in 1 .. m /\ less[k] = line[k]
        /\ k \in 1 .. n /\ 1 + k - 1 = k
    <3>1. 1 <= m
      BY <1>2, <1>4, <1>7
    <3>2. Len(less) = m /\ k \in 1 .. m /\ 1 + k - 1 = k /\ m - 1 + 1 = m
      BY <1>2, <1>4, <1>7, <3>1
    <3>3. less[k] = line[k]
      BY <1>4, <3>2
    <3> QED
      BY <1>1, <1>2, <3>2, <3>3
  <2>2. p # 0
    <3>1. p = 0 => u = t
      BY <1>5, BackSpaceIs DEF p
    <3> QED
      BY <1>2, <1>7, <2>1, <3>1 DEF p
  <2>3. Cursor(u) = p - 1 /\ u.cell = [t.cell EXCEPT ![p - 1] = Blank]
    BY <1>5, <2>2, BackSpaceIs DEF p
  <2> DEFINE j == p - n + k - 1
  <2>4. /\ p - 1 - m + k - 1 = j /\ j \in Int /\ j >= 0 /\ j < p - 1
        /\ n <= p
    BY <1>1, <1>2, <1>6, <1>7, <2>1, <2>3
  <2>5. j \in Place /\ p - 1 \in Place
    <3> DEFINE a == Width * Height
    <3>1. Place = 0 .. a - 1 /\ a \in Int
      BY TerminalAssumption DEF Place
    <3> HIDE DEF a, j
    <3>2. p \in 0 .. a - 1 /\ p - 1 \in Nat
      BY <1>6, <2>4, <3>1
    <3> QED
      BY <1>6, <2>4, <3>1, <3>2
  <2>6. t.cell[j] = line[k]
    BY <2>1, <2>4 DEF Shows, p, n
  <2> HIDE DEF j
  <2>7. u.cell[j] = t.cell[j]
    BY <1>6, <2>3, <2>4, <2>5
  <2> QED
    BY <2>1, <2>3, <2>4, <2>6, <2>7
<1>8. Shows(u, less)
  BY <1>7 DEF Shows
<1> QED
  BY <1>8 DEF u, less, m, n

\* print leaves a screen, whatever it prints.
LEMMA WrittenTyped ==
  ASSUME NEW t \in Screen, NEW s \in Seq(Char)
  PROVE  Written(t, s) \in Screen
<1> DEFINE n == Len(s)
           Is(f) == f = [k \in 0 .. n |-> IF k = 0 THEN t
                                          ELSE WriteChar(f[k - 1], s[k])]
           f0 == CHOOSE f : Is(f)
           step == [p \in (1 .. n) \X Screen |-> WriteChar(p[2], s[p[1]])]
<1>1. n \in Nat /\ \A k \in 1 .. n : s[k] \in Char
  BY LenProperties
<1>2. step \in [(1 .. n) \X Screen -> Screen]
  BY <1>1, WriteTyped
<1>3. Written(t, s) = f0[n]
  BY DEF Written
<1> HIDE DEF n
<1>4. ASSUME NEW k \in 1 .. n, NEW u \in Screen
      PROVE  step[<<k, u>>] = WriteChar(u, s[k])
  OBVIOUS
<1> HIDE DEF step
<1>5. PICK f \in [0 .. n -> Screen] : Runs(f, n, t, step)
  BY <1>1, <1>2, Recursion
<1>6. \A k \in 1 .. n : k - 1 \in 0 .. n
  BY <1>1
<1>7. \A k \in 1 .. n : f[k] = WriteChar(f[k - 1], s[k])
  BY <1>4, <1>5, <1>6 DEF Runs
<1>8. Is(f)
  BY <1>1, <1>5, <1>7 DEF Runs
<1>9. Is(f0)
  <2> HIDE DEF Is
  <2> QED
    BY <1>8
<1>10. \A k \in 0 .. n : f0[k] = IF k = 0 THEN t ELSE WriteChar(f0[k - 1], s[k])
  BY <1>9
<1>11. f0[n] \in Screen
  <2> DEFINE B == {k \in 0 .. n : f0[k] \notin Screen}
  <2>1. \A x \in B : \E y \in B : y < x
    <3> SUFFICES ASSUME NEW x \in B PROVE x - 1 \in B /\ x - 1 < x
      OBVIOUS
    <3>1. x # 0 /\ x \in 1 .. n /\ x - 1 \in 0 .. n
      BY <1>1, <1>10
    <3>2. f0[x] = WriteChar(f0[x - 1], s[x]) /\ s[x] \in Char
      BY <1>1, <1>10, <3>1
    <3>3. f0[x - 1] \notin Screen
      BY <3>2, WriteTyped
    <3> QED
      BY <3>1, <3>3
  <2>2. B \subseteq Nat
    BY <1>1
  <2> HIDE DEF B
  <2>3. B = {}
    BY <2>1, <2>2, Descent
  <2> HIDE DEF f0
  <2>4. n \in 0 .. n
    BY <1>1
  <2> QED
    BY <2>3, <2>4 DEF B
<1> QED
  BY <1>3, <1>11

\* print stops at the first zero.
LEMMA ShownIs ==
  ASSUME NEW s \in [Index -> Char], s[Size - 1] = NUL
  PROVE  \E e \in Index : /\ s[e] = NUL
                          /\ \A k \in 0 .. e - 1 : s[k] # NUL
                          /\ Shown(s) = [k \in 1 .. e |-> s[k - 1]]
                          /\ Shown(s) \in Seq(Char) /\ Len(Shown(s)) = e
<1> DEFINE ends == {k \in Index : s[k] = NUL}
           Least(k) == k \in ends /\ \A m \in ends : k <= m
           e == CHOOSE k \in ends : \A m \in ends : k <= m
<1>1. Size - 1 \in ends /\ ends \subseteq Nat
  BY ReadlineAssumption DEF Index
<1>2. \E k \in ends : \A m \in ends : k <= m
  <2> HIDE DEF ends
  <2> SUFFICES ASSUME \A k \in ends : \E m \in ends : ~(k <= m) PROVE FALSE
    OBVIOUS
  <2>1. \A k \in ends : \E m \in ends : m < k
    BY <1>1
  <2> QED
    BY <1>1, <2>1, Descent
<1>3. e \in ends /\ \A m \in ends : e <= m
  <2> HIDE DEF ends
  <2> QED
    BY <1>2
<1>4. Shown(s) = [k \in 1 .. e |-> s[k - 1]]
  BY <1>1 DEF Shown
<1> HIDE DEF e
<1>5. e \in Index /\ s[e] = NUL /\ \A k \in 0 .. e - 1 : s[k] # NUL
  <2>1. e \in Index /\ s[e] = NUL
    BY <1>3
  <2>2. ASSUME NEW k \in 0 .. e - 1 PROVE s[k] # NUL
    <3>1. k \in Index /\ ~(e <= k)
      BY <2>1, ReadlineAssumption DEF Index
    <3> QED
      BY <1>3, <3>1
  <2> QED
    BY <2>1, <2>2
<1>6. e \in Nat
  BY <1>5 DEF Index
<1>7. \A k \in 1 .. e : s[k - 1] \in Char
  <2>1. \A k \in 1 .. e : k - 1 \in Index
    BY <1>5, <1>6, ReadlineAssumption DEF Index
  <2> QED
    BY <2>1
<1>8. Shown(s) \in Seq(Char) /\ Len(Shown(s)) = e
  BY <1>4, <1>6, <1>7
<1> QED
  BY <1>4, <1>5, <1>8
-----------------------------------------------------------------------------
\* The line as it lies in the buffer, behind a stored backspace or not.
Lies(s, n, line) ==
  \E d \in {0, 1} :
    /\ n = Len(line) + d
    /\ d = 1 => s[0] = BACKSPACE
    /\ \A k \in 1 .. Len(line) : s[k - 1 + d] = line[k]

Reads(s, n, line) ==
  LET all == [k \in 1 .. n |-> s[k - 1]] IN
  all = line \/ (n > 0 /\ all = <<BACKSPACE>> \o line)

LEMMA AheadIs ==
  ASSUME NEW line \in Lines
  PROVE  /\ <<BACKSPACE>> \o line \in Seq(Char)
         /\ Len(<<BACKSPACE>> \o line) = Len(line) + 1
         /\ (<<BACKSPACE>> \o line)[1] = BACKSPACE
         /\ \A k \in 1 .. Len(line) : (<<BACKSPACE>> \o line)[k + 1] = line[k]
<1> DEFINE b == <<BACKSPACE>>
           n == Len(line)
           t == b \o line
<1>1. b \in Seq(Char) /\ Len(b) = 1 /\ b[1] = BACKSPACE
  BY ReadlineAssumption DEF Char, Echoed, BACKSPACE, ENTER
<1>2. line \in Seq(Char) /\ n \in Nat
  <2>1. Letters \subseteq Char
    BY DEF Letters, Char, Echoed
  <2> QED
    BY <2>1, SeqMonotonic, LenProperties DEF Lines
<1> HIDE DEF b
<1>3. /\ t \in Seq(Char) /\ Len(t) = Len(b) + n
      /\ \A k \in 1 .. Len(b) + n : t[k] = IF k <= Len(b) THEN b[k] ELSE line[k - Len(b)]
  BY <1>1, <1>2, ConcatProperties
<1> HIDE DEF t, n
<1>4. t[1] = BACKSPACE
  BY <1>1, <1>2, <1>3
<1>5. ASSUME NEW k \in 1 .. n PROVE t[k + 1] = line[k]
  <2> DEFINE j == k + 1
  <2>1. j \in 1 .. 1 + n /\ ~(j <= 1) /\ j - 1 = k
    BY <1>2
  <2> HIDE DEF j
  <2>2. t[j] = line[k]
    BY <1>1, <1>3, <2>1
  <2> QED
    BY <2>2 DEF j
<1> QED
  BY <1>1, <1>2, <1>3, <1>4, <1>5 DEF t, n, b

LEMMA LiesReads ==
  ASSUME NEW s \in [Index -> Char], NEW n \in Index, NEW line \in Lines
  PROVE  Lies(s, n, line) <=> Reads(s, n, line)
<1> DEFINE all == [k \in 1 .. n |-> s[k - 1]]
           ahead == <<BACKSPACE>> \o line
           l == Len(line)
<1>1. n \in Nat /\ l \in Nat /\ \A k \in 1 .. n : k - 1 \in Index
  BY LenProperties, ReadlineAssumption DEF Index, Lines
<1>2. all \in Seq(Char) /\ Len(all) = n /\ \A k \in 1 .. n : all[k] = s[k - 1]
  BY <1>1
<1>3. line \in Seq(Char)
  <2>1. Letters \subseteq Char
    BY DEF Letters, Char, Echoed
  <2> QED
    BY <2>1, SeqMonotonic DEF Lines
<1>4. /\ ahead \in Seq(Char) /\ Len(ahead) = l + 1 /\ ahead[1] = BACKSPACE
      /\ \A k \in 1 .. l : ahead[k + 1] = line[k]
  BY AheadIs
<1> HIDE DEF all, ahead, l
<1>5. ASSUME n = l, \A k \in 1 .. l : s[k - 1 + 0] = line[k]
      PROVE  all = line
  <2>1. \A k \in 1 .. n : all[k] = line[k]
    <3>1. \A k \in 1 .. n : k - 1 + 0 = k - 1
      BY <1>1
    <3> QED
      BY <1>2, <1>5, <3>1
  <2> QED
    BY <1>2, <1>3, <1>5, <2>1, SeqEqual DEF l
<1>6. ASSUME n = l + 1, s[0] = BACKSPACE, \A k \in 1 .. l : s[k - 1 + 1] = line[k]
      PROVE  n > 0 /\ all = ahead
  <2>1. ASSUME NEW k \in 1 .. n PROVE all[k] = ahead[k]
    <3>1. CASE k = 1
      BY <1>2, <1>4, <1>6, <3>1
    <3>2. CASE k # 1
      <4> DEFINE j == k - 1
      <4>1. j \in 1 .. l /\ j + 1 = k /\ j - 1 + 1 = k - 1
        BY <1>1, <1>6, <3>2
      <4> HIDE DEF j
      <4>2. s[k - 1] = line[j] /\ ahead[k] = line[j]
        BY <1>4, <1>6, <4>1
      <4> QED
        BY <1>2, <4>2
    <3> QED
      BY <3>1, <3>2
  <2> QED
    BY <1>1, <1>2, <1>4, <1>6, <2>1, SeqEqual
<1>7. ASSUME Lies(s, n, line) PROVE Reads(s, n, line)
  <2>1. PICK d \in {0, 1} :
          /\ n = l + d
          /\ d = 1 => s[0] = BACKSPACE
          /\ \A k \in 1 .. l : s[k - 1 + d] = line[k]
    BY <1>7 DEF Lies, l
  <2>2. CASE d = 0
    BY <1>1, <1>5, <2>1, <2>2 DEF Reads, all
  <2>3. CASE d = 1
    BY <1>6, <2>1, <2>3 DEF Reads, all, ahead
  <2> QED
    BY <2>1, <2>2, <2>3
<1>8. ASSUME all = line PROVE Lies(s, n, line)
  <2>1. n = l + 0
    BY <1>1, <1>2, <1>8 DEF l
  <2>2. \A k \in 1 .. l : s[k - 1 + 0] = line[k]
    <3>1. \A k \in 1 .. n : k - 1 + 0 = k - 1
      BY <1>1
    <3> QED
      BY <1>1, <1>2, <1>8, <2>1, <3>1
  <2> QED
    BY <2>1, <2>2 DEF Lies, l
<1>9. ASSUME all = ahead PROVE Lies(s, n, line)
  <2>1. n = l + 1
    BY <1>1, <1>2, <1>4, <1>9
  <2>2. s[0] = BACKSPACE
    <3>1. 1 \in 1 .. n /\ 1 - 1 = 0
      BY <1>1, <2>1
    <3>2. all[1] = s[1 - 1]
      BY <1>2, <3>1
    <3> QED
      BY <1>4, <1>9, <3>1, <3>2
  <2>3. ASSUME NEW k \in 1 .. l PROVE s[k - 1 + 1] = line[k]
    <3> DEFINE j == k + 1
    <3>1. j \in 1 .. n /\ j - 1 = k - 1 + 1
      BY <1>1, <2>1
    <3> HIDE DEF j
    <3>2. all[j] = s[j - 1]
      BY <1>2, <3>1
    <3>3. ahead[j] = line[k]
      BY <1>4 DEF j
    <3> QED
      BY <1>9, <3>1, <3>2, <3>3
  <2> QED
    BY <2>1, <2>2, <2>3 DEF Lies, l
<1> QED
  BY <1>7, <1>8, <1>9 DEF Reads, all, ahead
-----------------------------------------------------------------------------
\* The last byte at str is never anything but the end of a line.
LineInv ==
  /\ BufferHoldsLine /\ ScreenShowsLine /\ PrintsLine
  /\ str[Size - 1] = NUL

LEMMA LineInvIs ==
  /\ BufferHoldsLine <=> /\ ProgramTypeOK
                         /\ pc = "read" => Reads(str, i, typed)
  /\ ScreenShowsLine <=> (pc = "read" => Shows(term, typed))
  BY DEF BufferHoldsLine, ScreenShowsLine, Reads, Shows, Line

LEMMA ReadingIs ==
  ASSUME LineInv, pc = "read"
  PROVE  /\ ProgramTypeOK
         /\ Lies(str, i, typed)
         /\ Shows(term, typed)
         /\ str[Size - 1] = NUL
<1>1. ProgramTypeOK /\ Reads(str, i, typed) /\ Shows(term, typed)
  BY LineInvIs DEF LineInv
<1>2. str \in [Index -> Char] /\ i \in Index /\ typed \in Lines
  BY <1>1 DEF ProgramTypeOK, Lines
<1> QED
  BY <1>1, <1>2, LiesReads DEF LineInv

\* Back in the same form after a step.
LEMMA StillReading ==
  ASSUME ProgramTypeOK', pc' = "read", Lies(str', i', typed'),
         Shows(term', typed'), str'[Size - 1] = NUL
  PROVE  LineInv'
<1>1. str' \in [Index -> Char] /\ i' \in Index /\ typed' \in Lines
  BY DEF ProgramTypeOK, Lines
<1>2. Reads(str', i', typed')
  BY <1>1, LiesReads
<1>3. BufferHoldsLine' /\ ScreenShowsLine'
  BY <1>2 DEF BufferHoldsLine, ScreenShowsLine, Reads, Shows, Line
<1>4. PrintsLine'
  BY DEF PrintsLine
<1> QED
  BY <1>3, <1>4 DEF LineInv

LEMMA ProgramInitLine == ProgramInit => LineInv
<1> SUFFICES ASSUME ProgramInit PROVE LineInv
  OBVIOUS
<1> USE TerminalAssumption, ReadlineAssumption
<1>1. PICK r \in 1 .. Height - 1 : term = [Cleared EXCEPT !.row = r]
  BY DEF ProgramInit
<1>2. term \in Screen
  <2>1. [k \in Place |-> Blank] \in [Place -> Colour]
    BY DEF Colour
  <2>2. r \in 0 .. Height - 1 /\ 0 \in 0 .. Width - 1
    OBVIOUS
  <2>3. term = [cell |-> [k \in Place |-> Blank], row |-> r, col |-> 0]
    BY <1>1 DEF Cleared
  <2> QED
    BY <2>1, <2>2, <2>3 DEF Screen, Colour
<1>3. /\ str \in [Index -> Char] /\ str[Size - 1] = NUL
      /\ i = 0 /\ i \in Index /\ typed = <<>> /\ typed \in Lines
      /\ pc = "read"
  <2>1. Size - 1 \in Index /\ 0 \in Index /\ NUL \in Char
    BY DEF Index, Char
  <2>2. str = [k \in Index |-> NUL] /\ i = 0 /\ typed = <<>> /\ pc = "read"
    BY DEF ProgramInit
  <2> HIDE DEF NUL
  <2> QED
    BY <2>1, <2>2, EmptySeq DEF Lines
<1>4. ProgramTypeOK
  BY <1>2, <1>3 DEF ProgramTypeOK, Lines
<1>5. Len(typed) = 0
  BY <1>3, EmptySeq
<1>6. Lies(str, i, typed)
  BY <1>3, <1>5 DEF Lies
<1>7. Shows(term, typed)
  BY <1>5 DEF Shows
<1>8. Reads(str, i, typed)
  BY <1>3, <1>6, LiesReads
<1>9. PrintsLine
  BY <1>3 DEF PrintsLine
<1> QED
  BY <1>3, <1>4, <1>7, <1>8, <1>9, LineInvIs DEF LineInv

\* A key that is echoed changes line, buffer and screen alike.
LEMMA KeyKeeps ==
  ASSUME LineInv, NEW key \in Echoed, Key(key)
  PROVE  LineInv'
<1> USE ReadlineAssumption
<1> DEFINE l == Len(typed)
           more == Edited(typed, key)
           j == i - 1
           n == i + 1
<1>1. /\ pc = "read" /\ i < Size - 1 /\ pc' = "read"
      /\ term' = WriteChar(term, key) /\ typed' = more
      /\ key = BACKSPACE /\ i >= 1 =>
           str' = [str EXCEPT ![j] = NUL] /\ i' = j
      /\ ~(key = BACKSPACE /\ i >= 1) =>
           str' = [str EXCEPT ![i] = key] /\ i' = n
  BY DEF Key
<1>2. /\ term \in Screen /\ str \in [Index -> Char] /\ i \in Index
      /\ typed \in Lines
      /\ Shows(term, typed) /\ str[Size - 1] = NUL
  BY <1>1, ReadingIs DEF ProgramTypeOK, Lines
<1>3. PICK d \in {0, 1} :
        /\ i = l + d
        /\ d = 1 => str[0] = BACKSPACE
        /\ \A k \in 1 .. l : str[k - 1 + d] = typed[k]
  BY <1>1, ReadingIs DEF Lies
<1>4. i \in Nat /\ l \in Nat /\ n \in Index /\ (i >= 1 => j \in Index)
  BY <1>1, <1>2, LenProperties DEF Index, Lines
<1>5. key \in Char /\ key \in Keys /\ key # ENTER /\ NUL \in Char
  BY DEF Echoed, Char
<1>6. term' \in Screen
  BY <1>1, <1>2, <1>5, WriteTyped
<1>7. typed' \in Lines
  BY <1>1, <1>2, <1>5, EditedTyped
<1>8. key # BACKSPACE => /\ key \in Letters /\ more = Append(typed, key)
                         /\ Len(more) = l + 1 /\ more[l + 1] = key
                         /\ \A k \in 1 .. l : more[k] = typed[k]
  BY <1>2, <1>5, AppendProperties DEF Edited, Letters, Lines
<1>9. key = BACKSPACE => /\ more = SubSeq(typed, 1, l - 1)
                         /\ Len(more) = IF l = 0 THEN 0 ELSE l - 1
                         /\ \A k \in 1 .. l - 1 : more[k] = typed[k]
  <2>1. \A k \in 1 .. l : typed[k] \in Letters
    BY <1>2, LenProperties DEF Lines
  <2> DEFINE m == l - 1
             less == SubSeq(typed, 1, m)
  <2>2. m \in Int /\ \A k \in 1 .. m : typed[k] \in Letters
    BY <1>4, <2>1
  <2>3. key = BACKSPACE => more = less
    BY <1>5 DEF Edited
  <2> HIDE DEF m, l, more
  <2>4. /\ Len(less) = IF 1 <= m THEN m - 1 + 1 ELSE 0
        /\ \A k \in 1 .. m - 1 + 1 : less[k] = typed[1 + k - 1]
    BY <2>2, SubSeqProperties
  <2>5. m - 1 + 1 = m /\ (1 <= m <=> l # 0 /\ m # 0) /\ m = l - 1
    BY <1>4 DEF m
  <2>6. \A k \in 1 .. m : 1 + k - 1 = k
    BY <2>2
  <2> HIDE DEF less
  <2> QED
    BY <1>4, <2>3, <2>4, <2>5, <2>6 DEF m, less
<1>10. Shows(term', typed')
  <2>1. CASE key = BACKSPACE
    BY <1>1, <1>2, <1>9, <2>1, ShowsBackspace
  <2>2. CASE key # BACKSPACE
    BY <1>1, <1>2, <1>8, <2>2, ShowsLetter
  <2> QED
    BY <2>1, <2>2
<1> HIDE DEF l, more
<1>11. CASE key = BACKSPACE /\ i >= 1
  <2>1. /\ str' = [str EXCEPT ![j] = NUL] /\ i' = j /\ typed' = more
        /\ j \in Index /\ j # Size - 1 /\ NUL \in Char
    BY <1>1, <1>4, <1>5, <1>11
  <2> HIDE DEF NUL
  <2>2. str' \in [Index -> Char] /\ \A k \in Index : k # j => str'[k] = str[k]
    BY <1>2, <2>1
  <2>3. str'[Size - 1] = NUL
    BY <1>2, <2>1, <2>2 DEF Index
  <2>4. CASE l = 0
    <3>1. Len(more) = 0 /\ j = 0
      BY <1>3, <1>4, <1>9, <1>11, <2>4
    <3> QED
      BY <1>1, <1>6, <1>7, <1>10, <2>1, <2>2, <2>3, <3>1, StillReading
         DEF Lies, ProgramTypeOK, Lines
  <2>5. CASE l # 0
    <3>1. Len(more) = l - 1 /\ j = (l - 1) + d
      BY <1>3, <1>4, <1>9, <1>11, <2>5
    <3>2. d = 1 => str'[0] = BACKSPACE
      <4>1. d = 1 => 0 \in Index /\ 0 # j
        BY <1>4, <2>5, <3>1 DEF Index
      <4> QED
        BY <1>3, <2>2, <4>1
    <3>3. ASSUME NEW k \in 1 .. l - 1 PROVE str'[k - 1 + d] = more[k]
      <4>1. k \in 1 .. l /\ k - 1 + d \in Index /\ k - 1 + d # j
        BY <1>2, <1>3, <1>4, <3>1 DEF Index
      <4> QED
        BY <1>3, <1>9, <1>11, <2>2, <4>1
    <3> QED
      BY <1>1, <1>6, <1>7, <1>10, <2>1, <2>2, <2>3, <3>1, <3>2, <3>3, StillReading
         DEF Lies, ProgramTypeOK, Lines
  <2> QED
    BY <2>4, <2>5
<1>12. CASE ~(key = BACKSPACE /\ i >= 1)
  <2>1. str' = [str EXCEPT ![i] = key] /\ i' = n /\ typed' = more
    BY <1>1, <1>12
  <2>2. /\ str' \in [Index -> Char] /\ str'[i] = key
        /\ \A k \in Index : k # i => str'[k] = str[k]
    BY <1>2, <1>5, <2>1
  <2>3. str'[Size - 1] = NUL
    <3>1. Size - 1 \in Index /\ Size - 1 # i
      BY <1>1, <1>2 DEF Index
    <3> QED
      BY <1>2, <2>2, <3>1
  <2>4. CASE key = BACKSPACE
    <3>1. i = 0 /\ l = 0 /\ Len(more) = 0 /\ n = 0 + 1
      BY <1>3, <1>4, <1>9, <1>12, <2>4
    <3>2. str'[0] = BACKSPACE
      BY <2>2, <2>4, <3>1
    <3> QED
      BY <1>1, <1>4, <1>6, <1>7, <1>10, <2>1, <2>2, <2>3, <3>1, <3>2, StillReading
         DEF Lies, ProgramTypeOK, Lines
  <2>5. CASE key # BACKSPACE
    <3>1. Len(more) = l + 1 /\ n = (l + 1) + d
      BY <1>3, <1>4, <1>8, <2>5
    <3>2. d = 1 => str'[0] = BACKSPACE
      <4>1. d = 1 => 0 \in Index /\ 0 # i
        BY <1>3, <1>4 DEF Index
      <4> QED
        BY <1>3, <2>2, <4>1
    <3>3. ASSUME NEW k \in 1 .. l + 1 PROVE str'[k - 1 + d] = more[k]
      <4>1. CASE k = l + 1
        <5>1. k - 1 + d = i
          BY <1>3, <1>4, <4>1
        <5> QED
          BY <1>8, <2>2, <2>5, <4>1, <5>1
      <4>2. CASE k # l + 1
        <5>1. k \in 1 .. l /\ k - 1 + d \in Index /\ k - 1 + d # i
          BY <1>2, <1>3, <1>4, <4>2 DEF Index
        <5> QED
          BY <1>3, <1>8, <2>2, <2>5, <5>1
      <4> QED
        BY <4>1, <4>2
    <3> QED
      BY <1>1, <1>4, <1>6, <1>7, <1>10, <2>1, <2>2, <2>3, <3>1, <3>2, <3>3, StillReading
         DEF Lies, ProgramTypeOK, Lines
  <2> QED
    BY <2>4, <2>5
<1> QED
  BY <1>11, <1>12

\* Stored at the end of a line is what its buffer holds.
LEMMA StoredIs ==
  ASSUME LineInv, pc = "read"
  PROVE  /\ Stored \in Seq(Char) /\ Len(Stored) = i
         /\ \A k \in 1 .. i : Stored[k] = str[k - 1] /\ str[k - 1] # NUL
<1> USE ReadlineAssumption
<1> DEFINE l == Len(typed)
           ahead == <<BACKSPACE>> \o typed
<1>1. /\ str \in [Index -> Char] /\ i \in Index /\ typed \in Lines
      /\ Lies(str, i, typed)
  BY ReadingIs DEF ProgramTypeOK, Lines
<1>2. PICK d \in {0, 1} :
        /\ i = l + d
        /\ d = 1 => str[0] = BACKSPACE
        /\ \A k \in 1 .. l : str[k - 1 + d] = typed[k]
  BY <1>1 DEF Lies
<1>3. l \in Nat /\ \A k \in 1 .. l : typed[k] \in Letters
  BY <1>1, LenProperties DEF Lines
<1>4. typed \in Seq(Char)
  <2>1. Letters \subseteq Char
    BY DEF Letters, Char, Echoed
  <2> QED
    BY <1>1, <2>1, SeqMonotonic DEF Lines
<1>5. NUL \notin Letters /\ NUL # BACKSPACE
  BY KeyboardAssumption DEF Letters, NUL
<1>6. /\ ahead \in Seq(Char) /\ Len(ahead) = l + 1 /\ ahead[1] = BACKSPACE
      /\ \A k \in 1 .. l : ahead[k + 1] = typed[k]
  BY <1>1, AheadIs
<1>7. Stored = IF i = l THEN typed ELSE ahead
  BY DEF Stored
<1> HIDE DEF l, ahead
<1>8. CASE d = 0
  <2>1. Stored = typed /\ i = l
    BY <1>2, <1>3, <1>7, <1>8
  <2>2. ASSUME NEW k \in 1 .. i PROVE typed[k] = str[k - 1]
    <3>1. k - 1 + 0 = k - 1
      BY <1>3, <2>1
    <3> QED
      BY <1>2, <1>8, <2>1, <3>1
  <2> QED
    BY <1>3, <1>4, <1>5, <2>1, <2>2 DEF l
<1>9. CASE d = 1
  <2>1. Stored = ahead /\ i = l + 1
    BY <1>2, <1>3, <1>7, <1>9
  <2>2. ASSUME NEW k \in 1 .. i
        PROVE  ahead[k] = str[k - 1] /\ str[k - 1] # NUL
    <3>1. CASE k = 1
      BY <1>2, <1>5, <1>6, <1>9, <3>1
    <3>2. CASE k # 1
      <4> DEFINE j == k - 1
      <4>1. j \in 1 .. l /\ j + 1 = k /\ j - 1 + 1 = k - 1
        BY <1>3, <2>1, <3>2
      <4> HIDE DEF j
      <4>2. ahead[k] = typed[j] /\ str[k - 1] = typed[j]
        BY <1>2, <1>6, <1>9, <4>1
      <4> QED
        BY <1>3, <1>5, <4>1, <4>2
    <3> QED
      BY <3>1, <3>2
  <2> QED
    BY <1>6, <2>1, <2>2
<1> QED
  BY <1>2, <1>8, <1>9

\* What is printed of a line of n bytes with its end and its mark.
Ended(old, n) == [old EXCEPT ![n] = NUL, ![Mark] = "#"]
PrintsRight(s, line, n) ==
  /\ Len(s) < Size
  /\ n < Mark => s = line
  /\ n = Mark => Len(s) > Mark /\ SubSeq(s, 1, Mark + 1) = Append(line, "#")
  /\ n > Mark => s = [line EXCEPT ![Mark + 1] = "#"]

LEMMA PrintedIs ==
  ASSUME NEW old \in [Index -> Char], NEW n \in Index, NEW line \in Seq(Char),
         Len(line) = n, old[Size - 1] = NUL,
         \A k \in 1 .. n : line[k] = old[k - 1] /\ old[k - 1] # NUL
  PROVE  /\ Ended(old, n) \in [Index -> Char] /\ Ended(old, n)[Size - 1] = NUL
         /\ PrintsRight(Shown(Ended(old, n)), line, n)
<1> USE ReadlineAssumption
<1> DEFINE new == Ended(old, n)
           s == Shown(new)
<1>1. /\ n \in Nat /\ Mark \in Index /\ Size - 1 \in Index /\ Size - 1 # Mark
      /\ NUL \in Char /\ "#" \in Char /\ "#" # NUL
  BY DEF Index, Char
<1>2. /\ new \in [Index -> Char] /\ new[Mark] = "#"
      /\ n # Mark => new[n] = NUL
      /\ \A k \in Index : k # n /\ k # Mark => new[k] = old[k]
  <2> HIDE DEF NUL
  <2> QED
    BY <1>1 DEF Ended
<1>3. new[Size - 1] = NUL
  BY <1>1, <1>2
<1> HIDE DEF new
<1>4. PICK e \in Index : /\ new[e] = NUL
                         /\ \A k \in 0 .. e - 1 : new[k] # NUL
                         /\ s = [k \in 1 .. e |-> new[k - 1]]
                         /\ s \in Seq(Char) /\ Len(s) = e
  BY <1>2, <1>3, ShownIs
<1>5. e \in Nat /\ e < Size
  BY DEF Index
<1>6. \A k \in 0 .. n - 1 : /\ k + 1 \in 1 .. n /\ k \in Index
                            /\ old[k] = line[k + 1] /\ old[k] # NUL
  <2> SUFFICES ASSUME NEW k \in 0 .. n - 1
               PROVE  /\ k + 1 \in 1 .. n /\ k \in Index
                      /\ old[k] = line[k + 1] /\ old[k] # NUL
    OBVIOUS
  <2> DEFINE j == k + 1
  <2>1. j \in 1 .. n /\ j - 1 = k /\ k \in Index
    BY <1>1 DEF Index
  <2> HIDE DEF j
  <2>2. line[j] = old[j - 1] /\ old[j - 1] # NUL
    BY <2>1
  <2> QED
    BY <2>1, <2>2 DEF j
<1>7. e >= n
  <2>1. CASE e < n
    <3>1. e \in 0 .. n - 1
      BY <1>1, <1>5, <2>1
    <3> QED
      BY <1>1, <1>2, <1>4, <1>6, <3>1
  <2> QED
    BY <1>1, <1>5, <2>1
<1>8. CASE n # Mark
  <2>1. e = n
    <3>1. CASE e > n
      <4>1. n \in 0 .. e - 1
        BY <1>1, <1>5, <3>1
      <4> QED
        BY <1>2, <1>4, <1>8, <4>1
    <3> QED
      BY <1>1, <1>5, <1>7, <3>1
  <2>2. ASSUME NEW k \in 1 .. n
        PROVE  s[k] = IF k = Mark + 1 THEN "#" ELSE line[k]
    <3> DEFINE j == k - 1
    <3>1. j \in 0 .. n - 1 /\ j + 1 = k /\ j \in Index /\ j # n
          /\ (j = Mark <=> k = Mark + 1)
      BY <1>1 DEF Index
    <3>2. s[k] = new[j]
      BY <1>4, <2>1
    <3> HIDE DEF j
    <3>3. old[j] = line[k]
      BY <1>6, <3>1
    <3> QED
      BY <1>2, <3>1, <3>2, <3>3
  <2>3. CASE n < Mark
    <3>1. \A k \in 1 .. n : s[k] = line[k]
      <4>1. \A k \in 1 .. n : k # Mark + 1
        BY <1>1, <2>3
      <4> QED
        BY <2>2, <4>1
    <3>2. s = line
      <4> HIDE DEF s
      <4> QED
        BY <1>4, <2>1, <3>1, SeqEqual
    <3>3. Len(s) < Size /\ n # Mark /\ ~(n > Mark)
      BY <1>1, <1>4, <1>5, <2>3
    <3> HIDE DEF s
    <3>4. PrintsRight(s, line, n)
      BY <3>2, <3>3, Zenon DEF PrintsRight
    <3> QED
      BY <1>2, <1>3, <3>4 DEF new, s
  <2>4. CASE n > Mark
    <3> DEFINE m == Mark + 1
               marked == [line EXCEPT ![m] = "#"]
    <3>1. m \in 1 .. Len(line) /\ "#" \in Char
      BY <1>1, <2>4
    <3> HIDE DEF m
    <3>2. /\ marked \in Seq(Char) /\ Len(marked) = n
          /\ \A k \in 1 .. n : marked[k] = IF k = m THEN "#" ELSE line[k]
      BY <3>1, ExceptSeq
    <3>3. s = marked
      <4> HIDE DEF s, marked
      <4>1. \A k \in 1 .. Len(s) : s[k] = marked[k]
        BY <1>4, <2>1, <2>2, <3>2 DEF m
      <4> QED
        BY <1>4, <2>1, <3>2, <4>1, SeqEqual
    <3>4. s = [line EXCEPT ![Mark + 1] = "#"]
      BY <3>3 DEF m
    <3>5. ~(n < Mark) /\ n # Mark /\ Len(s) < Size
      BY <1>1, <1>4, <1>5, <2>4
    <3> HIDE DEF s
    <3>6. PrintsRight(s, line, n)
      BY <3>4, <3>5, Zenon DEF PrintsRight
    <3> QED
      BY <1>2, <1>3, <3>6 DEF new, s
  <2> QED
    BY <1>1, <1>8, <2>3, <2>4
<1>9. CASE n = Mark
  <2>1. e > Mark
    BY <1>1, <1>2, <1>4, <1>5, <1>7, <1>9
  <2> DEFINE m == Mark + 1
             start == SubSeq(s, 1, m)
             more == Append(line, "#")
  <2>2. m \in Int /\ m = Mark + 1 /\ 1 <= m /\ m <= e
    BY <1>5, <2>1
  <2> HIDE DEF m, s
  <2>3. \A k \in 1 .. m : s[k] \in Char
    <3>1. \A k \in 1 .. Len(s) : s[k] \in Char
      BY <1>4, LenProperties
    <3> QED
      BY <1>4, <1>5, <2>2, <3>1
  <2>4. /\ start \in Seq(Char) /\ Len(start) = m - 1 + 1
        /\ \A k \in 1 .. m - 1 + 1 : start[k] = s[1 + k - 1]
    BY <2>2, <2>3, SubSeqProperties
  <2>5. /\ more \in Seq(Char) /\ Len(more) = n + 1 /\ more[n + 1] = "#"
        /\ \A k \in 1 .. n : more[k] = line[k]
    BY <1>1, AppendProperties
  <2> HIDE DEF start, more
  <2>6. ASSUME NEW k \in 1 .. m PROVE start[k] = more[k]
    <3> DEFINE j == k - 1
    <3>1. /\ k \in 1 .. m - 1 + 1 /\ 1 + k - 1 = k /\ k \in 1 .. e
          /\ j \in 0 .. n /\ j + 1 = k /\ j \in Index
      BY <1>1, <1>5, <1>9, <2>2 DEF Index
    <3>2. start[k] = s[k]
      BY <2>4, <3>1
    <3>3. s[k] = new[j]
      BY <1>4, <3>1 DEF s
    <3> HIDE DEF j
    <3>4. CASE j = n
      BY <1>2, <1>9, <2>5, <3>1, <3>2, <3>3, <3>4
    <3>5. CASE j # n
      <4>1. j \in 0 .. n - 1 /\ j # Mark /\ k \in 1 .. n
        BY <1>1, <1>9, <3>1, <3>5
      <4>2. new[j] = line[k] /\ more[k] = line[k]
        BY <1>2, <1>6, <2>5, <3>1, <3>5, <4>1
      <4> QED
        BY <3>2, <3>3, <4>2
    <3> QED
      BY <3>4, <3>5
  <2>7. start = more
    <3>1. Len(start) = m /\ Len(more) = m
      BY <1>9, <2>2, <2>4, <2>5
    <3> QED
      BY <2>4, <2>5, <2>6, <3>1, SeqEqual
  <2>8. SubSeq(s, 1, Mark + 1) = Append(line, "#")
    BY <2>7 DEF start, more, m
  <2>9. ~(n < Mark) /\ ~(n > Mark) /\ Len(s) < Size /\ Len(s) > Mark
    BY <1>1, <1>4, <1>5, <1>9, <2>1 DEF s
  <2>10. PrintsRight(s, line, n)
    BY <2>8, <2>9, Zenon DEF PrintsRight
  <2> QED
    BY <1>2, <1>3, <2>10 DEF new, s
<1> QED
  BY <1>8, <1>9

LEMMA EndLineKeeps ==
  ASSUME LineInv, EndLine
  PROVE  LineInv'
<1> USE ReadlineAssumption
<1> DEFINE new == Ended(str, i)
           s == Shown(new)
           st == Stored
<1>1. /\ pc = "read" /\ pc' = "print" /\ str' = new
      /\ term' = term /\ i' = i /\ typed' = typed
  BY DEF EndLine, Ended
<1>2. /\ ProgramTypeOK /\ str[Size - 1] = NUL
      /\ str \in [Index -> Char] /\ i \in Index
  BY <1>1, ReadingIs DEF ProgramTypeOK
<1>3. /\ st \in Seq(Char) /\ Len(st) = i
      /\ \A k \in 1 .. i : st[k] = str[k - 1] /\ str[k - 1] # NUL
  BY <1>1, StoredIs
<1>4. /\ new \in [Index -> Char] /\ new[Size - 1] = NUL
      /\ PrintsRight(s, st, i)
  <2> HIDE DEF st
  <2> QED
    BY <1>2, <1>3, PrintedIs, Zenon
<1>5. Stored' = st
  BY <1>1 DEF Stored
<1>6. Shown(str') = s
  BY <1>1
<1> HIDE DEF s, new, st
<1>7. PrintsLine'
  BY <1>3, <1>4, <1>5, <1>6 DEF PrintsLine, PrintsRight
<1>8. ProgramTypeOK'
  BY <1>1, <1>2, <1>4 DEF ProgramTypeOK
<1>9. BufferHoldsLine' /\ ScreenShowsLine' /\ str'[Size - 1] = NUL
  BY <1>1, <1>4, <1>8 DEF BufferHoldsLine, ScreenShowsLine
<1> QED
  BY <1>7, <1>9 DEF LineInv

LEMMA PrintLineKeeps ==
  ASSUME LineInv, PrintLine
  PROVE  LineInv'
<1>1. /\ ProgramTypeOK /\ str[Size - 1] = NUL
      /\ str \in [Index -> Char] /\ term \in Screen
  BY LineInvIs DEF LineInv, ProgramTypeOK
<1>2. /\ term' = Written(term, Shown(str)) /\ i' = 0 /\ typed' = <<>>
      /\ pc' = "read" /\ str' = str
  BY DEF PrintLine
<1>3. Shown(str) \in Seq(Char)
  BY <1>1, ShownIs
<1>4. term' \in Screen
  BY <1>1, <1>2, <1>3, WrittenTyped
<1>5. typed' \in Seq(Letters) /\ Len(typed') = 0
  BY <1>2, EmptySeq
<1>6. i' \in Index
  BY <1>2, ReadlineAssumption DEF Index
<1>7. ProgramTypeOK'
  BY <1>1, <1>2, <1>4, <1>5, <1>6 DEF ProgramTypeOK
<1>8. Lies(str', i', typed') /\ Shows(term', typed')
  BY <1>2, <1>5 DEF Lies, Shows
<1> QED
  BY <1>1, <1>2, <1>7, <1>8, StillReading

LEMMA StutterKeeps ==
  ASSUME LineInv, UNCHANGED program
  PROVE  LineInv'
<1>1. /\ term' = term /\ str' = str /\ i' = i /\ typed' = typed /\ pc' = pc
  BY DEF program
<1>2. BufferHoldsLine' /\ ScreenShowsLine' /\ str'[Size - 1] = NUL
  BY <1>1 DEF LineInv, BufferHoldsLine, ProgramTypeOK, ScreenShowsLine, Line
<1>3. PrintsLine'
  BY <1>1 DEF LineInv, PrintsLine, Stored
<1> QED
  BY <1>2, <1>3 DEF LineInv
-----------------------------------------------------------------------------
\* The console as a whole: the keyboard's invariant, the program's, and
\* that the line meant is a line that arrives.
Base == IF pc = "read" THEN typed ELSE <<>>

ConsoleInv ==
  /\ FInv /\ LineInv
  /\ meant \in Lines /\ cut \in BOOLEAN
  /\ MeantArrives

\* Where nothing was lost, what waits are keys.
LEMMA WaitingKeys ==
  ASSUME FInv, lost = 0
  PROVE  Waiting \in Seq(Keys)
<1>1. TypeOK
  BY DEF FInv, IInv
<1>2. Lag \in Nat
  BY <1>1, TailCell
<1>3. Waiting \in [1 .. Lag -> Keys \cup {NoKey}]
  BY <1>1, WaitingTyped
<1>4. \A k \in 1 .. Lag : Waiting[k] # NoKey
  BY DEF FInv, Lined, Waiting
<1>5. Waiting \in [1 .. Lag -> Keys]
  BY <1>3, <1>4
<1> QED
  BY <1>2, <1>5

LEMMA UnreadKeys ==
  ASSUME FInv, lost = 0
  PROVE  /\ Unread \in Seq(Keys)
         /\ answer = NoKey => Unread = Waiting
         /\ answer # NoKey => answer \in Keys /\ Unread = <<answer>> \o Waiting
<1>1. Waiting \in Seq(Keys)
  BY WaitingKeys
<1>2. answer \in Keys \cup {NoKey}
  BY DEF FInv, IInv, TypeOK
<1>3. CASE answer = NoKey
  <2>1. Unread = <<>> \o Waiting
    BY <1>3 DEF Unread
  <2>2. <<>> \o Waiting = Waiting
    BY <1>1, ConcatEmptySeq
  <2> QED
    BY <1>1, <1>3, <2>1, <2>2
<1>4. CASE answer # NoKey
  <2>1. Unread = <<answer>> \o Waiting /\ answer \in Keys
    BY <1>2, <1>4 DEF Unread
  <2>2. <<answer>> \in Seq(Keys)
    BY <2>1
  <2>3. <<answer>> \o Waiting \in Seq(Keys)
    BY <1>1, <2>2, ConcatProperties
  <2> QED
    BY <1>4, <2>1, <2>3
<1> QED
  BY <1>3, <1>4

\* The program takes over the key getkey answered; the buffer stays.
LEMMA TakenInv ==
  ASSUME FInv, UNCHANGED keyboard, answer' \in {answer, NoKey}
  PROVE  /\ FInv' /\ Waiting' = Waiting /\ lost' = lost
<1>1. /\ buffer' = buffer /\ head' = head /\ tail' = tail /\ lost' = lost
  BY DEF keyboard
<1>2. TypeOK /\ LagCountsLosses /\ Lined
  BY DEF FInv, IInv
<1>3. TypeOK'
  BY <1>1, <1>2 DEF TypeOK
<1>4. Lag' = Lag /\ Filled' = Filled /\ Waiting' = Waiting
  BY <1>1 DEF Lag, Filled, Waiting
<1>5. LagCountsLosses' /\ Lined'
  BY <1>1, <1>2, <1>4 DEF LagCountsLosses, Lined
<1> QED
  BY <1>1, <1>3, <1>4, <1>5 DEF FInv, IInv

LEMMA BaseLine ==
  ASSUME LineInv
  PROVE  Base \in Lines
<1>1. typed \in Lines
  BY LineInvIs DEF LineInv, ProgramTypeOK, Lines
<1> QED
  BY <1>1, EmptySeq DEF Base, Lines

LEMMA MeantIs ==
  MeantArrives <=> (lost = 0 /\ ~cut => Corrected(Base, Unread) = meant)
  BY DEF MeantArrives, Base

LEMMA HeadTailAgain ==
  ASSUME NEW S, NEW s \in Seq(S), s # <<>>
  PROVE  <<Head(s)>> \o Tail(s) = s
<1> DEFINE n == Len(s)
<1>1. 1 \in 1 .. n /\ n \in 1 .. n
  BY EmptySeq
<1>2. SubSeq(s, 1, n) = <<s[1]>> \o SubSeq(s, 1 + 1, n)
  BY <1>1, SubSeqRecursiveFirst
<1>3. SubSeq(s, 1, n) = s /\ Tail(s) = SubSeq(s, 2, n)
  BY SubSeqFull, TailIsSubSeq
<1>4. Head(s) = s[1] /\ 1 + 1 = 2
  OBVIOUS
<1> QED
  BY <1>2, <1>3, <1>4

LEMMA ConsoleInitInv == ConsoleInit => ConsoleInv
<1> SUFFICES ASSUME ConsoleInit PROVE ConsoleInv
  OBVIOUS
<1>1. Init /\ ProgramInit /\ meant = <<>> /\ cut = FALSE
  BY DEF ConsoleInit
<1>2. FInv /\ Waiting = <<>> /\ answer = NoKey
  BY <1>1, KeyboardStarts DEF Fifo!Init
<1>3. LineInv
  BY <1>1, ProgramInitLine
<1>4. meant \in Lines /\ cut \in BOOLEAN
  BY <1>1, EmptySeq DEF Lines
<1>5. Corrected(Base, Unread) = meant
  <2>1. Base = <<>>
    BY <1>1 DEF ProgramInit, Base
  <2>2. Unread = <<>> \o <<>>
    BY <1>2 DEF Unread
  <2>3. <<>> \o <<>> = <<>>
    BY EmptySeq, ConcatEmptySeq
  <2>4. Corrected(<<>>, <<>>) = <<>>
    BY EmptySeq, CorrectedNone DEF Lines
  <2> QED
    BY <1>1, <2>1, <2>2, <2>3, <2>4
<1> QED
  BY <1>2, <1>3, <1>4, <1>5, MeantIs DEF ConsoleInv

\* A press goes behind the keys that wait.
LEMMA PressKeeps ==
  ASSUME ConsoleInv, NEW c \in Keys, Press(c)
  PROVE  ConsoleInv'
<1>1. /\ FInv /\ LineInv /\ meant \in Lines /\ cut \in BOOLEAN /\ MeantArrives
      /\ Push(c) /\ UNCHANGED program /\ cut' = cut
      /\ meant' = IF lost' > 0 \/ cut THEN <<>> ELSE Edited(meant, c)
  BY DEF ConsoleInv, Press
<1>2. /\ FInv' /\ answer' = answer
      /\ lost' = 0 => Fifo!Type(c)
  BY <1>1, PushQueues DEF Push
<1>3. LineInv'
  BY <1>1, StutterKeeps
<1>4. meant' \in Lines
  BY <1>1, EmptySeq, EditedTyped DEF Lines
<1>5. ASSUME lost' = 0, ~cut PROVE Corrected(Base', Unread') = meant'
  <2>1. lost = 0
    <3>1. lost \in Nat /\ lost' \in {lost, lost + 1}
      BY <1>1 DEF FInv, IInv, TypeOK, Push
    <3> QED
      BY <1>5, <3>1
  <2>2. Waiting' = Append(Waiting, c)
    BY <1>2, <1>5 DEF Fifo!Type
  <2>3. /\ Unread \in Seq(Keys) /\ Waiting \in Seq(Keys)
        /\ answer = NoKey => Unread = Waiting
        /\ answer # NoKey => answer \in Keys /\ Unread = <<answer>> \o Waiting
    BY <1>1, <2>1, UnreadKeys, WaitingKeys
  <2>4. Unread' = Append(Unread, c)
    <3>1. Unread' = (IF answer = NoKey THEN <<>> ELSE <<answer>>) \o Append(Waiting, c)
      BY <1>2, <2>2 DEF Unread
    <3>2. CASE answer = NoKey
      <4>1. Append(Waiting, c) \in Seq(Keys)
        BY <2>3, AppendProperties
      <4>2. <<>> \o Append(Waiting, c) = Append(Waiting, c)
        BY <4>1, ConcatEmptySeq
      <4> QED
        BY <2>3, <3>1, <3>2, <4>2
    <3>3. CASE answer # NoKey
      <4>1. <<answer>> \in Seq(Keys) /\ <<c>> \in Seq(Keys)
        BY <2>3, <3>3
      <4>2. Append(Waiting, c) = Waiting \o <<c>>
        BY <2>3, AppendIsConcat
      <4>3. Append(Unread, c) = Unread \o <<c>>
        BY <2>3, AppendIsConcat
      <4>4. (<<answer>> \o Waiting) \o <<c>> = <<answer>> \o (Waiting \o <<c>>)
        BY <2>3, <4>1, ConcatAssociative
      <4> QED
        BY <2>3, <3>1, <3>3, <4>2, <4>3, <4>4
    <3> QED
      BY <3>2, <3>3
  <2>5. Base' = Base /\ Base \in Lines
    BY <1>1, BaseLine DEF Base, program
  <2>6. Corrected(Base, Unread) = meant
    BY <1>1, <1>5, <2>1, MeantIs
  <2>7. Corrected(Base, Append(Unread, c)) = Edited(Corrected(Base, Unread), c)
    BY <2>3, <2>5, CorrectedLast
  <2>8. meant' = Edited(meant, c)
    BY <1>1, <1>5
  <2> QED
    BY <2>4, <2>5, <2>6, <2>7, <2>8
<1>6. MeantArrives'
  BY <1>1, <1>5 DEF MeantArrives, Base
<1> QED
  BY <1>1, <1>2, <1>3, <1>4, <1>6 DEF ConsoleInv

\* getkey_block takes the first waiting key in hand.
LEMMA PollKeeps ==
  ASSUME ConsoleInv, Poll
  PROVE  ConsoleInv'
<1>1. /\ FInv /\ LineInv /\ meant \in Lines /\ cut \in BOOLEAN /\ MeantArrives
      /\ answer = NoKey /\ Pop /\ UNCHANGED program /\ cut' = cut /\ meant' = meant
  BY DEF ConsoleInv, Poll
<1>2. /\ FInv' /\ lost' = lost
      /\ lost' = 0 => Fifo!Take \/ Fifo!TakeNothing
  BY <1>1, PopTakes DEF Pop
<1>3. LineInv'
  BY <1>1, StutterKeeps
<1>4. ASSUME lost' = 0, ~cut PROVE Corrected(Base', Unread') = meant'
  <2>1. Waiting \in Seq(Keys) /\ Unread = Waiting /\ Unread' \in Seq(Keys)
    <3>1. Waiting \in Seq(Keys) /\ Unread = Waiting
      BY <1>1, <1>2, <1>4, UnreadKeys, WaitingKeys
    <3>2. (FInv /\ lost = 0 => Unread \in Seq(Keys))'
      BY UnreadKeys, PTL
    <3> QED
      BY <1>2, <1>4, <3>1, <3>2
  <2>2. Unread' = Unread
    <3>1. CASE Fifo!Take
      <4>1. Waiting # <<>> /\ answer' = Head(Waiting) /\ Waiting' = Tail(Waiting)
        BY <3>1 DEF Fifo!Take
      <4>2. Head(Waiting) \in Keys
        BY <2>1, <4>1, HeadTailProperties
      <4>3. answer' # NoKey
        BY <4>1, <4>2, KeyboardAssumption
      <4>4. Unread' = <<Head(Waiting)>> \o Tail(Waiting)
        BY <4>1, <4>3 DEF Unread
      <4>5. <<Head(Waiting)>> \o Tail(Waiting) = Waiting
        BY <2>1, <4>1, HeadTailAgain
      <4> QED
        BY <2>1, <4>4, <4>5
    <3>2. CASE Fifo!TakeNothing
      BY <1>1, <3>2 DEF Fifo!TakeNothing, Unread
    <3> QED
      BY <1>2, <1>4, <3>1, <3>2
  <2>3. Base' = Base
    BY <1>1 DEF Base, program
  <2>4. Corrected(Base, Unread) = meant
    BY <1>1, <1>2, <1>4, MeantIs
  <2> QED
    BY <1>1, <2>2, <2>3, <2>4
<1>5. MeantArrives'
  BY <1>1, <1>4 DEF MeantArrives, Base
<1> QED
  BY <1>1, <1>2, <1>3, <1>5 DEF ConsoleInv

\* The line takes in the key in hand.
LEMMA TakeKeeps ==
  ASSUME ConsoleInv, Take
  PROVE  ConsoleInv'
<1>1. /\ FInv /\ LineInv /\ meant \in Lines /\ cut \in BOOLEAN /\ MeantArrives
      /\ answer \notin {NoKey, ENTER} /\ Key(answer) /\ answer' = NoKey
      /\ UNCHANGED keyboard /\ cut' = cut /\ meant' = meant
  BY DEF ConsoleInv, Take
<1>2. FInv' /\ Waiting' = Waiting /\ lost' = lost
  BY <1>1, TakenInv
<1>3. answer \in Keys /\ answer \in Echoed
  BY <1>1 DEF FInv, IInv, TypeOK, Echoed
<1>4. LineInv'
  BY <1>1, <1>3, KeyKeeps
<1>5. ASSUME lost' = 0, ~cut PROVE Corrected(Base', Unread') = meant'
  <2>1. Waiting \in Seq(Keys) /\ Unread = <<answer>> \o Waiting
    BY <1>1, <1>2, <1>5, UnreadKeys, WaitingKeys
  <2>2. Unread' = Waiting
    <3>1. Unread' = <<>> \o Waiting
      BY <1>1, <1>2 DEF Unread
    <3>2. <<>> \o Waiting = Waiting
      BY <2>1, ConcatEmptySeq
    <3> QED
      BY <3>1, <3>2
  <2>3. Base = typed /\ Base' = Edited(typed, answer) /\ Base \in Lines
    BY <1>1, BaseLine DEF Base, Key
  <2>4. Corrected(Base, Unread) = meant
    BY <1>1, <1>2, <1>5, MeantIs
  <2>5. Corrected(Base, <<answer>> \o Waiting) = Corrected(Edited(Base, answer), Waiting)
    BY <1>3, <2>1, <2>3, CorrectedFirst
  <2> QED
    BY <1>1, <2>1, <2>2, <2>3, <2>4, <2>5
<1>6. MeantArrives'
  BY <1>1, <1>5 DEF MeantArrives, Base
<1> QED
  BY <1>1, <1>2, <1>4, <1>6 DEF ConsoleInv

\* Enter ends the line that was meant; a full line ends what is followed.
LEMMA LineEndsKeeps ==
  ASSUME ConsoleInv, LineEnds
  PROVE  ConsoleInv'
<1>1. /\ FInv /\ LineInv /\ meant \in Lines /\ cut \in BOOLEAN /\ MeantArrives
      /\ answer = ENTER \/ Full
      /\ EndLine /\ answer' = NoKey
      /\ UNCHANGED keyboard /\ cut' = (cut \/ Full)
      /\ meant' = IF cut' THEN <<>> ELSE meant
  BY DEF ConsoleInv, LineEnds
<1>2. FInv' /\ Waiting' = Waiting /\ lost' = lost
  BY <1>1, TakenInv
<1>3. LineInv'
  BY <1>1, EndLineKeeps
<1>4. meant' \in Lines /\ cut' \in BOOLEAN
  <2>1. cut' \in BOOLEAN
    BY <1>1, Zenon
  <2>2. meant' \in Lines
    BY <1>1, EmptySeq DEF Lines
  <2> QED
    BY <2>1, <2>2
<1>5. ASSUME lost' = 0, ~cut' PROVE Corrected(Base', Unread') = meant'
  <2>1. ~cut /\ ~Full /\ answer = ENTER /\ meant' = meant
    <3>1. ~(cut \/ Full)
      BY <1>1, <1>5, Zenon
    <3> QED
      BY <1>1, <1>5, <3>1
  <2>2. ENTER # NoKey /\ ENTER \in Keys
    BY KeyboardAssumption, ReadlineAssumption
  <2>3. Waiting \in Seq(Keys) /\ Unread = <<ENTER>> \o Waiting
    BY <1>1, <1>2, <1>5, <2>1, <2>2, UnreadKeys, WaitingKeys
  <2>4. Unread' = Waiting
    <3>1. Unread' = <<>> \o Waiting
      BY <1>1, <1>2 DEF Unread
    <3>2. <<>> \o Waiting = Waiting
      BY <2>3, ConcatEmptySeq
    <3> QED
      BY <3>1, <3>2
  <2>5. Base' = <<>> /\ Base \in Lines
    BY <1>1, BaseLine DEF Base, EndLine
  <2>6. Corrected(Base, Unread) = meant
    BY <1>1, <1>2, <1>5, <2>1, MeantIs
  <2>7. Corrected(Base, <<ENTER>> \o Waiting) = Corrected(Edited(Base, ENTER), Waiting)
    BY <2>2, <2>3, <2>5, CorrectedFirst
  <2>8. Edited(Base, ENTER) = <<>>
    BY DEF Edited
  <2> QED
    BY <2>1, <2>3, <2>4, <2>5, <2>6, <2>7, <2>8
<1>6. MeantArrives'
  BY <1>5 DEF MeantArrives, Base
<1> QED
  BY <1>2, <1>3, <1>4, <1>6 DEF ConsoleInv

LEMMA PrintAllKeeps ==
  ASSUME ConsoleInv, PrintAll
  PROVE  ConsoleInv'
<1>1. /\ FInv /\ LineInv /\ meant \in Lines /\ cut \in BOOLEAN /\ MeantArrives
      /\ PrintLine /\ UNCHANGED <<keyboard, answer, meant, cut>>
  BY DEF ConsoleInv, PrintAll
<1>2. FInv' /\ Waiting' = Waiting /\ lost' = lost
  BY <1>1, TakenInv
<1>3. LineInv'
  BY <1>1, PrintLineKeeps
<1>4. Base' = Base /\ Unread' = Unread
  BY <1>1, <1>2 DEF Base, PrintLine, Unread
<1>5. MeantArrives'
  BY <1>1, <1>2, <1>4 DEF MeantArrives, Base
<1> QED
  BY <1>1, <1>2, <1>3, <1>5 DEF ConsoleInv

LEMMA ConsoleStutters ==
  ASSUME ConsoleInv, UNCHANGED consoleVars
  PROVE  ConsoleInv'
<1>1. /\ FInv /\ LineInv /\ meant \in Lines /\ cut \in BOOLEAN /\ MeantArrives
      /\ UNCHANGED program /\ UNCHANGED vars /\ meant' = meant /\ cut' = cut
  BY DEF ConsoleInv, consoleVars
<1>2. UNCHANGED keyboard /\ answer' = answer
  BY <1>1 DEF vars, keyboard
<1>3. FInv' /\ Waiting' = Waiting /\ lost' = lost
  BY <1>1, <1>2, TakenInv
<1>4. LineInv'
  BY <1>1, StutterKeeps
<1>5. Base' = Base /\ Unread' = Unread
  BY <1>1, <1>2, <1>3 DEF Base, program, Unread
<1>6. MeantArrives'
  BY <1>1, <1>3, <1>5 DEF MeantArrives, Base
<1> QED
  BY <1>1, <1>3, <1>4, <1>6 DEF ConsoleInv

LEMMA ConsoleStep == ConsoleInv /\ [ConsoleNext]_consoleVars => ConsoleInv'
  BY PressKeeps, PollKeeps, TakeKeeps, LineEndsKeeps, PrintAllKeeps,
     ConsoleStutters DEF ConsoleNext

\* The buffer holds the line as typed and corrected, the screen shows it
\* before the cursor over wraps and scrolling, and a line of any length is
\* printed whole, with its mark: for every screen and every size of line.
THEOREM ConsoleLines ==
  ConsoleSpec => [](BufferHoldsLine /\ ScreenShowsLine /\ PrintsLine)
<1>1. ConsoleInv => BufferHoldsLine /\ ScreenShowsLine /\ PrintsLine
  BY DEF ConsoleInv, LineInv
<1> QED
  BY <1>1, ConsoleInitInv, ConsoleStep, PTL DEF ConsoleSpec

\* Whatever the moments of the presses, the program gets the line that is
\* meant, until a key is overwritten or a line ends by its length.
THEOREM ConsoleMeant == ConsoleSpec => []MeantArrives
<1>1. ConsoleInv => MeantArrives
  BY DEF ConsoleInv
<1> QED
  BY <1>1, ConsoleInitInv, ConsoleStep, PTL DEF ConsoleSpec
=============================================================================
