---------------------------- MODULE FilesProofs -----------------------------
(***************************************************************************)
(* Proofs about fs/file.c and fs/parser.c.  First FileTable, for any       *)
(* callers, however many descriptors and whatever the sizes, offsets and   *)
(* width of a position.  Then PathParser, for paths of any length.         *)
(***************************************************************************)
EXTENDS FileTable, PathParser, FiniteSetTheorems, SequenceTheorems,
        WellFoundedInduction, TLAPS

\* While memory lasts: whoever holds a descriptor holds it alone and knows
\* what it stands for, and every open one but the last is held.
Known == \A c \in Callers :
  handle[c] # 0 => table[handle[c]] = believed[c]
Alone == \A c, d \in Callers : handle[c] = handle[d] /\ handle[c] # 0 => c = d
Held == \A f \in Fd :
  f < MaxFd /\ table[f] # None => \E c \in Callers : handle[c] = f

\* And always: who holds a descriptor has opened something.
Opening == \A c \in Callers : handle[c] # 0 => believed[c] # None

IInv == TypeOK /\ Opening /\ (~short => Known /\ Alone /\ Held)

LEMMA InitIInv == Init => IInv
<1> SUFFICES ASSUME Init PROVE IInv
  OBVIOUS
<1>1. TypeOK
  BY FileTableAssumption DEF Init, TypeOK, Private, Kind, None, Fd
<1>2. Known /\ Alone /\ Held /\ Opening
  BY DEF Init, Known, Alone, Held, Opening
<1> QED
  BY <1>1, <1>2 DEF IInv

\* A descriptor just opened is of the right type.
LEMMA OpenedPrivate ==
  ASSUME NEW name \in Path, NEW mode, NEW kind \in Opened(name, mode)
  PROVE  /\ [kind |-> kind, pos |-> 0] \in Private
         /\ [kind |-> kind, pos |-> 0] # None
<1>1. kind \in Kind /\ kind # "none"
  BY DEF Opened, Path, Kind
<1>2. 0 \in 0 .. WordSize - 1
  BY FileTableAssumption
<1> QED
  BY <1>1, <1>2 DEF Private, None

LEMMA FopenIInv ==
  ASSUME IInv, NEW c \in Callers, NEW name \in Path, NEW mode, Fopen(c, name, mode)
  PROVE  IInv'
<1>1. PICK kind \in Opened(name, mode), f \in Fd :
        /\ IsNewFd(f)
        /\ table' = [table EXCEPT ![f] = [kind |-> kind, pos |-> 0]]
        /\ handle' = [handle EXCEPT ![c] = f]
        /\ believed' = [believed EXCEPT ![c] = [kind |-> kind, pos |-> 0]]
  BY DEF Fopen
<1> DEFINE new == [kind |-> kind, pos |-> 0]
<1>2. new \in Private /\ new # None
  BY OpenedPrivate
<1> HIDE DEF new
<1>3. table' = [table EXCEPT ![f] = new] /\ believed' = [believed EXCEPT ![c] = new]
  BY <1>1 DEF new
<1>4. /\ handle[c] = 0 /\ table[f] = None /\ f # 0
      /\ UNCHANGED <<filesize, short, wild>>
  BY <1>1, FileTableAssumption DEF Fopen, IsNewFd, Fd
<1>5. TypeOK' /\ Opening'
  BY <1>1, <1>2, <1>3, <1>4 DEF IInv, TypeOK, Opening
<1>6. ASSUME ~short PROVE Known' /\ Alone' /\ Held'
  <2>1. Known /\ Alone /\ Held
    BY <1>6 DEF IInv
  <2>2. \A d \in Callers : handle[d] # f
    BY <1>2, <1>4, <2>1 DEF Known, IInv, Opening
  <2>3. \A d \in Callers : d # c => handle'[d] = handle[d] /\ believed'[d] = believed[d]
    BY <1>1, <1>3 DEF IInv, TypeOK
  <2>4. handle'[c] = f /\ believed'[c] = new /\ table'[f] = new
    BY <1>1, <1>3 DEF IInv, TypeOK
  <2>5. \A g \in Fd : g # f => table'[g] = table[g]
    BY <1>3 DEF IInv, TypeOK
  <2>6. \A d \in Callers : handle[d] # 0 => handle[d] \in Fd
    BY DEF IInv, TypeOK
  <2>7. Known'
    BY <1>2, <2>1, <2>2, <2>3, <2>4, <2>5, <2>6 DEF Known
  <2>8. Alone'
    BY <2>1, <2>2, <2>3, <2>4 DEF Alone
  <2>9. Held'
    <3> SUFFICES ASSUME NEW g \in Fd, g < MaxFd, table'[g] # None
                 PROVE  \E d \in Callers : handle'[d] = g
      BY DEF Held
    <3>1. CASE g = f
      BY <2>4, <3>1
    <3>2. CASE g # f
      <4>1. PICK d \in Callers : handle[d] = g
        BY <2>1, <2>5, <3>2 DEF Held
      <4>2. d # c
        BY <1>4, <4>1, FileTableAssumption DEF Fd
      <4> QED
        BY <2>3, <4>1, <4>2
    <3> QED
      BY <3>1, <3>2
  <2> QED
    BY <2>7, <2>8, <2>9
<1> QED
  BY <1>4, <1>5, <1>6 DEF IInv

LEMMA FopenNoMemoryIInv ==
  ASSUME IInv, NEW c \in Callers, NEW name \in Path, NEW mode,
         FopenNoMemory(c, name, mode)
  PROVE  IInv'
<1>1. PICK kind \in Opened(name, mode), f \in Fd :
        /\ handle' = [handle EXCEPT ![c] = f]
        /\ believed' = [believed EXCEPT ![c] = [kind |-> kind, pos |-> 0]]
  BY DEF FopenNoMemory
<1> DEFINE new == [kind |-> kind, pos |-> 0]
<1>2. new \in Private /\ new # None /\ believed' = [believed EXCEPT ![c] = new]
  BY <1>1, OpenedPrivate
<1> HIDE DEF new
<1>3. short' = TRUE /\ UNCHANGED <<filesize, table, wild>>
  BY DEF FopenNoMemory
<1>4. TypeOK' /\ Opening'
  BY <1>1, <1>2, <1>3 DEF IInv, TypeOK, Opening
<1> QED
  BY <1>3, <1>4 DEF IInv

LEMMA UseUnsoundIInv ==
  ASSUME IInv, NEW c \in Callers, UseUnsound(c)
  PROVE  IInv'
<1>1. UNCHANGED <<filesize, table, handle, believed, short>> /\ wild' = TRUE
  BY DEF UseUnsound
<1> QED
  BY <1>1 DEF IInv, TypeOK, Known, Alone, Held, Opening

\* Moving keeps the type and does not close.
LEMMA MovedPrivate ==
  ASSUME NEW d \in Private, d # None, NEW offset \in Offsets, NEW whence
  PROVE  Moved(d, offset, whence) \in Private /\ Moved(d, offset, whence) # None
<1>1. d.kind \in Kind /\ d.pos \in 0 .. WordSize - 1 /\ d = [kind |-> d.kind, pos |-> d.pos]
  BY DEF Private
<1>2. offset \in 0 .. WordSize - 1 /\ WordSize \in Nat \ {0}
  BY FileTableAssumption
<1>3. (d.pos + offset) % WordSize \in 0 .. WordSize - 1
  BY <1>1, <1>2
<1> DEFINE pos == IF whence = "set" THEN offset ELSE (d.pos + offset) % WordSize
<1>4. pos \in 0 .. WordSize - 1
  BY <1>2, <1>3
<1> HIDE DEF pos
<1>5. Moved(d, offset, whence) = [kind |-> d.kind, pos |-> pos]
  BY <1>1 DEF Moved, pos
<1>6. d.kind # "none"
  BY <1>1 DEF Kind
<1> QED
  BY <1>1, <1>4, <1>5, <1>6 DEF Private, None

LEMMA FseekIInv ==
  ASSUME IInv, NEW c \in Callers, NEW offset \in Offsets, NEW whence,
         Fseek(c, offset, whence)
  PROVE  IInv'
<1> DEFINE f == handle[c]
<1>1. /\ f \in Fd /\ table[f] # None
      /\ table' = [table EXCEPT ![f] = Moved(table[f], offset, whence)]
      /\ believed' = [believed EXCEPT ![c] = Moved(believed[c], offset, whence)]
      /\ UNCHANGED <<filesize, handle, short, wild>>
  BY DEF Fseek, IsOpen, IInv, TypeOK
<1>2. table[f] \in Private /\ believed[c] \in Private
  BY <1>1 DEF IInv, TypeOK
<1>3. Moved(table[f], offset, whence) \in Private \ {None}
  BY <1>1, <1>2, MovedPrivate
<1>4. Moved(believed[c], offset, whence) \in Private \ {None}
  <2>1. believed[c] # None
    BY <1>1, FileTableAssumption DEF IInv, Opening, Fd
  <2> QED
    BY <1>2, <2>1, MovedPrivate
<1>5. TypeOK' /\ Opening'
  BY <1>1, <1>3, <1>4 DEF IInv, TypeOK, Opening
<1>6. ASSUME ~short PROVE Known' /\ Alone' /\ Held'
  <2>1. Known /\ Alone /\ Held
    BY <1>6 DEF IInv
  <2>2. table[f] = believed[c]
    BY <1>1, <2>1, FileTableAssumption DEF Known, Fd
  <2>3. table'[f] = believed'[c]
    BY <1>1, <1>3, <2>2 DEF IInv, TypeOK
  <2>4. \A d \in Callers : d # c => believed'[d] = believed[d]
    BY <1>1 DEF IInv, TypeOK
  <2>5. \A g \in Fd : g # f => table'[g] = table[g]
    BY <1>1 DEF IInv, TypeOK
  <2>6. \A d \in Callers : d # c /\ handle[d] # 0 => handle[d] # f /\ handle[d] \in Fd
    BY <1>1, <2>1 DEF Alone, IInv, TypeOK
  <2>7. Known'
    BY <1>1, <2>1, <2>3, <2>4, <2>5, <2>6 DEF Known
  <2>8. Alone'
    BY <1>1, <2>1 DEF Alone
  <2>9. Held'
    BY <1>1, <2>1, <2>5 DEF Held
  <2> QED
    BY <2>7, <2>8, <2>9
<1> QED
  BY <1>1, <1>5, <1>6 DEF IInv

LEMMA FcloseIInv ==
  ASSUME IInv, NEW c \in Callers, Fclose(c)
  PROVE  IInv'
<1> DEFINE f == handle[c]
<1>1. /\ f \in Fd /\ f # 0
      /\ handle' = [handle EXCEPT ![c] = 0]
      /\ believed' = [believed EXCEPT ![c] = None]
      /\ UNCHANGED <<filesize, short, wild>>
      /\ \/ table' = [table EXCEPT ![f] = None]
         \/ table' = table /\ (f = MaxFd \/ table[f] = None)
  BY FileTableAssumption DEF Fclose, IsOpen, IInv, TypeOK, Fd
<1>2. TypeOK' /\ Opening'
  BY <1>1 DEF IInv, TypeOK, Opening, Private
<1>3. ASSUME ~short PROVE Known' /\ Alone' /\ Held'
  <2>1. Known /\ Alone /\ Held
    BY <1>3 DEF IInv
  <2>2. handle'[c] = 0 /\ \A d \in Callers : d # c =>
          handle'[d] = handle[d] /\ believed'[d] = believed[d]
    BY <1>1 DEF IInv, TypeOK
  <2>3. \A d \in Callers : d # c /\ handle[d] # 0 => handle[d] # f /\ handle[d] \in Fd
    BY <1>1, <2>1 DEF Alone, IInv, TypeOK
  <2>4. \A g \in Fd : g # f => table'[g] = table[g]
    BY <1>1 DEF IInv, TypeOK
  <2>5. f < MaxFd => table'[f] = None
    BY <1>1, FileTableAssumption DEF IInv, TypeOK, Fd
  <2>6. Known'
    BY <2>1, <2>2, <2>3, <2>4 DEF Known
  <2>7. Alone'
    BY <2>1, <2>2 DEF Alone
  <2>8. Held'
    <3> SUFFICES ASSUME NEW g \in Fd, g < MaxFd, table'[g] # None
                 PROVE  \E d \in Callers : handle'[d] = g
      BY DEF Held
    <3>1. g # f /\ table[g] # None
      BY <2>4, <2>5
    <3>2. PICK d \in Callers : handle[d] = g
      BY <2>1, <3>1 DEF Held
    <3> QED
      BY <2>2, <3>1, <3>2
  <2> QED
    BY <2>6, <2>7, <2>8
<1> QED
  BY <1>1, <1>2, <1>3 DEF IInv

LEMMA NextIInv == IInv /\ [Next]_vars => IInv'
<1> SUFFICES ASSUME IInv, [Next]_vars PROVE IInv'
  OBVIOUS
<1>1. CASE UNCHANGED vars
  BY <1>1 DEF vars, IInv, TypeOK, Opening, Known, Alone, Held
<1>2. CASE Next
  <2>1. PICK c \in Callers :
          \/ \E name \in Path, mode \in {"r", "w"} :
               Fopen(c, name, mode) \/ FopenNoMemory(c, name, mode)
          \/ UseUnsound(c) \/ Fclose(c)
          \/ \E offset \in Offsets, whence \in {"set", "cur"} :
               Fseek(c, offset, whence)
    BY <1>2 DEF Next
  <2> QED
    BY <2>1, FopenIInv, FopenNoMemoryIInv, UseUnsoundIInv, FcloseIInv, FseekIInv
<1> QED
  BY <1>1, <1>2

\* How many hold a descriptor that at most one holds.
LEMMA HoldersCount ==
  ASSUME Alone, NEW f \in Fd
  PROVE  LET holders == {c \in Callers : handle[c] = f}
         IN Cardinality(holders) = IF \E c \in Callers : handle[c] = f THEN 1 ELSE 0
<1> DEFINE holders == {c \in Callers : handle[c] = f}
<1>1. CASE \E c \in Callers : handle[c] = f
  <2>1. PICK c \in Callers : handle[c] = f
    BY <1>1
  <2>2. f # 0
    BY FileTableAssumption DEF Fd
  <2>3. holders = {c}
    BY <2>1, <2>2 DEF Alone
  <2> QED
    BY <1>1, <2>3, FS_Singleton
<1>2. CASE ~\E c \in Callers : handle[c] = f
  <2>1. holders = {}
    BY <1>2
  <2> QED
    BY <1>2, <2>1, FS_EmptySet
<1> QED
  BY <1>1, <1>2

\* As long as memory lasts for descriptors, every descriptor stands for what
\* its holder opened, at the position its own seeks led to, and is in use
\* exactly while one caller holds it, but for the last.
THEOREM DescriptorsPrivate == Spec => []HandleIsMine
<1>1. IInv => HandleIsMine
  <2> SUFFICES ASSUME IInv, ~short
               PROVE  /\ \A c \in Callers : handle[c] # 0 =>
                            table[handle[c]] = believed[c]
                      /\ \A f \in Fd :
                           LET holders == Cardinality({c \in Callers : handle[c] = f})
                           IN IF f < MaxFd
                              THEN holders = IF table[f] = None THEN 0 ELSE 1
                              ELSE holders <= 1
    BY DEF IInv, HandleIsMine
  <2>1. Known /\ Alone /\ Held /\ Opening
    BY DEF IInv
  <2>2. ASSUME NEW f \in Fd
        PROVE  LET holders == Cardinality({c \in Callers : handle[c] = f})
               IN IF f < MaxFd
                  THEN holders = IF table[f] = None THEN 0 ELSE 1
                  ELSE holders <= 1
    <3> DEFINE isHeld == \E c \in Callers : handle[c] = f
               holders == Cardinality({c \in Callers : handle[c] = f})
    <3>1. holders = IF isHeld THEN 1 ELSE 0
      BY <2>1, HoldersCount
    <3>2. isHeld => table[f] # None
      BY <2>1, FileTableAssumption DEF Known, Opening, Fd
    <3>3. f < MaxFd /\ table[f] # None => isHeld
      BY <2>1 DEF Held
    <3> HIDE DEF isHeld, holders
    <3>4. IF f < MaxFd THEN holders = IF table[f] = None THEN 0 ELSE 1
          ELSE holders <= 1
      BY <3>1, <3>2, <3>3
    <3> QED
      BY <3>4 DEF holders
  <2>3. \A c \in Callers : handle[c] # 0 => table[handle[c]] = believed[c]
    BY <2>1 DEF Known
  <2> QED
    BY <2>2, <2>3
<1> QED
  BY <1>1, InitIInv, NextIInv, PTL DEF Spec
-----------------------------------------------------------------------------
\* Numbers each of which has a smaller one among them are none.
LEMMA Descent ==
  ASSUME NEW B, B \subseteq Nat, \A x \in B : \E y \in B : y < x
  PROVE  B = {}
<1> SUFFICES ASSUME B # {} PROVE FALSE
  OBVIOUS
<1>1. PICK x \in B : \A y \in B : ~(<<y, x>> \in OpToRel(<, Nat))
  BY WFMin, NatLessThanWellFounded, Zenon
<1>2. \A y \in B : ~(y < x)
  BY <1>1, Zenon DEF OpToRel
<1> QED
  BY <1>2

\* f holds the beginnings of ps joined by "/".
IsJoin(f, ps) ==
  f = [k \in DOMAIN ps |-> IF k = 1 THEN ps[1] ELSE f[k - 1] \o <<"/">> \o ps[k]]

LEMMA JoinUnique ==
  ASSUME NEW ps, DOMAIN ps = 1 .. Len(ps), Len(ps) \in Nat,
         NEW f, IsJoin(f, ps), NEW g, IsJoin(g, ps)
  PROVE  \A k \in DOMAIN ps : f[k] = g[k]
<1> DEFINE n == Len(ps)
           B == {k \in 1 .. n : f[k] # g[k]}
<1>1. \A k \in 1 .. n : /\ f[k] = IF k = 1 THEN ps[1] ELSE f[k - 1] \o <<"/">> \o ps[k]
                        /\ g[k] = IF k = 1 THEN ps[1] ELSE g[k - 1] \o <<"/">> \o ps[k]
  BY Zenon DEF IsJoin
<1>2. ASSUME NEW x \in B
      PROVE  x - 1 \in B /\ x - 1 < x
  <2>1. x \in 1 .. n /\ f[x] # g[x]
    OBVIOUS
  <2>2. x # 1
    BY <1>1, <2>1
  <2>3. x - 1 \in 1 .. n /\ x - 1 < x
    BY <2>1, <2>2
  <2>4. f[x - 1] # g[x - 1]
    <3>1. /\ f[x] = f[x - 1] \o <<"/">> \o ps[x]
          /\ g[x] = g[x - 1] \o <<"/">> \o ps[x]
      BY <1>1, <2>1, <2>2
    <3> QED
      BY <2>1, <3>1
  <2> QED
    BY <2>3, <2>4
<1>3. B = {}
  <2>1. B \subseteq Nat /\ \A x \in B : \E y \in B : y < x
    BY <1>2
  <2> HIDE DEF B
  <2> QED
    BY <2>1, Descent
<1> QED
  BY <1>3

LEMMA JoinedIs ==
  ASSUME NEW ps, DOMAIN ps = 1 .. Len(ps), Len(ps) \in Nat \ {0},
         NEW f, IsJoin(f, ps)
  PROVE  Joined(ps) = f[Len(ps)]
<1> DEFINE g == CHOOSE h : IsJoin(h, ps)
<1>1. IsJoin(g, ps)
  BY Zenon
<1>2. Joined(ps) = g[Len(ps)]
  BY Zenon DEF Joined, IsJoin
<1> HIDE DEF g
<1>3. f[Len(ps)] = g[Len(ps)]
  BY <1>1, JoinUnique
<1> QED
  BY <1>2, <1>3

\* One more part.
LEMMA JoinMore ==
  ASSUME NEW ps \in Seq(Seq(Char)), NEW x \in Seq(Char), NEW f, IsJoin(f, ps)
  PROVE  \E g : /\ IsJoin(g, Append(ps, x))
                /\ g[Len(ps) + 1] = IF Len(ps) = 0 THEN x ELSE f[Len(ps)] \o <<"/">> \o x
<1> DEFINE n == Len(ps)
           y == IF n = 0 THEN x ELSE f[n] \o <<"/">> \o x
           g == [k \in 1 .. n + 1 |-> IF k = n + 1 THEN y ELSE f[k]]
           qs == Append(ps, x)
<1>0. /\ n \in Nat /\ DOMAIN ps = 1 .. n /\ DOMAIN qs = 1 .. n + 1
      /\ \A k \in 1 .. n : qs[k] = ps[k]
      /\ qs[n + 1] = x
  BY AppendProperties, LenProperties
<1> HIDE DEF n, qs
<1>1. \A k \in 1 .. n : f[k] = IF k = 1 THEN ps[1] ELSE f[k - 1] \o <<"/">> \o ps[k]
  BY <1>0, Zenon DEF IsJoin
<1>2. n + 1 \in 1 .. n + 1 /\ \A k \in 1 .. n : k \in 1 .. n + 1 /\ k # n + 1
  BY <1>0
<1>3. g[n + 1] = y /\ \A k \in 1 .. n : g[k] = f[k]
  BY <1>2
<1>4. ASSUME NEW k \in 1 .. n + 1
      PROVE  g[k] = IF k = 1 THEN qs[1] ELSE g[k - 1] \o <<"/">> \o qs[k]
  <2> HIDE DEF g, y
  <2>1. CASE k \in 1 .. n /\ k = 1
    BY <1>0, <1>1, <1>3, <2>1
  <2>2. CASE k \in 1 .. n /\ k # 1
    <3>1. k - 1 \in 1 .. n
      BY <1>0, <2>2
    <3>2. g[k] = f[k] /\ g[k - 1] = f[k - 1] /\ qs[k] = ps[k]
      BY <1>0, <1>3, <2>2, <3>1
    <3> QED
      BY <1>1, <2>2, <3>2
  <2>3. CASE k = n + 1 /\ n = 0
    BY <1>0, <1>3, <2>3 DEF y
  <2>4. CASE k = n + 1 /\ n # 0
    <3>1. n \in 1 .. n /\ k - 1 = n /\ k # 1
      BY <1>0, <2>4
    <3>2. g[k - 1] = f[n] /\ g[k] = y /\ qs[k] = x
      BY <1>0, <1>3, <2>4, <3>1
    <3> QED
      BY <2>4, <3>1, <3>2 DEF y
  <2> QED
    BY <1>0, <2>1, <2>2, <2>3, <2>4
<1>5. IsJoin(g, qs)
  <2>1. g = [k \in 1 .. n + 1 |-> g[k]]
    OBVIOUS
  <2> HIDE DEF g
  <2>2. g = [k \in 1 .. n + 1 |-> IF k = 1 THEN qs[1] ELSE g[k - 1] \o <<"/">> \o qs[k]]
    BY <1>4, <2>1, Zenon
  <2> QED
    BY <1>0, <2>2, Zenon DEF IsJoin
<1> QED
  BY <1>3, <1>5 DEF n, qs

-----------------------------------------------------------------------------
\* The part the loop is at ends at the next "/" or with the path.
LEMMA StopIs ==
  ASSUME path \in Seq(Char), at \in 1 .. Len(path)
  PROVE  /\ Stop \in at .. Len(path) + 1
         /\ Stop = Len(path) + 1 \/ path[Stop] = "/"
         /\ \A m \in at .. Stop - 1 : path[m] # "/"
<1> DEFINE n == Len(path) + 1
           Ends(k) == k = n \/ path[k] = "/"
           B == {k \in at .. n : Ends(k)}
           Is(k) == Ends(k) /\ \A m \in at .. k - 1 : path[m] # "/"
<1>1. Len(path) \in Nat /\ at \in Nat
  OBVIOUS
<1>2. n \in B /\ B \subseteq Nat
  BY <1>1
<1>3. PICK k \in B : \A m \in B : ~(m < k)
  <2>1. B # {}
    BY <1>2
  <2> HIDE DEF B
  <2>2. ~(\A x \in B : \E y \in B : y < x)
    BY <1>2, <2>1, Descent
  <2> QED
    BY <2>2
<1>4. \A m \in at .. k - 1 : path[m] # "/"
  <2>1. SUFFICES ASSUME NEW m \in at .. k - 1, path[m] = "/" PROVE FALSE
    OBVIOUS
  <2>2. m \in B /\ m < k
    BY <1>1, <1>3, <2>1
  <2> QED
    BY <1>3, <2>2
<1>5. k \in at .. n /\ Is(k)
  BY <1>3, <1>4
<1>6. Stop = CHOOSE j \in at .. n : Is(j)
  BY DEF Stop
<1> HIDE DEF Is, n
<1>7. Stop \in at .. n /\ Is(Stop)
  BY <1>5, <1>6, Zenon
<1> QED
  BY <1>7 DEF Is, n

\* What lies between the drive and the parser is what the parts say, with a
\* "/" still to come behind the last of them where one was read.
Reads(e) == \E f : IsJoin(f, parts) /\ f[Len(parts)] = SubSeq(path, 4, e)
Split ==
  pc \in {"parts", "done"} =>
    /\ IsValid(path) /\ at \in 4 .. Len(path) + 1
    /\ parts = <<>> => at = 4
    /\ parts # <<>> => /\ at >= 5
                       /\ \/ path[at - 1] = "/" /\ Reads(at - 2)
                          \/ path[at - 1] # "/" /\ at = Len(path) + 1 /\ Reads(at - 1)
PartsFit == \A k \in DOMAIN parts : /\ ~Contains(parts[k], "/")
                                    /\ Len(parts[k]) + 3 <= MaxPath
Finishes == pc = "done" => parts # <<>> /\ (cut \/ at > Len(path))
Starts == pc = "start" => at = 1 /\ parts = <<>>

ParseIInv == ParseTypeOK /\ Split /\ PartsFit /\ Finishes /\ Starts

LEMMA ParseInitIInv == ParseInit => ParseIInv
<1> SUFFICES ASSUME ParseInit PROVE ParseIInv
  OBVIOUS
<1> USE DEF ParseInit
<1>1. path \in Seq(Char)
  <2>1. PICK n \in 0 .. Longest : path \in [1 .. n -> Char]
    BY DEF BoundedSeq, SeqOf
  <2> QED
    BY <2>1, PathParserAssumption, SeqDef
<1>2. at \in 1 .. Len(path) + 1
  BY <1>1, LenProperties
<1>3. ParseTypeOK
  BY <1>1, <1>2, EmptySeq DEF ParseTypeOK
<1>4. Split /\ PartsFit /\ Finishes /\ Starts
  BY DEF Split, PartsFit, Finishes, Starts
<1> QED
  BY <1>3, <1>4 DEF ParseIInv

LEMMA NextPartIInv == ParseIInv /\ NextPart => ParseIInv'
<1> SUFFICES ASSUME ParseIInv, NextPart PROVE ParseIInv'
  OBVIOUS
<1> DEFINE n == Len(parts)
           x == SubSeq(path, at, Stop - 1)
<1>1. /\ pc = "parts" /\ pc' = pc /\ at <= Len(path) /\ path' = path /\ cut' = cut
      /\ parts' = Append(parts, x)
      /\ at' = IF Stop <= Len(path) THEN Stop + 1 ELSE Stop
  BY DEF NextPart
<1>2. path \in Seq(Char) /\ parts \in Seq(Seq(Char)) /\ n \in Nat /\ Len(path) \in Nat
      /\ DOMAIN parts = 1 .. n /\ cut \in BOOLEAN
  BY LenProperties DEF ParseIInv, ParseTypeOK
<1>3. /\ Len(path) <= MaxPath /\ path[3] = "/" /\ at \in 4 .. Len(path)
      /\ parts = <<>> => at = 4
      /\ parts # <<>> => at >= 5 /\ path[at - 1] = "/" /\ Reads(at - 2)
  BY <1>1, <1>2 DEF ParseIInv, Split, IsValid
<1>4. /\ Stop \in at .. Len(path) + 1
      /\ Stop = Len(path) + 1 \/ path[Stop] = "/"
      /\ \A m \in at .. Stop - 1 : path[m] # "/"
  BY <1>2, <1>3, StopIs
<1> DEFINE s == Stop
<1> HIDE DEF s
<1>4a. /\ s \in at .. Len(path) + 1
       /\ s = Len(path) + 1 \/ path[s] = "/"
       /\ \A m \in at .. s - 1 : path[m] # "/"
       /\ x = SubSeq(path, at, s - 1)
       /\ at' = IF s <= Len(path) THEN s + 1 ELSE s
  BY <1>1, <1>4 DEF s
<1> HIDE DEF x
<1>5. \A i \in 1 .. Len(path) : path[i] \in Char
  BY <1>2, ElementOfSeq
<1>6. x \in Seq(Char) /\ Len(x) = s - at /\ \A i \in 1 .. s - at : x[i] # "/"
  <2> DEFINE e == s - 1
  <2>1. at \in Int /\ e \in Int /\ \A i \in at .. e : path[i] \in Char
    BY <1>2, <1>3, <1>4a, <1>5
  <2>2. /\ SubSeq(path, at, e) \in Seq(Char)
        /\ Len(SubSeq(path, at, e)) = IF at <= e THEN e - at + 1 ELSE 0
        /\ \A i \in 1 .. e - at + 1 : SubSeq(path, at, e)[i] = path[at + i - 1]
    <3> HIDE DEF e
    <3> QED
      BY <2>1, SubSeqProperties
  <2>3. ASSUME NEW i \in 1 .. s - at PROVE x[i] # "/"
    <3>1. i \in 1 .. e - at + 1 /\ at + i - 1 \in at .. s - 1
      BY <1>3, <1>4a
    <3> QED
      BY <1>4a, <2>2, <3>1
  <2> QED
    BY <1>3, <1>4a, <2>2, <2>3
<1>7. /\ parts' \in Seq(Seq(Char)) /\ Len(parts') = n + 1 /\ parts'[n + 1] = x
      /\ \A k \in 1 .. n : parts'[k] = parts[k]
      /\ DOMAIN parts' = 1 .. n + 1
  BY <1>1, <1>2, <1>6, AppendProperties, LenProperties
<1>8. ParseTypeOK'
  <2>1. at' \in 1 .. Len(path) + 1
    BY <1>2, <1>3, <1>4a
  <2> QED
    BY <1>1, <1>2, <1>7, <2>1 DEF ParseTypeOK
<1>9. PartsFit'
  <2>1. ~Contains(x, "/") /\ Len(x) + 3 <= MaxPath
    <3>1. MaxPath \in Nat
      BY PathParserAssumption
    <3> QED
      BY <1>2, <1>3, <1>4a, <1>6, <3>1 DEF Contains
  <2>2. \A k \in 1 .. n : ~Contains(parts[k], "/") /\ Len(parts[k]) + 3 <= MaxPath
    BY <1>2 DEF ParseIInv, PartsFit
  <2>3. \A k \in 1 .. n + 1 : k \in 1 .. n \/ k = n + 1
    BY <1>2
  <2> QED
    BY <1>7, <2>1, <2>2, <2>3 DEF PartsFit
<1>10. \E f : IsJoin(f, parts') /\ f[Len(parts')] = SubSeq(path', 4, s - 1)
  <2>1. PICK f : /\ IsJoin(f, parts)
                 /\ n = 0 => at = 4
                 /\ n # 0 => /\ at >= 5 /\ path[at - 1] = "/"
                             /\ f[n] = SubSeq(path, 4, at - 2)
    <3>1. CASE parts = <<>>
      <4>1. n = 0 /\ at = 4
        BY <1>3, <3>1
      <4>2. \E f : IsJoin(f, parts)
        BY <1>2, <4>1 DEF IsJoin
      <4> QED
        BY <4>1, <4>2
    <3>2. CASE parts # <<>>
      <4>1. n # 0
        BY <1>2, <3>2, EmptySeq
      <4> QED
        BY <1>3, <3>2, <4>1 DEF Reads
    <3> QED
      BY <3>1, <3>2
  <2>2. PICK g : /\ IsJoin(g, parts')
                 /\ g[n + 1] = IF n = 0 THEN x ELSE f[n] \o <<"/">> \o x
    BY <1>1, <1>2, <1>6, <2>1, JoinMore
  <2>3. g[n + 1] = SubSeq(path, 4, s - 1)
    <3>1. CASE n = 0
      BY <1>4a, <2>1, <2>2, <3>1
    <3>2. CASE n # 0
      <4> DEFINE a == at - 2
                 b == at - 1
                 e == s - 1
                 m == 4
      <4>1. /\ at >= 5 /\ path[b] = "/" /\ f[n] = SubSeq(path, m, a)
        BY <2>1, <3>2
      <4>2. /\ m \in 1 .. Len(path) + 1 /\ a \in m - 1 .. Len(path) /\ b \in a .. Len(path)
            /\ b \in m - 1 .. Len(path) /\ e \in b .. Len(path)
            /\ b = a + 1 /\ at = b + 1 /\ b \in 1 .. Len(path) /\ m \in Int
        BY <1>2, <1>3, <1>4a, <4>1
      <4> HIDE DEF a, b, e, m
      <4>3. SubSeq(path, b, b) = <<"/">>
        <5>1. /\ SubSeq(path, b, b) \in Seq(Char) /\ Len(SubSeq(path, b, b)) = 1
              /\ SubSeq(path, b, b)[1] = "/"
          <6>1. b \in Int /\ \A i \in b .. b : path[i] \in Char
            BY <1>5, <4>2
          <6> QED
            BY <4>1, <6>1, SubSeqProperties
        <5>2. <<"/">> \in Seq(Char)
          BY DEF Char
        <5>3. Len(<<"/">>) = 1 /\ <<"/">>[1] = "/"
          OBVIOUS
        <5>4. \A i \in 1 .. 1 : SubSeq(path, b, b)[i] = <<"/">>[i]
          BY <5>1, <5>3
        <5> QED
          BY <5>1, <5>2, <5>3, <5>4, SeqEqual
      <4>4. SubSeq(path, m, a) \o SubSeq(path, a + 1, b) = SubSeq(path, m, b)
        BY <1>2, <4>2, ConcatAdjacentSubSeq
      <4>5. SubSeq(path, m, b) \o SubSeq(path, b + 1, e) = SubSeq(path, m, e)
        BY <1>2, <4>2, ConcatAdjacentSubSeq
      <4>6. x = SubSeq(path, b + 1, e)
        BY <1>4a, <4>2 DEF e
      <4>7. f[n] \o <<"/">> \o x = SubSeq(path, m, e)
        BY <4>1, <4>2, <4>3, <4>4, <4>5, <4>6
      <4> QED
        BY <2>2, <3>2, <4>7 DEF m, e
    <3> QED
      BY <3>1, <3>2
  <2> QED
    BY <1>1, <1>7, <2>2, <2>3
<1>11. Split'
  <2>1. IsValid(path)'
    BY <1>1 DEF ParseIInv, Split, IsValid
  <2>2. parts' # <<>>
    BY <1>2, <1>7, EmptySeq
  <2>3. CASE s <= Len(path)
    <3>1. at' = s + 1 /\ at' - 2 = s - 1 /\ at' - 1 = s /\ at' \in 5 .. Len(path) + 1
      BY <1>2, <1>3, <1>4a, <2>3
    <3>2. path'[at' - 1] = "/"
      BY <1>1, <1>2, <1>4a, <2>3, <3>1
    <3>3. Reads(at - 2)'
      <4>1. (at - 2)' = s - 1
        BY <3>1
      <4>2. \E f : IsJoin(f, parts') /\ f[Len(parts')] = SubSeq(path', 4, s - 1)
        BY <1>10
      <4> QED
        BY <4>1, <4>2 DEF Reads
    <3> QED
      BY <1>1, <1>2, <2>1, <2>2, <3>1, <3>2, <3>3 DEF Split
  <2>4. CASE ~(s <= Len(path))
    <3>1. s = Len(path) + 1 /\ at' = s /\ at' - 1 = Len(path) /\ at' \in 5 .. Len(path) + 1
      <4>1. at' = s
        BY <1>4a, <2>4
      <4>2. s = Len(path) + 1 /\ Len(path) >= 4
        <5>1. at \in Int /\ at >= 4 /\ at <= Len(path)
          BY <1>2, <1>3
        <5>2. s \in Int /\ s <= Len(path) + 1
          BY <1>2, <1>4a, <5>1
        <5>3. Len(path) >= 4
          BY <1>2, <5>1
        <5>4. s = Len(path) + 1
          <6> DEFINE l == Len(path)
          <6>1. l \in Nat /\ s \in Int /\ s <= l + 1 /\ ~(s <= l)
            BY <1>2, <2>4, <5>2
          <6> HIDE DEF l
          <6>2. s = l + 1
            BY <6>1
          <6> QED
            BY <6>2 DEF l
        <5> QED
          BY <5>3, <5>4
      <4> QED
        BY <1>2, <4>1, <4>2
    <3>2. path'[at' - 1] # "/"
      <4>1. Len(path) \in at .. s - 1
        BY <1>2, <1>3, <3>1
      <4> QED
        BY <1>1, <1>4a, <3>1, <4>1
    <3>3. Reads(at - 1)'
      <4>1. (at - 1)' = s - 1
        BY <3>1
      <4>2. \E f : IsJoin(f, parts') /\ f[Len(parts')] = SubSeq(path', 4, s - 1)
        BY <1>10
      <4> QED
        BY <4>1, <4>2 DEF Reads
    <3> QED
      BY <1>1, <1>2, <2>1, <2>2, <3>1, <3>2, <3>3 DEF Split
  <2> QED
    BY <2>3, <2>4
<1>12. Finishes' /\ Starts'
  BY <1>1 DEF Finishes, Starts
<1> QED
  BY <1>8, <1>9, <1>11, <1>12 DEF ParseIInv

LEMMA OtherPartsIInv ==
  /\ ParseIInv
  /\ Start \/ NoMoreParts \/ NoMemory \/ NoMemoryAtEnd \/ NoRoot
  => ParseIInv'
<1> SUFFICES ASSUME ParseIInv,
                    Start \/ NoMoreParts \/ NoMemory \/ NoMemoryAtEnd \/ NoRoot
             PROVE  ParseIInv'
  OBVIOUS
<1>0. path' = path /\ parts' = parts
  BY DEF Start, NoMoreParts, NoMemory, NoMemoryAtEnd, NoRoot
<1>1. /\ path \in Seq(Char) /\ parts \in Seq(Seq(Char)) /\ Len(path) \in Nat
      /\ at \in 1 .. Len(path) + 1 /\ cut \in BOOLEAN
      /\ Split /\ PartsFit /\ Finishes /\ Starts /\ pc \in {"start", "parts", "done", "refused", "wild"}
  BY LenProperties DEF ParseIInv, ParseTypeOK
<1>2. PartsFit'
  BY <1>0, <1>1 DEF PartsFit
<1>3. CASE Start
  <2>1. pc = "start" /\ cut' = cut /\ parts = <<>>
        /\ \/ IsValid(path) /\ at' = 4 /\ pc' = "parts"
           \/ pc' = "refused" /\ at' = at
    BY <1>1, <1>3 DEF Start, Starts
  <2>2. IsValid(path) => 4 \in 4 .. Len(path) + 1
    BY <1>1 DEF IsValid
  <2>3. ParseTypeOK'
    BY <1>0, <1>1, <2>1, <2>2 DEF ParseTypeOK
  <2>4. Split'
    BY <1>0, <2>1, <2>2 DEF Split, IsValid
  <2> QED
    BY <1>2, <2>1, <2>3, <2>4 DEF ParseIInv, Finishes, Starts
<1>4. CASE NoRoot
  <2>1. pc' = "refused" /\ at' = at /\ cut' = TRUE
    BY <1>4 DEF NoRoot
  <2> QED
    BY <1>0, <1>1, <1>2, <2>1 DEF ParseIInv, ParseTypeOK, Split, Finishes, Starts
<1>5. CASE NoMoreParts \/ NoMemory \/ NoMemoryAtEnd
  <2>1. /\ pc = "parts" /\ at' = at
        /\ \/ parts = <<>> /\ pc' = "refused"
           \/ parts # <<>> /\ pc' = "done"
           \/ pc' = "wild"
        /\ \/ cut' = TRUE
           \/ cut' = cut /\ at > Len(path)
    BY <1>5 DEF NoMoreParts, NoMemory, NoMemoryAtEnd, Finished
  <2>2. ParseTypeOK'
    BY <1>0, <1>1, <2>1 DEF ParseTypeOK
  <2>3. Split'
    <3>1. \A e : Reads(e)' <=> \E f : IsJoin(f, parts') /\ f[Len(parts')] = SubSeq(path', 4, e)
      BY DEF Reads
    <3>2. Reads(at - 2)' = Reads(at - 2) /\ Reads(at - 1)' = Reads(at - 1)
      BY <1>0, <2>1 DEF Reads
    <3>3. IsValid(path)' = IsValid(path)
      BY <1>0 DEF IsValid
    <3> QED
      BY <1>0, <1>1, <2>1, <3>2, <3>3 DEF Split
  <2>4. Finishes' /\ Starts'
    BY <1>0, <2>1 DEF Finishes, Starts
  <2> QED
    BY <1>2, <2>2, <2>3, <2>4 DEF ParseIInv
<1> QED
  BY <1>3, <1>4, <1>5

LEMMA ParseNextIInv == ParseIInv /\ [ParseNext]_parseVars => ParseIInv'
<1> SUFFICES ASSUME ParseIInv, [ParseNext]_parseVars PROVE ParseIInv'
  OBVIOUS
<1>1. CASE UNCHANGED parseVars
  <2>1. /\ path' = path /\ at' = at /\ parts' = parts /\ cut' = cut /\ pc' = pc
    BY <1>1 DEF parseVars
  <2>2. ParseTypeOK' /\ PartsFit' /\ Finishes' /\ Starts'
    BY <2>1 DEF ParseIInv, ParseTypeOK, PartsFit, Finishes, Starts
  <2>3. Split'
    <3>1. Reads(at - 2)' = Reads(at - 2) /\ Reads(at - 1)' = Reads(at - 1)
      BY <2>1 DEF Reads
    <3> QED
      BY <2>1, <3>1 DEF ParseIInv, Split, IsValid
  <2> QED
    BY <2>2, <2>3 DEF ParseIInv
<1>2. CASE ParseNext
  BY <1>2, NextPartIInv, OtherPartsIInv DEF ParseNext
<1> QED
  BY <1>1, <1>2

\* The parts, joined, are what was read.
LEMMA PartsJoined ==
  ASSUME ParseIInv, parts # <<>>, NEW e, Reads(e)
  PROVE  Joined(parts) = SubSeq(path, 4, e)
<1>1. PICK f : IsJoin(f, parts) /\ f[Len(parts)] = SubSeq(path, 4, e)
  BY DEF Reads
<1>2. DOMAIN parts = 1 .. Len(parts) /\ Len(parts) \in Nat \ {0}
  <2>1. parts \in Seq(Seq(Char))
    BY DEF ParseIInv, ParseTypeOK
  <2> QED
    BY <2>1, LenProperties, EmptySeq
<1> QED
  BY <1>1, <1>2, JoinedIs

\* A path of any length is split exactly, or behind one of its parts where
\* memory ran out (parser_parse).
THEOREM ParserSplits == ParseSpec => []SplitsExactly
<1>1. ParseIInv => SplitsExactly
  <2> SUFFICES ASSUME ParseIInv PROVE SplitsExactly
    OBVIOUS
  <2>1. /\ ParseTypeOK /\ PartsFit /\ path \in Seq(Char) /\ Len(path) \in Nat
        /\ \A i \in 1 .. Len(path) : path[i] \in Char
    BY LenProperties, ElementOfSeq DEF ParseIInv, ParseTypeOK
  <2>2. SUFFICES ASSUME pc = "done"
                 PROVE  IF cut THEN IsPrefix(Joined(parts), Rest)
                        ELSE Joined(parts) \o (IF Last(Rest) = "/" THEN <<"/">> ELSE <<>>) = Rest
    BY <2>1 DEF SplitsExactly, PartsFit
  <2> DEFINE n == Len(path)
             m == 4
  <2>3. /\ parts # <<>> /\ (cut \/ at > n) /\ at \in 5 .. n + 1
        /\ \/ path[at - 1] = "/" /\ Reads(at - 2)
           \/ path[at - 1] # "/" /\ at = n + 1 /\ Reads(at - 1)
    BY <2>1, <2>2 DEF ParseIInv, Split, Finishes
  <2>4. PICK e \in 3 .. n : /\ Joined(parts) = SubSeq(path, m, e)
                            /\ ~cut => IF path[n] = "/" THEN e = n - 1 ELSE e = n
    <3>1. CASE path[at - 1] = "/" /\ Reads(at - 2)
      <4>1. Joined(parts) = SubSeq(path, m, at - 2)
        BY <2>3, <3>1, PartsJoined
      <4>2. at - 2 \in 3 .. n /\ (~cut => at - 1 = n /\ at - 2 = n - 1)
        BY <2>1, <2>3
      <4> QED
        BY <3>1, <4>1, <4>2
    <3>2. CASE path[at - 1] # "/" /\ at = n + 1 /\ Reads(at - 1)
      <4>1. Joined(parts) = SubSeq(path, m, at - 1)
        BY <2>3, <3>2, PartsJoined
      <4>2. at - 1 \in 3 .. n /\ at - 1 = n
        BY <2>1, <2>3, <3>2
      <4> QED
        BY <3>2, <4>1, <4>2
    <3> QED
      BY <2>3, <3>1, <3>2
  <2>5. n >= 4 /\ m \in Int /\ m = 4 /\ n \in Int /\ e \in Int /\ Rest = SubSeq(path, m, n)
    BY <2>1, <2>3 DEF Rest
  <2> HIDE DEF n, m
  <2>6. /\ \A i \in m .. n : path[i] \in Char
        /\ \A i \in m .. e : path[i] \in Char
    BY <2>1, <2>4, <2>5 DEF n
  <2>7. /\ Rest \in Seq(Char) /\ Len(Rest) = n - 3
        /\ \A i \in 1 .. n - 3 : Rest[i] = path[i + 3]
    <3>1. /\ SubSeq(path, m, n) \in Seq(Char)
          /\ Len(SubSeq(path, m, n)) = IF m <= n THEN n - m + 1 ELSE 0
          /\ \A i \in 1 .. n - m + 1 : SubSeq(path, m, n)[i] = path[m + i - 1]
      BY <2>5, <2>6, SubSeqProperties
    <3> QED
      BY <2>5, <3>1
  <2>8. /\ Joined(parts) \in Seq(Char) /\ Len(Joined(parts)) = e - 3
        /\ \A i \in 1 .. e - 3 : Joined(parts)[i] = path[i + 3]
    <3>1. /\ SubSeq(path, m, e) \in Seq(Char)
          /\ Len(SubSeq(path, m, e)) = IF m <= e THEN e - m + 1 ELSE 0
          /\ \A i \in 1 .. e - m + 1 : SubSeq(path, m, e)[i] = path[m + i - 1]
      BY <2>5, <2>6, SubSeqProperties
    <3> QED
      BY <2>4, <2>5, <3>1
  <2>9. CASE cut
    <3> DEFINE j == Joined(parts)
               l == e - 3
               one == 1
    <3>1. one = 1 /\ one \in Int /\ l \in 0 .. n - 3 /\ n - 3 \in Nat
      BY <2>4, <2>5
    <3> HIDE DEF j, l, one
    <3>2. /\ j \in Seq(Char) /\ Len(j) = l /\ Rest \in Seq(Char) /\ Len(Rest) = n - 3
          /\ \A i \in one .. l : j[i] = Rest[i] /\ j[i] \in Char /\ Rest[i] \in Char
      <4>1. \A i \in 1 .. l : j[i] = Rest[i]
        BY <2>7, <2>8, <3>1 DEF j, l
      <4>2. \A i \in 1 .. l : j[i] \in Char
        BY <2>8, ElementOfSeq DEF j, l
      <4> QED
        BY <2>7, <2>8, <3>1, <4>1, <4>2 DEF j, l
    <3>3. /\ SubSeq(j, one, l) \in Seq(Char)
          /\ Len(SubSeq(j, one, l)) = IF one <= l THEN l - one + 1 ELSE 0
          /\ \A i \in 1 .. l - one + 1 : SubSeq(j, one, l)[i] = j[one + i - 1]
      BY <3>1, <3>2, SubSeqProperties
    <3>4. /\ SubSeq(Rest, one, l) \in Seq(Char)
          /\ Len(SubSeq(Rest, one, l)) = IF one <= l THEN l - one + 1 ELSE 0
          /\ \A i \in 1 .. l - one + 1 : SubSeq(Rest, one, l)[i] = Rest[one + i - 1]
      BY <3>1, <3>2, SubSeqProperties
    <3>5. SubSeq(j, one, l) = SubSeq(Rest, one, l)
      <4>1. \A i \in 1 .. Len(SubSeq(j, one, l)) : SubSeq(j, one, l)[i] = SubSeq(Rest, one, l)[i]
        <5>1. Len(SubSeq(j, one, l)) = l /\ l - one + 1 = l
          BY <3>1, <3>3
        <5>2. \A i \in 1 .. l : one + i - 1 = i
          BY <3>1
        <5> QED
          BY <3>1, <3>2, <3>3, <3>4, <5>1, <5>2
      <4> QED
        BY <3>3, <3>4, <4>1, SeqEqual
    <3>6. IsPrefix(j, Rest)
      BY <3>1, <3>2, <3>5 DEF IsPrefix, one
    <3> QED
      BY <2>9, <3>6 DEF j
  <2>10. CASE ~cut
    <3>1. Last(Rest) = path[n]
      <4>1. n - 3 \in 1 .. n - 3 /\ (n - 3) + 3 = n
        BY <2>5
      <4> QED
        BY <2>7, <4>1 DEF Last
    <3> DEFINE j == Joined(parts)
               t == IF Last(Rest) = "/" THEN <<"/">> ELSE <<>>
    <3>2. t \in Seq(Char) /\ j \in Seq(Char)
      <4>1. <<"/">> \in Seq(Char)
        BY DEF Char
      <4>2. <<>> \in Seq(Char)
        BY EmptySeq
      <4> QED
        BY <2>8, <4>1, <4>2, Zenon
    <3>3. /\ Len(t) = IF path[n] = "/" THEN 1 ELSE 0
          /\ path[n] = "/" => t[1] = "/"
      BY <3>1
    <3>4. Len(j) = e - 3 /\ \A i \in 1 .. e - 3 : j[i] = path[i + 3]
      BY <2>8
    <3> HIDE DEF j, t
    <3>5. /\ j \o t \in Seq(Char) /\ Len(j \o t) = Len(j) + Len(t)
          /\ \A i \in 1 .. Len(j) + Len(t) :
               (j \o t)[i] = IF i <= Len(j) THEN j[i] ELSE t[i - Len(j)]
      BY <3>2, ConcatProperties
    <3>6. Len(j) + Len(t) = n - 3
      BY <2>4, <2>5, <2>10, <3>3, <3>4
    <3>7. ASSUME NEW i \in 1 .. n - 3 PROVE (j \o t)[i] = Rest[i]
      <4>1. CASE i <= e - 3
        BY <2>4, <2>5, <2>7, <3>4, <3>5, <3>6, <4>1
      <4>2. CASE ~(i <= e - 3)
        <5>1. path[n] = "/" /\ i = n - 3 /\ i - Len(j) = 1 /\ i + 3 = n
          BY <2>4, <2>5, <2>10, <3>4, <4>2
        <5> QED
          BY <2>7, <3>3, <3>4, <3>5, <3>6, <4>2, <5>1
      <4> QED
        BY <4>1, <4>2
    <3>8. j \o t = Rest
      BY <2>7, <3>5, <3>6, <3>7, SeqEqual
    <3> QED
      BY <2>10, <3>8 DEF j, t
  <2> QED
    BY <2>9, <2>10
<1> QED
  BY <1>1, ParseInitIInv, ParseNextIInv, PTL DEF ParseSpec
=============================================================================
