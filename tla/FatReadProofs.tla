--------------------------- MODULE FatReadProofs ----------------------------
(***************************************************************************)
(* Proofs about FatRead for every geometry of the disk, every FAT and      *)
(* every request: wherever a read is led, it stays in the caller's buffer. *)
(***************************************************************************)
EXTENDS FatRead, TLAPS

\* What is still to come of the item being read, and how much of it the
\* chunk at hand covers.
Chunk == Least(todo, ClusterSize)

Counters ==
  /\ size \in Nat \ {0} /\ nmemb \in Nat \ {0} /\ first \in Cluster
  /\ fat \in [Cluster -> FatValue]
  /\ item \in Nat /\ at \in Int /\ todo \in Nat /\ obase \in Nat
  /\ ahead \in Nat /\ cluster \in FatValue
  /\ pos \in Int /\ left \in Nat /\ optr \in Nat
  /\ item <= nmemb /\ todo <= size
  /\ out \in [0 .. size * nmemb - 1 -> Int]
  /\ pc \in {"item", "locate", "sector", "next", "done"}
  /\ result \in {0, -1, nmemb}

\* The items read, and what is left of the next one, add up to the request.
Adds ==
  /\ pc = "item" => obase = item * size
  /\ pc \in {"locate", "sector", "next"} =>
       item < nmemb /\ obase + todo = (item + 1) * size
  /\ obase + todo <= size * nmemb

\* disk_stream_read counts down as much as it has copied, or more.
Ahead ==
  /\ optr <= size * nmemb
  /\ pc \in {"sector", "next"} => optr <= obase + Chunk
  /\ pc = "sector" => optr + left <= obase + Chunk

\* All is untouched from the next byte on.
Untouched ==
  /\ pc \in {"item", "locate"} => \A k \in DOMAIN out : k >= obase => out[k] = -1
  /\ pc \in {"sector", "next"} => \A k \in DOMAIN out : k >= optr => out[k] = -1

IInv == Counters /\ Adds /\ Ahead /\ Untouched

\* What n bytes from disk byte p on must be for disk_stream_read to copy them
\* whole: it loses bytes where it runs past the end of a sector it entered
\* in the middle.
Whole(p, n) == p % Sector = 0 \/ (p % Sector) + n <= Sector

\* Every item of the request is such a range of the file.
WholeItems == \A m \in 0 .. nmemb - 1 : Whole(fpos + m * size, size)

\* Bytes of the answer that have been copied are bytes of the disk: a cluster
\* read for a negative offset is the file's first, which is far enough in.
Placed ==
  /\ fpos \in Int /\ cluster # 0 /\ at = fpos + obase
  /\ pc \in {"locate", "sector", "next"} => todo # 0
  /\ pc = "locate" /\ at < 0 => ahead = 0 /\ cluster = first
  /\ pc = "sector" => pos \in Nat
  /\ pc = "done" /\ result = nmemb => obase = size * nmemb

\* Whole items are copied without a gap.
NoGap ==
  WholeItems =>
    /\ pc \in {"locate", "sector", "next"} => Whole(at, todo)
    /\ pc = "sector" => Whole(pos, left) /\ optr + left = obase + Chunk
    /\ pc = "next" => optr = obase + Chunk
    /\ pc \in {"item", "locate", "done"} =>
         \A k \in DOMAIN out : k < obase => out[k] # -1
    /\ pc \in {"sector", "next"} =>
         \A k \in DOMAIN out : k < optr => out[k] # -1

\* A read within a file's first cluster never leaves that cluster.
AtHome ==
  fpos >= 0 /\ fpos + size * nmemb <= ClusterSize =>
    /\ pc \in {"locate", "sector", "next"} => todo = size
    /\ pc = "locate" => ahead = 0 /\ cluster = first
    /\ pc = "sector" => pos = Home(optr)
    /\ \A k \in DOMAIN out : out[k] \in {-1, Home(k)}

JInv == IInv /\ Placed /\ NoGap /\ AtHome

LEMMA Sizing ==
  /\ ClusterSize \in Nat \ {0}
  /\ \A x, y \in Nat : Least(x, y) \in Nat /\ Least(x, y) <= x /\ Least(x, y) <= y
  /\ \A x \in Int : x % Sector \in 0 .. Sector - 1
  /\ \A x \in Int : Passed(x) \in Nat
<1>1. ClusterSize \in Nat \ {0}
  BY FatReadAssumption DEF ClusterSize
<1>2. \A x, y \in Nat : Least(x, y) \in Nat /\ Least(x, y) <= x /\ Least(x, y) <= y
  BY DEF Least
<1>3. \A x \in Int : x % Sector \in 0 .. Sector - 1
  BY FatReadAssumption
<1>4. \A x \in Int : Passed(x) \in Nat
  <2> SUFFICES ASSUME NEW x \in Int PROVE Passed(x) \in Nat
    OBVIOUS
  <2> QED
    BY <1>1 DEF Passed
<1> QED
  BY <1>1, <1>2, <1>3, <1>4

\* C's remainder of an offset: short of a cluster either way, and apart from
\* the offset by whole clusters.
LEMMA IntoCluster ==
  ASSUME NEW x \in Int
  PROVE  /\ Into(x) \in Int /\ Into(x) > -ClusterSize
         /\ x >= 0 => Into(x) \in Nat /\ Into(x) = x % ClusterSize
         /\ \E d \in Int : x = d * ClusterSize + Into(x)
<1>1. ClusterSize \in Nat \ {0}
  BY Sizing
<1>2. CASE x >= 0
  <2>1. Into(x) = x % ClusterSize
    BY <1>2 DEF Into
  <2>2. /\ x % ClusterSize \in 0 .. ClusterSize - 1 /\ x \div ClusterSize \in Int
        /\ x = (x \div ClusterSize) * ClusterSize + (x % ClusterSize)
    BY <1>1
  <2>3. PICK d, t : d = x \div ClusterSize /\ t = x % ClusterSize
    OBVIOUS
  <2>4. d \in Int /\ t \in 0 .. ClusterSize - 1 /\ x = d * ClusterSize + t
    BY <2>2, <2>3
  <2>5. Into(x) = t
    BY <2>1, <2>3
  <2>6. Into(x) \in Nat /\ Into(x) > -ClusterSize
    BY <1>1, <2>4, <2>5
  <2>7. \E c \in Int : x = c * ClusterSize + Into(x)
    BY <2>4, <2>5
  <2> QED
    BY <2>1, <2>6, <2>7
<1>3. CASE x < 0
  <2>1. PICK y : y = -x
    OBVIOUS
  <2>2. PICK q, t : q = y \div ClusterSize /\ t = y % ClusterSize
    OBVIOUS
  <2>3. y \in Int /\ x = -y
    BY <2>1
  <2>4. /\ t \in 0 .. ClusterSize - 1 /\ q \in Int /\ y = q * ClusterSize + t
    BY <1>1, <2>2, <2>3
  <2>5. Into(x) = -t
    BY <1>3, <2>1, <2>2 DEF Into
  <2>6. -q \in Int /\ (-q) * ClusterSize = -(q * ClusterSize) /\ q * ClusterSize \in Int
    BY <1>1, <2>4
  <2>7. x = (-q) * ClusterSize + Into(x)
    BY <2>3, <2>4, <2>5, <2>6
  <2>8. PICK d : d = -q
    OBVIOUS
  <2>9. d \in Int /\ x = d * ClusterSize + Into(x)
    BY <2>6, <2>7, <2>8
  <2>10. Into(x) \in Int /\ Into(x) > -ClusterSize
    BY <1>1, <2>4, <2>5
  <2> QED
    BY <1>3, <2>9, <2>10
<1> QED
  BY <1>2, <1>3

LEMMA ChunkSize ==
  ASSUME Counters
  PROVE  Chunk \in Nat /\ Chunk <= todo /\ size * nmemb \in Nat
<1>1. todo \in Nat /\ size * nmemb \in Nat
  BY DEF Counters
<1> QED
  BY <1>1, Sizing DEF Chunk

\* Items that are not the last leave room for one more.
LEMMA Room ==
  ASSUME NEW m \in Nat, NEW n \in Nat, NEW s \in Nat, m < n
  PROVE  m * s \in Nat /\ (m + 1) * s = m * s + s /\ (m + 1) * s <= s * n
<1>1. PICK d \in Nat : n = m + 1 + d
  <2>1. n - m - 1 \in Nat /\ n = m + 1 + (n - m - 1)
    OBVIOUS
  <2> QED
    BY <2>1
<1>2. s * n = (m + 1) * s + s * d
  BY <1>1
<1>3. s * d \in Nat /\ m * s \in Nat /\ (m + 1) * s = m * s + s
  OBVIOUS
<1> QED
  BY <1>2, <1>3

\* Whatever is read for a FAT entry is a value of one.
LEMMA EntryValue ==
  ASSUME Counters, NEW c \in FatValue, NEW entry \in FatEntry(c)
  PROVE  entry \in FatValue
<1> DEFINE p == FatPos * (c * 2)
<1>1. FatPos \in Nat /\ FatValue \subseteq Nat
  BY FatReadAssumption DEF FatValue, Cluster
<1>2. p \in Nat
  BY <1>1
<1> HIDE DEF p
<1>3. CASE \E d \in Cluster : p = FatPos + 2 * d
  <2>1. PICK d \in Cluster : p = FatPos + 2 * d
    BY <1>3
  <2>2. (p - FatPos) \div 2 = d
    BY <1>1, <2>1 DEF Cluster
  <2>3. entry = fat[d]
    BY <1>3, <2>2 DEF FatEntry, p
  <2> QED
    BY <2>3 DEF Counters
<1>4. CASE ~\E d \in Cluster : p = FatPos + 2 * d
  BY <1>4 DEF FatEntry, p
<1> QED
  BY <1>3, <1>4
-----------------------------------------------------------------------------
LEMMA InitIInv == Init => IInv
<1> SUFFICES ASSUME Init PROVE IInv
  OBVIOUS
<1>1. /\ size \in Nat \ {0} /\ nmemb \in Nat \ {0} /\ fpos \in Int
      /\ first \in FatValue /\ size * nmemb \in Nat
  BY FatReadAssumption DEF Init, FatValue
<1>2. Counters
  <2>1. out \in [0 .. size * nmemb - 1 -> Int]
    BY DEF Init
  <2> QED
    BY <1>1, <2>1 DEF Init, Counters
<1>3. Adds /\ Ahead /\ Untouched
  BY <1>1 DEF Init, Adds, Ahead, Untouched
<1> QED
  BY <1>2, <1>3 DEF IInv

LEMMA StartIInv ==
  ASSUME IInv, StartItem
  PROVE  IInv'
<1> USE DEF request, stream
<1>1. /\ pc = "item" /\ item < nmemb /\ pc' = "locate" /\ todo' = size
      /\ cluster' = first /\ ahead' = Passed(at)
      /\ UNCHANGED <<fat, first, fpos, size, nmemb, item, at, obase,
                     pos, left, optr, out, result>>
  BY DEF StartItem
<1>2. Counters
  BY DEF IInv
<1>3. /\ obase = item * size /\ (item + 1) * size = item * size + size
      /\ (item + 1) * size <= size * nmemb /\ item * size \in Nat
  BY <1>1, <1>2, Room DEF IInv, Adds, Counters
<1>4. ahead' \in Nat /\ cluster' \in FatValue
  BY <1>1, <1>2, Sizing DEF Counters, FatValue
<1>5. Counters'
  BY <1>1, <1>2, <1>4 DEF Counters
<1>6. Adds'
  BY <1>1, <1>2, <1>3 DEF Counters, Adds
<1>7. Ahead' /\ Untouched'
  BY <1>1 DEF IInv, Ahead, Untouched
<1> QED
  BY <1>5, <1>6, <1>7 DEF IInv

LEMMA LocateIInv ==
  ASSUME IInv, FollowChain \/ ChainEnds \/ Finish
  PROVE  IInv'
<1> USE DEF request, stream, chunk
<1>1. /\ UNCHANGED <<fat, first, fpos, size, nmemb, item, at, todo, obase,
                     pos, left, optr, out>>
      /\ pc' = "done" \/ (pc' = "locate" /\ pc = "locate")
  BY DEF FollowChain, ChainEnds, Finish
<1>2. Counters
  BY DEF IInv
<1>3. ahead' \in Nat /\ cluster' \in FatValue /\ result' \in {0, -1, nmemb}
  BY <1>2, EntryValue DEF FollowChain, ChainEnds, Finish, Counters
<1>4. Counters'
  BY <1>1, <1>2, <1>3 DEF Counters
<1>5. Adds' /\ Ahead' /\ Untouched'
  BY <1>1 DEF IInv, Adds, Ahead, Untouched
<1> QED
  BY <1>4, <1>5 DEF IInv

LEMMA SeekIInv ==
  ASSUME IInv, SeekCluster
  PROVE  IInv'
<1> USE DEF request, chunk
<1>1. /\ pc = "locate" /\ pc' = "sector" /\ left' = Chunk /\ optr' = obase
      /\ pos' = DataPos + (cluster - 2) * ClusterSize + Into(at)
      /\ UNCHANGED <<fat, first, fpos, size, nmemb, item, at, todo, obase,
                     ahead, cluster, out, result>>
  BY DEF SeekCluster, Chunk
<1>2. Counters /\ Adds
  BY DEF IInv
<1>3. pos' \in Int
  <2>1. cluster \in Nat /\ DataPos \in Nat
    BY <1>2, FatReadAssumption DEF Counters, FatValue, Cluster
  <2>2. Into(at) \in Int
    BY <1>2, IntoCluster DEF Counters
  <2>3. (cluster - 2) * ClusterSize \in Int
    BY <2>1, Sizing
  <2> QED
    BY <1>1, <2>1, <2>2, <2>3
<1>4. Chunk \in Nat /\ Chunk <= todo
  BY <1>2, ChunkSize
<1>9. Chunk' = Chunk
  BY <1>1 DEF Chunk
<1>5. Counters'
  BY <1>1, <1>2, <1>3, <1>4 DEF Counters
<1>6. Adds'
  BY <1>1, <1>2 DEF Adds
<1>7. Ahead'
  <2>1. size * nmemb \in Nat
    BY <1>2 DEF Counters
  <2> QED
    BY <1>1, <1>2, <1>4, <1>9, <2>1 DEF Ahead, Adds, Counters
<1>8. Untouched'
  BY <1>1 DEF IInv, Untouched
<1> QED
  BY <1>5, <1>6, <1>7, <1>8 DEF IInv

LEMMA SectorIInv ==
  ASSUME IInv, ReadSector
  PROVE  IInv'
<1> USE DEF request, chunk
<1> DEFINE n == Least(Least(left, Sector), Sector - (pos % Sector))
<1>1. /\ pc = "sector" /\ pos' = pos + n /\ optr' = optr + n
      /\ out' = [k \in DOMAIN out |-> IF k \in optr .. optr + n - 1
                                      THEN pos + k - optr ELSE out[k]]
      /\ left' = IF left > Sector THEN left - Sector ELSE left
      /\ pc' = IF left > Sector THEN "sector" ELSE "next"
      /\ UNCHANGED <<fat, first, fpos, size, nmemb, item, at, todo, obase,
                     ahead, cluster, result>>
  BY DEF ReadSector
<1>2. Counters /\ Adds /\ Ahead
  BY DEF IInv
<1>3. n \in Nat /\ n <= left /\ n <= Sector
  <2> DEFINE room == Sector - (pos % Sector)
             most == Least(left, Sector)
  <2>1. room \in Nat /\ Sector \in Nat /\ left \in Nat
    BY <1>2, Sizing, FatReadAssumption DEF Counters
  <2> HIDE DEF room
  <2>2. most \in Nat /\ most <= left /\ most <= Sector
    BY <2>1, Sizing
  <2> HIDE DEF most
  <2>3. Least(most, room) \in Nat /\ Least(most, room) <= most
    BY <2>1, <2>2, Sizing
  <2>4. n = Least(most, room)
    BY DEF most, room
  <2> QED
    BY <2>1, <2>2, <2>3, <2>4
<1> HIDE DEF n
<1>4. Sector \in Nat
  BY FatReadAssumption
<1>5. Counters'
  <2>1. pos' \in Int /\ optr' \in Nat /\ left' \in Nat
    BY <1>1, <1>2, <1>3, <1>4 DEF Counters
  <2>2. out' \in [0 .. size * nmemb - 1 -> Int]
    <3>1. /\ out \in [0 .. size * nmemb - 1 -> Int]
          /\ pos \in Int /\ optr \in Int /\ size * nmemb \in Nat
      BY <1>2 DEF Counters
    <3> QED
      BY <1>1, <3>1
  <2>3. pc' \in {"item", "locate", "sector", "next", "done"}
    BY <1>1
  <2> QED
    BY <1>1, <1>2, <2>1, <2>2, <2>3 DEF Counters
<1>6. Adds'
  BY <1>1, <1>2 DEF Adds
<1>7. Ahead'
  <2>1. Chunk \in Nat /\ Chunk <= todo /\ Chunk' = Chunk /\ size * nmemb \in Nat
    <3>1. Chunk' = Chunk
      BY <1>1 DEF Chunk
    <3> QED
      BY <1>2, <3>1, ChunkSize
  <2>2. optr' <= obase + Chunk
    BY <1>1, <1>2, <1>3, <2>1 DEF Ahead, Counters
  <2>3. left > Sector => optr' + left' <= obase + Chunk
    BY <1>1, <1>2, <1>3, <1>4, <2>1 DEF Ahead, Counters
  <2>4. optr' <= size * nmemb
    <3>1. obase + Chunk <= size * nmemb
      BY <1>2, <2>1 DEF Adds, Counters
    <3>2. optr' \in Nat /\ obase \in Nat
      BY <1>2, <1>5 DEF Counters
    <3> QED
      BY <2>1, <2>2, <3>1, <3>2
  <2> QED
    BY <1>1, <2>1, <2>2, <2>3, <2>4 DEF Ahead
<1>8. Untouched'
  <2>1. \A k \in DOMAIN out' : k >= optr' => out'[k] = -1
    <3> SUFFICES ASSUME NEW k \in DOMAIN out', k >= optr'
                 PROVE  out'[k] = -1
      OBVIOUS
    <3>1. k \in DOMAIN out /\ k \in Int
      BY <1>1, <1>2 DEF Counters
    <3>2. k >= optr /\ k \notin optr .. optr + n - 1
      BY <1>1, <1>2, <1>3, <3>1 DEF Counters
    <3> QED
      BY <1>1, <3>1, <3>2 DEF IInv, Untouched
  <2> QED
    BY <1>1, <2>1 DEF Untouched
<1> QED
  BY <1>5, <1>6, <1>7, <1>8 DEF IInv

LEMMA NextChunkIInv ==
  ASSUME IInv, NextChunk
  PROVE  IInv'
<1> USE DEF request, stream
<1>1. /\ pc = "next" /\ todo' = todo - Chunk /\ at' = at + Chunk
      /\ obase' = obase + Chunk
      /\ UNCHANGED <<fat, first, fpos, size, nmemb, pos, left, optr, out, result>>
      /\ \/ /\ todo > Chunk /\ pc' = "locate" /\ UNCHANGED item
            /\ ahead' = Passed(at + Chunk) /\ cluster' = first
         \/ /\ ~(todo > Chunk) /\ pc' = "item" /\ item' = item + 1
            /\ UNCHANGED <<ahead, cluster>>
  BY DEF NextChunk, Chunk
<1>2. Counters /\ Adds /\ Ahead
  BY DEF IInv
<1>3. Chunk \in Nat /\ Chunk <= todo
  BY <1>2, ChunkSize
<1>4. /\ item < nmemb /\ obase + todo = (item + 1) * size
      /\ obase + todo <= size * nmemb
  BY <1>1, <1>2 DEF Adds
<1>5. obase' + todo' = obase + todo /\ (~(todo > Chunk) => todo' = 0)
  BY <1>1, <1>2, <1>3 DEF Counters
<1>6. Counters'
  <2>1. ahead' \in Nat /\ cluster' \in FatValue
    <3>1. at + Chunk \in Int
      BY <1>2, <1>3 DEF Counters
    <3>2. Passed(at + Chunk) \in Nat
      BY <3>1, Sizing
    <3> QED
      BY <1>1, <1>2, <3>2 DEF Counters, FatValue
  <2>2. /\ item' \in Nat /\ item' <= nmemb /\ at' \in Int /\ todo' \in Nat
        /\ obase' \in Nat /\ todo' <= size
    BY <1>1, <1>2, <1>3, <1>4 DEF Counters
  <2>3. pc' \in {"item", "locate"}
    BY <1>1
  <2> QED
    BY <1>1, <1>2, <2>1, <2>2, <2>3 DEF Counters
<1>7. Adds'
  <2>1. obase' + todo' <= size' * nmemb'
    BY <1>1, <1>4, <1>5
  <2>2. CASE todo > Chunk
    BY <1>1, <1>4, <1>5, <2>1, <2>2 DEF Adds
  <2>3. CASE ~(todo > Chunk)
    <3>1. obase' = item' * size'
      BY <1>1, <1>4, <1>5, <1>6, <2>3 DEF Counters
    <3> QED
      BY <1>1, <2>1, <2>3, <3>1 DEF Adds
  <2> QED
    BY <2>2, <2>3
<1>8. Ahead'
  BY <1>1, <1>2 DEF Ahead
<1>9. Untouched'
  <2>1. \A k \in DOMAIN out' : k >= obase' => out'[k] = -1
    <3> SUFFICES ASSUME NEW k \in DOMAIN out', k >= obase'
                 PROVE  out'[k] = -1
      OBVIOUS
    <3>1. k \in DOMAIN out /\ k \in Int /\ optr <= obase' /\ obase' \in Nat
      BY <1>1, <1>2, <1>6 DEF Counters, Ahead
    <3>2. k >= optr
      BY <1>2, <3>1 DEF Counters
    <3> QED
      BY <1>1, <3>1, <3>2 DEF IInv, Untouched
  <2> QED
    BY <1>1, <2>1 DEF Untouched
<1> QED
  BY <1>6, <1>7, <1>8, <1>9 DEF IInv

LEMMA NextIInv == IInv /\ [Next]_vars => IInv'
<1> SUFFICES ASSUME IInv, [Next]_vars PROVE IInv'
  OBVIOUS
<1>1. CASE UNCHANGED vars
  BY <1>1 DEF vars, request, chunk, stream, IInv, Counters, Adds, Ahead,
              Untouched, Chunk
<1> QED
  BY <1>1, StartIInv, LocateIInv, SeekIInv, SectorIInv, NextChunkIInv DEF Next
-----------------------------------------------------------------------------
\* Adding a multiple of n does not change a remainder.
LEMMA SameOffset ==
  ASSUME NEW n \in Nat \ {0}, NEW x \in Int, NEW y \in Int, NEW c \in Int,
         y = x + c * n
  PROVE  y % n = x % n
<1> DEFINE q == x \div n
           r == x % n
           k == y \div n
           t == y % n
           e == k - q - c
<1>1. /\ q \in Int /\ r \in 0 .. n - 1 /\ x = q * n + r
      /\ k \in Int /\ t \in 0 .. n - 1 /\ y = k * n + t
  OBVIOUS
<1> HIDE DEF q, r, k, t
<1>2. e \in Int /\ e * n = k * n - q * n - c * n
  BY <1>1
<1>3. q * n \in Int /\ k * n \in Int /\ c * n \in Int
  BY <1>1
<1> HIDE DEF e
<1>4. e * n = r - t
  BY <1>1, <1>2, <1>3
<1>5. ~(e >= 1)
  <2>1. SUFFICES ASSUME e >= 1 PROVE FALSE
    OBVIOUS
  <2>2. e * n >= n
    BY <1>2, <2>1
  <2> QED
    BY <1>1, <1>4, <2>2
<1>6. ~(e <= -1)
  <2>1. SUFFICES ASSUME e <= -1 PROVE FALSE
    OBVIOUS
  <2>2. e * n <= -n
    BY <1>2, <2>1
  <2> QED
    BY <1>1, <1>4, <2>2
<1>7. e = 0
  BY <1>2, <1>5, <1>6
<1>8. r = t
  BY <1>1, <1>4, <1>7
<1> QED
  BY <1>8 DEF r, t

\* A cluster is a whole number of sectors, and the data area starts on one:
\* a byte of a file is as far into its sector as it is into the file's.
LEMMA SectorAligned ==
  ASSUME NEW c \in Int, NEW x \in Int
  PROVE  (DataPos + c * ClusterSize + Into(x)) % Sector = x % Sector
<1>0. PICK d \in Int : x = d * ClusterSize + Into(x)
  BY IntoCluster
<1> DEFINE a == DataPos \div Sector
           r == Into(x)
           y == DataPos + c * ClusterSize + r
           w == a + c * PerCluster - d * PerCluster
<1>1. /\ Sector \in Nat \ {0} /\ PerCluster \in Nat \ {0}
      /\ DataPos \in Nat /\ DataPos % Sector = 0
  BY FatReadAssumption
<1>2. ClusterSize \in Nat \ {0} /\ ClusterSize = Sector * PerCluster
  BY Sizing DEF ClusterSize
<1>3. a \in Int /\ DataPos = a * Sector
  BY <1>1
<1>4. d \in Int /\ r \in Int /\ x = d * ClusterSize + r
  BY <1>0, IntoCluster
<1>5. c * ClusterSize = (c * PerCluster) * Sector /\ c * PerCluster \in Int
  BY <1>1, <1>2
<1> HIDE DEF a, r
<1>6. d * ClusterSize = (d * PerCluster) * Sector /\ d * PerCluster \in Int
  BY <1>1, <1>2, <1>4
<1>7. w \in Int /\ y \in Int
  BY <1>3, <1>4, <1>5, <1>6, <1>2
<1>8. w * Sector = a * Sector + (c * PerCluster) * Sector - (d * PerCluster) * Sector
  <2> DEFINE u == c * PerCluster
             v == d * PerCluster
  <2>1. u \in Int /\ v \in Int /\ w = a + u - v
    BY <1>5, <1>6
  <2> HIDE DEF w, u, v
  <2>2. w * Sector = a * Sector + u * Sector - v * Sector
    BY <1>1, <1>3, <2>1
  <2> QED
    BY <2>2 DEF u, v
<1>9. y = x + w * Sector
  <2>1. /\ a * Sector \in Int /\ (c * PerCluster) * Sector \in Int
        /\ (d * PerCluster) * Sector \in Int
    BY <1>1, <1>3, <1>5, <1>6
  <2>2. y = a * Sector + (c * PerCluster) * Sector + r
    BY <1>3, <1>5
  <2>3. x = (d * PerCluster) * Sector + r
    BY <1>4, <1>6
  <2> QED
    BY <1>4, <1>8, <2>1, <2>2, <2>3
<1> HIDE DEF w, y
<1>10. y % Sector = x % Sector
  <2>1. x \in Int
    OBVIOUS
  <2> QED
    BY <1>1, <1>7, <1>9, <2>1, SameOffset, Zenon
<1> QED
  BY <1>10 DEF y, r

\* How far one call of disk_stream_read gets in a whole range: to its end, or
\* to the end of the sector the range started with.
LEMMA WholeSector ==
  ASSUME NEW p \in Nat, NEW n \in Nat, Whole(p, n)
  PROVE  LET m == Least(Least(n, Sector), Sector - (p % Sector)) IN
         /\ n <= Sector => m = n
         /\ n > Sector => m = Sector /\ Whole(p + Sector, n - Sector)
<1> DEFINE r == p % Sector
<1>1. Sector \in Nat \ {0} /\ r \in 0 .. Sector - 1
  BY FatReadAssumption
<1>2. r = 0 \/ r + n <= Sector
  BY DEF Whole
<1>3. r = 0 => (p + Sector) % Sector = 0
  <2> DEFINE y == p + Sector
             one == 1
  <2>1. y \in Int /\ y = p + one * Sector /\ one \in Int /\ p \in Int
    BY <1>1
  <2> HIDE DEF y, one
  <2>2. y % Sector = p % Sector
    BY <1>1, <2>1, SameOffset, Zenon
  <2> QED
    BY <2>2 DEF y
<1>4. (p + Sector) % Sector = 0 => Whole(p + Sector, n - Sector)
  BY DEF Whole
<1> HIDE DEF r
<1>5. n <= Sector => Least(Least(n, Sector), Sector - r) = n
  BY <1>1, <1>2 DEF Least
<1>6. n > Sector => r = 0 /\ Least(Least(n, Sector), Sector - r) = Sector
  BY <1>1, <1>2 DEF Least
<1> QED
  BY <1>3, <1>4, <1>5, <1>6 DEF r
-----------------------------------------------------------------------------
LEMMA InitJInv == Init => JInv
<1> SUFFICES ASSUME Init PROVE JInv
  OBVIOUS
<1>1. IInv
  BY InitIInv
<1>2. /\ fpos \in Int /\ cluster # 0 /\ at = fpos + obase /\ obase = 0
      /\ pc = "item" /\ size * nmemb \in Nat
      /\ \A k \in DOMAIN out : k \in Nat /\ out[k] = -1
  BY FatReadAssumption DEF Init, Cluster
<1>3. Placed
  BY <1>2 DEF Placed
<1>4. NoGap
  BY <1>2 DEF NoGap
<1>5. AtHome
  BY <1>2 DEF AtHome
<1> QED
  BY <1>1, <1>3, <1>4, <1>5 DEF JInv

\* The file's bytes up to the one a chunk starts at lie in the first cluster
\* if the whole request does.
LEMMA InFirstCluster ==
  ASSUME IInv, Placed, fpos >= 0, fpos + size * nmemb <= ClusterSize,
         NEW t \in Nat \ {0}, obase + t <= size * nmemb
  PROVE  Passed(at) = 0 /\ Into(at) = at /\ t <= ClusterSize
<1>1. /\ ClusterSize \in Nat \ {0} /\ size * nmemb \in Nat
      /\ obase \in Nat /\ fpos \in Nat /\ at = fpos + obase
  BY Sizing DEF IInv, Counters, Placed
<1>2. at \in 0 .. ClusterSize - 1 /\ t <= ClusterSize
  BY <1>1
<1> QED
  BY <1>1, <1>2 DEF Passed, Into

LEMMA FinishJInv ==
  ASSUME JInv, Finish
  PROVE  JInv'
<1> USE DEF request, chunk, stream
<1>1. /\ pc = "item" /\ item = nmemb /\ pc' = "done"
      /\ UNCHANGED <<fat, first, fpos, size, nmemb, item, at, todo, obase,
                     ahead, cluster, pos, left, optr, out>>
  BY DEF Finish
<1>2. IInv'
  BY LocateIInv DEF JInv
<1>3. obase = size * nmemb
  BY <1>1 DEF JInv, IInv, Counters, Adds
<1>4. Placed'
  BY <1>1, <1>3 DEF JInv, Placed
<1>5. NoGap'
  BY <1>1 DEF JInv, NoGap, WholeItems, Whole
<1>6. AtHome'
  BY <1>1 DEF JInv, AtHome, Home
<1> QED
  BY <1>2, <1>4, <1>5, <1>6 DEF JInv

LEMMA StartJInv ==
  ASSUME JInv, StartItem
  PROVE  JInv'
<1> USE DEF request, stream
<1>1. /\ pc = "item" /\ item < nmemb /\ pc' = "locate" /\ todo' = size
      /\ cluster' = first /\ ahead' = Passed(at)
      /\ UNCHANGED <<fat, first, fpos, size, nmemb, item, at, obase,
                     pos, left, optr, out, result>>
  BY DEF StartItem
<1>2. IInv'
  BY StartIInv DEF JInv
<1>3. Counters /\ Placed /\ IInv
  BY DEF JInv, IInv
<1>4. /\ obase = item * size /\ obase + size <= size * nmemb
  BY <1>1, <1>3, Room DEF IInv, Adds, Counters
<1>5. Placed'
  BY <1>1, <1>3 DEF Placed, Counters, Cluster, Passed
<1>6. NoGap'
  <2>1. WholeItems => Whole(at, size)
    <3>1. item \in 0 .. nmemb - 1
      BY <1>1, <1>3 DEF Counters
    <3>2. at = fpos + item * size
      BY <1>3, <1>4 DEF Placed
    <3> QED
      BY <3>1, <3>2 DEF WholeItems
  <2>2. WholeItems => \A k \in DOMAIN out : k < obase => out[k] # -1
    BY <1>1 DEF JInv, NoGap
  <2> QED
    BY <1>1, <2>1, <2>2 DEF NoGap, WholeItems, Whole
<1>7. AtHome'
  <2>1. fpos >= 0 /\ fpos + size * nmemb <= ClusterSize => Passed(at) = 0
    <3>1. size \in Nat \ {0}
      BY <1>3 DEF Counters
    <3> QED
      BY <1>3, <1>4, <3>1, InFirstCluster
  <2> QED
    BY <1>1, <2>1 DEF JInv, AtHome, Home
<1> QED
  BY <1>2, <1>5, <1>6, <1>7 DEF JInv

\* Within the first cluster no FAT entry is asked for.
LEMMA FollowJInv ==
  ASSUME JInv, FollowChain \/ ChainEnds
  PROVE  JInv'
<1> USE DEF request, chunk, stream
<1>1. /\ pc = "locate" /\ ahead > 0
      /\ \/ pc' = "locate" /\ cluster' \notin Rejected
         \/ pc' = "done" /\ result' = -1 /\ cluster' = cluster
      /\ UNCHANGED <<fat, first, fpos, size, nmemb, item, at, todo, obase,
                     pos, left, optr, out>>
  BY DEF FollowChain, ChainEnds
<1>2. IInv'
  BY LocateIInv DEF JInv
<1>3. Counters /\ Placed
  BY DEF JInv, IInv
<1>4. Placed'
  BY <1>1, <1>3 DEF Placed, Rejected, Counters
<1>5. NoGap'
  BY <1>1 DEF JInv, NoGap, WholeItems, Whole
<1>6. AtHome'
  BY <1>1 DEF JInv, AtHome, Home
<1> QED
  BY <1>2, <1>4, <1>5, <1>6 DEF JInv

LEMMA SeekJInv ==
  ASSUME JInv, SeekCluster
  PROVE  JInv'
<1> USE DEF request, chunk
<1>1. /\ pc = "locate" /\ pc' = "sector" /\ left' = Chunk /\ optr' = obase
      /\ pos' = DataPos + (cluster - 2) * ClusterSize + Into(at)
      /\ UNCHANGED <<fat, first, fpos, size, nmemb, item, at, todo, obase,
                     ahead, cluster, out, result>>
  BY DEF SeekCluster, Chunk
<1>2. IInv'
  BY SeekIInv DEF JInv
<1>3. Counters /\ Placed /\ IInv /\ Adds
  BY DEF JInv, IInv
<1>4. Chunk \in Nat /\ Chunk <= todo /\ Chunk' = Chunk
  BY <1>1, <1>3, ChunkSize DEF Chunk
<1>5. cluster \in Nat /\ cluster >= 1 /\ at \in Int
  BY <1>3, FatReadAssumption DEF Counters, Placed, FatValue, Cluster
<1>6. pos' \in Nat
  <2>1. ClusterSize \in Nat /\ DataPos \in Nat /\ DataPos >= ClusterSize
    BY Sizing, FatReadAssumption
  <2>2. Into(at) \in Int /\ Into(at) > -ClusterSize /\ (at >= 0 => Into(at) \in Nat)
    BY <1>5, IntoCluster
  <2>3. (cluster - 2) * ClusterSize >= -ClusterSize
    <3> DEFINE e == cluster - 1
    <3>1. e \in Nat /\ cluster - 2 = e - 1
      BY <1>5
    <3> HIDE DEF e
    <3>2. (e - 1) * ClusterSize = e * ClusterSize - ClusterSize
      BY <2>1, <3>1
    <3>3. e * ClusterSize \in Nat
      BY <2>1, <3>1
    <3> QED
      BY <2>1, <3>1, <3>2, <3>3
  <2>4. (cluster - 2) * ClusterSize \in Int
    BY <1>5, <2>1
  <2>5. CASE at >= 0
    BY <1>1, <2>1, <2>2, <2>3, <2>4, <2>5
  <2>6. CASE at < 0
    <3>1. cluster >= 2
      BY <1>1, <1>3, <2>6 DEF Placed, Counters, Cluster
    <3>2. (cluster - 2) * ClusterSize \in Nat
      BY <1>5, <2>1, <3>1
    <3> QED
      BY <1>1, <2>1, <2>2, <3>2
  <2> QED
    BY <1>5, <2>5, <2>6
<1>7. Placed'
  BY <1>1, <1>3, <1>6 DEF Placed
<1>8. NoGap'
  <2>1. pos' % Sector = at % Sector
    <3>1. cluster - 2 \in Int
      BY <1>5
    <3> QED
      BY <1>1, <1>5, <3>1, SectorAligned
  <2>2. WholeItems => Whole(at, Chunk)
    <3>1. at % Sector \in Nat /\ Sector \in Nat /\ todo \in Nat
      BY <1>3, <1>5, Sizing, FatReadAssumption DEF Counters
    <3>2. WholeItems => Whole(at, todo)
      BY <1>1 DEF JInv, NoGap
    <3> QED
      BY <1>4, <3>1, <3>2 DEF Whole
  <2>3. WholeItems => (Whole(pos, left))'
    BY <1>1, <2>1, <2>2 DEF Whole
  <2>4. WholeItems => \A k \in DOMAIN out : k < obase => out[k] # -1
    BY <1>1 DEF JInv, NoGap
  <2>5. WholeItems' = WholeItems
    BY <1>1 DEF WholeItems, Whole
  <2>6. WholeItems' =>
          /\ (Whole(pos, left))' /\ optr' + left' = obase' + Chunk'
          /\ (Whole(at, todo))'
          /\ \A k \in DOMAIN out' : k < optr' => out'[k] # -1
    <3>1. WholeItems => (Whole(at, todo))'
      BY <1>1 DEF JInv, NoGap, Whole
    <3> QED
      BY <1>1, <1>4, <2>3, <2>4, <2>5, <3>1
  <2> QED
    BY <1>1, <2>6 DEF NoGap
<1>9. AtHome'
  <2>1. SUFFICES ASSUME fpos >= 0, fpos + size * nmemb <= ClusterSize
                 PROVE  pos' = Home(obase)
    BY <1>1 DEF JInv, AtHome, Home
  <2>2. todo \in Nat \ {0} /\ obase + todo <= size * nmemb
    BY <1>1, <1>3 DEF Placed, Adds, Counters
  <2>3. Into(at) = at
    BY <1>3, <2>1, <2>2, InFirstCluster
  <2>4. cluster = first
    BY <1>1, <2>1 DEF JInv, AtHome
  <2>5. /\ at = fpos + obase /\ fpos \in Int /\ obase \in Nat
        /\ DataPos \in Nat /\ (first - 2) * ClusterSize \in Int
    <3>1. first - 2 \in Int
      BY <1>5, <2>4
    <3> QED
      BY <1>3, <3>1, Sizing, FatReadAssumption DEF Placed, Counters
  <2> QED
    BY <1>1, <2>3, <2>4, <2>5 DEF Home
<1> QED
  BY <1>2, <1>7, <1>8, <1>9 DEF JInv

LEMMA SectorJInv ==
  ASSUME JInv, ReadSector
  PROVE  JInv'
<1> USE DEF request, chunk
<1> DEFINE n == Least(Least(left, Sector), Sector - (pos % Sector))
<1>1. /\ pc = "sector" /\ pos' = pos + n /\ optr' = optr + n
      /\ out' = [k \in DOMAIN out |-> IF k \in optr .. optr + n - 1
                                      THEN pos + k - optr ELSE out[k]]
      /\ left' = IF left > Sector THEN left - Sector ELSE left
      /\ pc' = IF left > Sector THEN "sector" ELSE "next"
      /\ UNCHANGED <<fat, first, fpos, size, nmemb, item, at, todo, obase,
                     ahead, cluster, result>>
  BY DEF ReadSector
<1>2. IInv'
  BY SectorIInv DEF JInv
<1>3. /\ Counters /\ Placed /\ IInv
      /\ pos \in Nat /\ optr \in Nat /\ left \in Nat /\ obase \in Nat
      /\ DOMAIN out \subseteq Int /\ Sector \in Nat \ {0}
  BY <1>1, FatReadAssumption DEF JInv, IInv, Counters, Placed
<1>4. Chunk' = Chunk /\ Chunk \in Nat
  BY <1>1, <1>3, ChunkSize DEF Chunk
<1>5. n \in Nat
  <2>1. Sector - (pos % Sector) \in Nat
    BY <1>3, Sizing
  <2> QED
    BY <1>3, <2>1 DEF Least
<1>6. WholeItems =>
        /\ Whole(pos, left)
        /\ left <= Sector => n = left
        /\ left > Sector => n = Sector /\ Whole(pos + Sector, left - Sector)
  <2>1. WholeItems => Whole(pos, left)
    BY <1>1 DEF JInv, NoGap
  <2> QED
    BY <1>3, <2>1, WholeSector
<1> HIDE DEF n
<1>7. Placed'
  BY <1>1, <1>3, <1>5 DEF Placed
<1>8. NoGap'
  <2> SUFFICES ASSUME WholeItems
               PROVE  /\ pc' = "sector" => /\ (Whole(pos, left))'
                                           /\ optr' + left' = obase' + Chunk'
                      /\ pc' = "next" => optr' = obase' + Chunk'
                      /\ \A k \in DOMAIN out' : k < optr' => out'[k] # -1
                      /\ (Whole(at, todo))'
    <3>1. WholeItems' = WholeItems
      BY <1>1 DEF WholeItems, Whole
    <3>2. pc' \in {"sector", "next"}
      BY <1>1
    <3> QED
      BY <3>1, <3>2 DEF NoGap
  <2>1. (Whole(at, todo))'
    BY <1>1 DEF JInv, NoGap, Whole
  <2>2. optr + left = obase + Chunk
    BY <1>1 DEF JInv, NoGap
  <2>3. \A k \in DOMAIN out' : k < optr' => out'[k] # -1
    <3> SUFFICES ASSUME NEW k \in DOMAIN out', k < optr'
                 PROVE  out'[k] # -1
      OBVIOUS
    <3>1. k \in DOMAIN out /\ k \in Int
      BY <1>1, <1>3
    <3>2. CASE k < optr
      BY <1>1, <1>3, <3>1, <3>2 DEF JInv, NoGap
    <3>3. CASE k >= optr
      <4>1. k \in optr .. optr + n - 1
        BY <1>1, <1>3, <1>5, <3>1, <3>3
      <4> QED
        BY <1>1, <1>3, <3>1, <4>1
    <3> QED
      BY <1>3, <3>1, <3>2, <3>3
  <2>4. CASE left > Sector
    <3>1. (Whole(pos, left))'
      BY <1>1, <1>6, <2>4 DEF Whole
    <3> QED
      BY <1>1, <1>3, <1>4, <1>6, <2>1, <2>2, <2>3, <2>4, <3>1
  <2>5. CASE ~(left > Sector)
    BY <1>1, <1>3, <1>4, <1>6, <2>1, <2>2, <2>3, <2>5
  <2> QED
    BY <2>4, <2>5
<1>9. AtHome'
  <2> SUFFICES ASSUME fpos >= 0, fpos + size * nmemb <= ClusterSize
               PROVE  /\ todo = size
                      /\ pos' = Home(optr')
                      /\ \A k \in DOMAIN out' : out'[k] \in {-1, Home(k)}
    BY <1>1 DEF AtHome, Home
  <2> DEFINE base == DataPos + (first - 2) * ClusterSize + fpos
  <2>1. base \in Int
    <3> DEFINE f == first - 2
    <3>1. f \in Int /\ base = DataPos + f * ClusterSize + fpos
      BY <1>3 DEF Counters, Cluster
    <3>2. DataPos \in Int /\ ClusterSize \in Int /\ fpos \in Int
      BY <1>3, Sizing, FatReadAssumption DEF Placed
    <3> HIDE DEF f, base
    <3> QED
      BY <3>1, <3>2
  <2>2. \A k : Home(k) = base + k
    BY DEF Home
  <2> HIDE DEF base
  <2>3. todo = size /\ pos = base + optr /\ \A k \in DOMAIN out : out[k] \in {-1, base + k}
    BY <1>1, <2>2 DEF JInv, AtHome
  <2>4. pos' = base + optr'
    BY <1>1, <1>3, <1>5, <2>1, <2>3
  <2>5. \A k \in DOMAIN out' : out'[k] \in {-1, base + k}
    BY <1>1, <1>3, <2>1, <2>3
  <2> QED
    BY <2>2, <2>3, <2>4, <2>5
<1> QED
  BY <1>2, <1>7, <1>8, <1>9 DEF JInv

LEMMA NextChunkJInv ==
  ASSUME JInv, NextChunk
  PROVE  JInv'
<1> USE DEF request, stream
<1>1. /\ pc = "next" /\ todo' = todo - Chunk /\ at' = at + Chunk
      /\ obase' = obase + Chunk
      /\ UNCHANGED <<fat, first, fpos, size, nmemb, pos, left, optr, out, result>>
      /\ \/ /\ todo > Chunk /\ pc' = "locate" /\ UNCHANGED item
            /\ ahead' = Passed(at + Chunk) /\ cluster' = first
         \/ /\ ~(todo > Chunk) /\ pc' = "item"
            /\ UNCHANGED cluster
  BY DEF NextChunk, Chunk
<1>2. IInv'
  BY NextChunkIInv DEF JInv
<1>3. /\ Counters /\ Placed /\ IInv
      /\ todo \in Nat \ {0} /\ at \in Int /\ obase \in Nat
  BY <1>1 DEF JInv, IInv, Counters, Placed
<1>4. Chunk \in Nat /\ Chunk <= todo
  BY <1>3, ChunkSize
<1>5. Placed'
  BY <1>1, <1>3, <1>4 DEF Placed, Counters, Cluster, Passed
<1>6. NoGap'
  <2>1. WholeItems' = WholeItems
    BY <1>1 DEF WholeItems, Whole
  <2>2. WholeItems => \A k \in DOMAIN out' : k < obase' => out'[k] # -1
    BY <1>1 DEF JInv, NoGap
  <2>3. WholeItems /\ todo > Chunk => (Whole(at, todo))'
    <3> SUFFICES ASSUME WholeItems, todo > Chunk
                 PROVE  (at + Chunk) % Sector = 0
      BY <1>1 DEF Whole
    <3>1. /\ Sector \in Nat \ {0} /\ PerCluster \in Nat \ {0}
          /\ ClusterSize = Sector * PerCluster /\ ClusterSize \in Nat
      BY FatReadAssumption, Sizing DEF ClusterSize
    <3>2. Chunk = ClusterSize
      BY <1>3, <3>1 DEF Chunk, Least
    <3>3. ClusterSize >= Sector
      BY <3>1
    <3>4. at % Sector = 0
      <4>1. Whole(at, todo)
        BY <1>1 DEF JInv, NoGap
      <4>2. at % Sector \in Nat
        BY <1>3, <3>1
      <4> QED
        BY <1>3, <3>1, <3>2, <3>3, <4>1, <4>2 DEF Whole
    <3> DEFINE y == at + Chunk
    <3>5. y \in Int /\ y = at + PerCluster * Sector
      BY <1>3, <3>1, <3>2
    <3>6. at \in Int /\ PerCluster \in Int
      BY <1>3, <3>1
    <3> HIDE DEF y
    <3>7. y % Sector = at % Sector
      BY <3>1, <3>5, <3>6, SameOffset, Zenon
    <3> QED
      BY <3>4, <3>7 DEF y
  <2> QED
    BY <1>1, <2>1, <2>2, <2>3 DEF NoGap
<1>7. AtHome'
  <2>1. ASSUME fpos >= 0, fpos + size * nmemb <= ClusterSize
        PROVE  ~(todo > Chunk)
    <3>1. obase + todo <= size * nmemb
      BY <1>3 DEF IInv, Adds
    <3>2. todo <= ClusterSize
      BY <1>3, <2>1, <3>1, InFirstCluster
    <3> QED
      BY <1>3, <3>2, Sizing DEF Chunk, Least
  <2> QED
    BY <1>1, <2>1 DEF JInv, AtHome, Home
<1> QED
  BY <1>2, <1>5, <1>6, <1>7 DEF JInv

LEMMA NextJInv == JInv /\ [Next]_vars => JInv'
<1> SUFFICES ASSUME JInv, [Next]_vars PROVE JInv'
  OBVIOUS
<1>1. CASE UNCHANGED vars
  <2>1. IInv'
    BY <1>1, NextIInv DEF JInv
  <2>2. /\ UNCHANGED <<first, fpos, size, nmemb, at, todo, obase, ahead, cluster>>
        /\ UNCHANGED <<pos, left, optr, out, pc, result>>
    BY <1>1 DEF vars, request, chunk, stream
  <2>3. WholeItems' = WholeItems
    BY <2>2 DEF WholeItems, Whole
  <2>4. Placed' /\ NoGap' /\ AtHome'
    BY <2>2, <2>3 DEF JInv, Placed, NoGap, AtHome, Home, Whole, Chunk
  <2> QED
    BY <2>1, <2>4 DEF JInv
<1> QED
  BY <1>1, FinishJInv, StartJInv, FollowJInv, SeekJInv, SectorJInv, NextChunkJInv
     DEF Next

\* Items that divide a sector or are whole sectors, read from a sector on,
\* never cross a boundary inside.
LEMMA EvenItems ==
  ASSUME NEW s \in Nat \ {0}, NEW p \in Nat, NEW m \in Nat,
         p % Sector = 0, Sector % s = 0 \/ s % Sector = 0
  PROVE  Whole(p + m * s, s)
<1>1. Sector \in Nat \ {0}
  BY FatReadAssumption
<1> DEFINE a == p \div Sector
           y == p + m * s
           k == y \div Sector
           r == y % Sector
<1>2. a \in Int /\ p = a * Sector
  BY <1>1
<1>3. m * s \in Int /\ y \in Int
  OBVIOUS
<1>4. k \in Int /\ r \in 0 .. Sector - 1 /\ y = k * Sector + r
  BY <1>1, <1>3
<1>5. CASE s % Sector = 0
  <2> DEFINE b == s \div Sector
             c == m * b
  <2>1. b \in Int /\ s = b * Sector
    BY <1>1, <1>5
  <2> HIDE DEF b
  <2>2. c \in Int /\ m * s = c * Sector
    BY <1>1, <2>1
  <2> HIDE DEF c
  <2>3. y = p + c * Sector /\ p \in Int
    BY <2>2
  <2> HIDE DEF y, r
  <2>4. y % Sector = p % Sector
    BY <1>1, <1>3, <2>2, <2>3, SameOffset, Zenon
  <2> QED
    BY <2>4 DEF Whole, y
<1>6. CASE Sector % s = 0
  <2> DEFINE q == Sector \div s
             e == a * q + m - k * q
  <2>1. q \in Int /\ Sector = q * s
    BY <1>1, <1>6
  <2> HIDE DEF a, k, r, q
  <2>2. a * q \in Int /\ k * q \in Int /\ e \in Int
    BY <1>2, <1>4, <2>1
  <2>3. a * Sector = (a * q) * s /\ k * Sector = (k * q) * s
    BY <1>2, <1>4, <2>1
  <2>4. e * s = (a * q) * s + m * s - (k * q) * s
    <3> DEFINE u == a * q
               v == k * q
    <3>1. u \in Int /\ v \in Int /\ e = u + m - v
      BY <2>2
    <3> HIDE DEF u, v, e
    <3>2. e * s = u * s + m * s - v * s
      BY <3>1
    <3> QED
      BY <3>2 DEF u, v
  <2> HIDE DEF e
  <2>5. r = e * s
    <3>1. (a * q) * s \in Int /\ (k * q) * s \in Int
      BY <2>2
    <3> QED
      BY <1>2, <1>3, <1>4, <2>3, <2>4, <3>1
  <2>6. e < q
    <3>1. SUFFICES ASSUME e >= q PROVE FALSE
      BY <2>1, <2>2
    <3>2. e * s >= q * s
      BY <2>1, <2>2, <3>1
    <3> QED
      BY <1>1, <1>4, <2>1, <2>2, <2>5, <3>2
  <2>7. r + s <= Sector
    <3>1. (e + 1) * s <= q * s
      BY <2>1, <2>2, <2>6
    <3>2. (e + 1) * s = e * s + s
      BY <2>2
    <3> QED
      BY <2>1, <2>2, <2>5, <3>1, <3>2
  <2> QED
    BY <2>7 DEF Whole, r
<1> QED
  BY <1>5, <1>6
-----------------------------------------------------------------------------
\* fat16_read_internal_from_stream and disk_stream_read: whatever chain the
\* FAT leads along and wherever sectors end, fread never writes past the
\* bytes it was asked for, and leaves what it has not reached.
THEOREM ReadStaysInBuffer == Spec => []StaysInBuffer
<1>1. ASSUME JInv PROVE StaysInBuffer
  <2>1. Counters /\ Adds /\ Ahead /\ Untouched
    BY <1>1 DEF JInv, IInv
  <2>2. TypeOK
    <3>1. size * nmemb \in Nat /\ obase <= size * nmemb /\ optr <= size * nmemb
      BY <2>1 DEF Counters, Adds, Ahead
    <3> QED
      BY <2>1, <3>1 DEF Counters, TypeOK
  <2>3. ASSUME pc = "sector"
        PROVE  optr + Least(left, Sector - (pos % Sector)) <= size * nmemb
    <3> DEFINE room == Sector - (pos % Sector)
    <3>1. room \in Nat /\ left \in Nat
      BY <2>1, Sizing, FatReadAssumption DEF Counters
    <3> HIDE DEF room
    <3>2. Least(left, room) \in Nat /\ Least(left, room) <= left
      BY <3>1, Sizing
    <3>3. Chunk \in Nat /\ Chunk <= todo /\ size * nmemb \in Nat
      BY <2>1, ChunkSize
    <3>4. /\ optr \in Nat /\ optr + left <= obase + Chunk
          /\ obase \in Nat /\ todo \in Nat /\ obase + todo <= size * nmemb
      BY <2>1, <2>3 DEF Counters, Adds, Ahead
    <3>5. optr + Least(left, room) <= size * nmemb
      BY <3>1, <3>2, <3>3, <3>4
    <3> QED
      BY <3>5 DEF room
  <2> QED
    BY <1>1, <2>1, <2>2, <2>3 DEF StaysInBuffer, Untouched, JInv, Placed
<1> QED
  BY <1>1, InitJInv, NextJInv, PTL DEF Spec

\* disk_stream_read, which copies to the end of a sector and then goes on as
\* if it had copied a whole one: it is the only way to a gap, and takes an
\* item that starts inside a sector and runs past its end.
THEOREM ReadGaps == Spec => []GapsOnlyUnaligned
<1>1. ASSUME JInv PROVE GapsOnlyUnaligned
  <2> SUFFICES ASSUME pc = "done", result = nmemb,
                      NEW k \in DOMAIN out, out[k] = -1
               PROVE  \E m \in 0 .. nmemb - 1 :
                        LET from == (fpos + m * size) % Sector
                        IN from # 0 /\ from + size > Sector
    BY DEF GapsOnlyUnaligned
  <2>1. k < obase
    BY <1>1 DEF JInv, Placed, IInv, Counters
  <2>2. ~WholeItems
    BY <1>1, <2>1 DEF JInv, NoGap
  <2>3. PICK m \in 0 .. nmemb - 1 : ~Whole(fpos + m * size, size)
    BY <2>2 DEF WholeItems
  <2>4. (fpos + m * size) % Sector \in Int /\ size \in Int /\ Sector \in Int
    <3>1. m * size \in Int /\ fpos \in Int
      BY <1>1 DEF JInv, IInv, Counters, Placed
    <3> QED
      BY <1>1, <3>1, Sizing, FatReadAssumption DEF JInv, IInv, Counters
  <2> QED
    BY <2>3, <2>4 DEF Whole
<1> QED
  BY <1>1, InitJInv, NextJInv, PTL DEF Spec

\* fat16_read over fat16_read_internal_from_stream: what a file's first
\* cluster holds arrives complete and in place when items divide a sector or
\* are whole sectors.
THEOREM ReadsRight == Spec => []AlignedReadsRight
<1>1. ASSUME JInv PROVE AlignedReadsRight
  <2> SUFFICES ASSUME pc = "done", result = nmemb, fpos >= 0, fpos % Sector = 0,
                      Sector % size = 0 \/ size % Sector = 0,
                      fpos + size * nmemb <= ClusterSize,
                      NEW k \in DOMAIN out
               PROVE  out[k] = Home(k)
    BY DEF AlignedReadsRight
  <2>1. WholeItems
    <3>1. size \in Nat \ {0} /\ fpos \in Nat /\ nmemb \in Nat
      BY <1>1 DEF JInv, IInv, Counters, Placed
    <3>2. \A m \in Nat : Whole(fpos + m * size, size)
      BY <3>1, EvenItems
    <3>3. \A m \in 0 .. nmemb - 1 : m \in Nat
      BY <3>1
    <3> QED
      BY <3>2, <3>3, Zenon DEF WholeItems
  <2>2. k < obase
    BY <1>1 DEF JInv, Placed, IInv, Counters
  <2>3. out[k] # -1
    BY <1>1, <2>1, <2>2 DEF JInv, NoGap
  <2> QED
    BY <1>1, <2>3 DEF JInv, AtHome
<1> QED
  BY <1>1, InitJInv, NextJInv, PTL DEF Spec
=============================================================================
