------------------------------- MODULE FatRead -------------------------------
(***************************************************************************)
(* One fread of an open file: the loops of fat16_read and of               *)
(* fat16_read_internal_from_stream (fs/fat/fat16.c) over the sector stream *)
(* of disk/streamer.c, one step per FAT entry and per sector.  The output  *)
(* buffer records which byte of the disk each of its bytes was copied      *)
(* from.  fat16_read takes the file position, 32 bits without a sign and   *)
(* bounded by next to nothing, into an int: it may be negative.            *)
(***************************************************************************)
EXTENDS Integers

CONSTANTS Sector,      \* SECTOR_SIZE
          PerCluster,  \* sectors_per_cluser
          FatPos,      \* first byte of the first FAT
          DataPos,     \* first byte of cluster 2
          Clusters,    \* clusters 2 .. Clusters + 1 hold data
          Marks,       \* values of FAT entries that are not such clusters
          Positions, Sizes, Counts  \* fd->pos as an int, size and nmemb

ClusterSize == Sector * PerCluster

ASSUME FatReadAssumption ==
  /\ Sector \in Nat \ {0} /\ PerCluster \in Nat \ {0}
  /\ FatPos \in Nat \ {0} /\ Clusters \in Nat
  \* the data starts on a sector, and far enough in (boot.asm: behind 200
  \* reserved sectors of 128 a cluster) for cluster 1 to be on the disk
  /\ DataPos \in Nat /\ DataPos % Sector = 0 /\ DataPos >= ClusterSize
  /\ Marks \subseteq Nat /\ Positions \subseteq Int
  /\ Sizes \subseteq Nat \ {0} /\ Counts \subseteq Nat \ {0}

Cluster == 2 .. Clusters + 1
FatValue == Cluster \cup Marks
Least(x, y) == IF x < y THEN x ELSE y

\* 0xFF8 and 0xFFF, bad, the two reserved values it knows, and unused.
Rejected == {4088, 4095, 4087, 4080, 4086, 0}

\* C's / and % of an offset by the size of a cluster: the clusters the loop
\* goes through to it, none if it is negative, and the rest.
Passed(x) == IF x < 0 THEN 0 ELSE x \div ClusterSize
Into(x) == IF x < 0 THEN -((-x) % ClusterSize) ELSE x % ClusterSize

VARIABLES fat,                   \* the disk's FAT, entry by cluster
          first, fpos, size, nmemb,  \* the request
          item, at, todo, obase, \* fat16_read, ..._from_stream
          ahead, cluster,        \* fat16_get_cluster_for_offset
          pos, left, optr,       \* disk_stream_read
          out,                   \* out[k]: disk byte copied there, or -1
          pc, result

request == <<fat, first, fpos, size, nmemb>>
chunk == <<item, at, todo, obase>>
stream == <<pos, left, optr, out>>
vars == <<request, chunk, ahead, cluster, stream, pc, result>>

Init ==
  /\ fat \in [Cluster -> FatValue]
  /\ first \in Cluster
  /\ fpos \in Positions /\ size \in Sizes /\ nmemb \in Counts
  /\ item = 0 /\ at = fpos /\ todo = 0 /\ obase = 0
  /\ ahead = 0 /\ cluster = first
  /\ pos = 0 /\ left = 0 /\ optr = 0
  /\ out = [k \in 0 .. size * nmemb - 1 |-> -1]
  /\ pc = "item" /\ result = 0

Finish ==
  /\ pc = "item" /\ item = nmemb
  /\ pc' = "done" /\ result' = nmemb
  /\ UNCHANGED <<request, chunk, ahead, cluster, stream>>

StartItem ==
  /\ pc = "item" /\ item < nmemb
  /\ todo' = size
  /\ ahead' = Passed(at) /\ cluster' = first
  /\ pc' = "locate"
  /\ UNCHANGED <<request, item, at, obase, stream, result>>

\* fat16_get_fat_entry: FatPos times, not plus, twice the cluster.  Outside
\* the FAT the disk holds anything.
FatEntry(c) ==
  LET p == FatPos * (c * 2) IN
  IF \E d \in Cluster : p = FatPos + 2 * d
  THEN {fat[(p - FatPos) \div 2]}
  ELSE FatValue

MutFollowChain ==
  /\ pc = "locate" /\ ahead > 0
  /\ \E entry \in FatEntry(cluster) \ Rejected : cluster' = entry
  /\ UNCHANGED <<request, chunk, ahead, stream, pc, result>>
FollowChain ==
  /\ pc = "locate" /\ ahead > 0
  /\ \E entry \in FatEntry(cluster) \ Rejected : cluster' = entry
  /\ ahead' = ahead - 1
  /\ UNCHANGED <<request, chunk, stream, pc, result>>

ChainEnds ==
  /\ pc = "locate" /\ ahead > 0
  /\ FatEntry(cluster) \cap Rejected # {}
  /\ pc' = "done" /\ result' = -1
  /\ UNCHANGED <<request, chunk, ahead, cluster, stream>>

MutSeekCluster ==
  /\ pc = "locate" /\ ahead = 0
  /\ pos' = DataPos + (cluster - 2) * ClusterSize
  /\ left' = Least(todo, ClusterSize) /\ optr' = obase
  /\ pc' = "sector"
  /\ UNCHANGED <<request, chunk, ahead, cluster, out, result>>
\* The chunk is limited to a cluster's size, not to what is left of one.
SeekCluster ==
  /\ pc = "locate" /\ ahead = 0
  /\ pos' = DataPos + (cluster - 2) * ClusterSize + Into(at)
  /\ left' = Least(todo, ClusterSize) /\ optr' = obase
  /\ pc' = "sector"
  /\ UNCHANGED <<request, chunk, ahead, cluster, out, result>>

MutWholeSectors ==
  /\ pc = "sector"
  /\ out' = [k \in DOMAIN out |-> IF k \in optr .. optr + Sector - 1
                                  THEN pos + k - optr ELSE out[k]]
  /\ pos' = pos + Sector /\ optr' = optr + Sector
  /\ left' = IF left > Sector THEN left - Sector ELSE left
  /\ pc' = IF left > Sector THEN "sector" ELSE "next"
  /\ UNCHANGED <<request, chunk, ahead, cluster, result>>
MutReadSector ==
  LET n == Least(Least(left, Sector), Sector - (pos % Sector) - 1)
  IN /\ pc = "sector"
     /\ out' = [k \in DOMAIN out |-> IF k \in optr .. optr + n - 1
                                     THEN pos + k - optr ELSE out[k]]
     /\ pos' = pos + n /\ optr' = optr + n
     /\ left' = IF left > Sector THEN left - Sector ELSE left
     /\ pc' = IF left > Sector THEN "sector" ELSE "next"
     /\ UNCHANGED <<request, chunk, ahead, cluster, result>>
\* One call of disk_stream_read.  It copies to the end of the sector at most
\* and then goes on with total - SECTOR_SIZE bytes, however few it copied.
ReadSector ==
  LET n == Least(Least(left, Sector), Sector - (pos % Sector))
  IN /\ pc = "sector"
     /\ out' = [k \in DOMAIN out |-> IF k \in optr .. optr + n - 1
                                     THEN pos + k - optr ELSE out[k]]
     /\ pos' = pos + n /\ optr' = optr + n
     /\ left' = IF left > Sector THEN left - Sector ELSE left
     /\ pc' = IF left > Sector THEN "sector" ELSE "next"
     /\ UNCHANGED <<request, chunk, ahead, cluster, result>>

NextChunk ==
  LET n == Least(todo, ClusterSize)
  IN /\ pc = "next"
     /\ todo' = todo - n /\ at' = at + n /\ obase' = obase + n
     /\ IF todo > n
        THEN /\ ahead' = Passed(at + n) /\ cluster' = first
             /\ pc' = "locate" /\ UNCHANGED item
        ELSE /\ item' = item + 1
             /\ pc' = "item" /\ UNCHANGED <<ahead, cluster>>
     /\ UNCHANGED <<request, stream, result>>

Next == \/ Finish \/ StartItem \/ FollowChain \/ ChainEnds \/ SeekCluster
        \/ ReadSector \/ NextChunk

Spec == Init /\ [][Next]_vars /\ WF_vars(Next)
-----------------------------------------------------------------------------
TypeOK ==
  /\ item \in 0 .. nmemb /\ todo \in 0 .. size /\ obase \in 0 .. size * nmemb
  /\ ahead \in Nat /\ cluster \in FatValue
  /\ left \in Nat /\ optr \in 0 .. size * nmemb
  /\ out \in [0 .. size * nmemb - 1 -> Int]
  /\ pc \in {"item", "locate", "sector", "next", "done"}
  /\ result \in {0, -1, nmemb}

\* Where byte k of the answer is on the disk, while the file's first cluster
\* holds it.
Home(k) == DataPos + (first - 2) * ClusterSize + fpos + k

\* Even from a position that became negative, fread reads nothing before the
\* disk's first byte, never writes past the bytes it was asked for, and leaves
\* untouched what it has not reached yet.
StaysInBuffer ==
  /\ TypeOK
  /\ pc = "sector" =>
       /\ pos >= 0
       /\ optr + Least(left, Sector - (pos % Sector)) <= size * nmemb
       /\ \A k \in DOMAIN out : k >= optr => out[k] = -1

\* A file read from one of its sectors on, in items that divide a sector or
\* are whole sectors, arrives complete and in place up to the end of its first
\* cluster.
AlignedReadsRight ==
  /\ pc = "done" /\ result = nmemb
  /\ fpos >= 0 /\ fpos % Sector = 0 /\ (Sector % size = 0 \/ size % Sector = 0)
  /\ fpos + size * nmemb <= ClusterSize
  => \A k \in DOMAIN out : out[k] = Home(k)

\* fread reports success for a read that left bytes of the buffer as they
\* were only where some item started inside a sector and ran past its end.
GapsOnlyUnaligned ==
  /\ pc = "done" /\ result = nmemb
  /\ \E k \in DOMAIN out : out[k] = -1
  => \E m \in 0 .. nmemb - 1 :
       LET from == (fpos + m * size) % Sector
       IN from # 0 /\ from + size > Sector

\* A chunk ends, and so does the read: chains that loop are only followed as
\* far as the offset asks.
Ends == <>(pc = "done")

\* fat16.c over fat16_get_cluster_for_offset: "Get the correct cluster to use
\* based on the starting cluster and offset".  For bytes of a file's second
\* cluster that is the one the FAT entry of its first names.
CorrectCluster ==
  pc = "sector" /\ fat[first] \in Cluster /\ at \div ClusterSize = 1
    => cluster = fat[first]
=============================================================================
