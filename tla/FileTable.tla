------------------------------ MODULE FileTable ------------------------------
(***************************************************************************)
(* The kernel's file descriptors: fopen, fread, fseek, fstat and fclose of *)
(* fs/file.c over the private data fat16.c keeps for each.  Callers hold   *)
(* at most one descriptor each.  What fread delivers is FatRead.tla; here  *)
(* it matters that it leaves fd->pos alone.  A call that fails and changes *)
(* nothing is a stuttering step.                                           *)
(***************************************************************************)
EXTENDS Integers, FiniteSets

CONSTANTS Callers,
          MaxFd,     \* MAX_FILE_DESCRIPTORS
          FileSizes, \* possible sizes of the one file on the disk
          Offsets,   \* what callers seek by
          WordSize   \* 2^32

ASSUME FileTableAssumption ==
  /\ MaxFd \in Nat \ {0} /\ WordSize \in Nat \ {0}
  /\ FileSizes \subseteq 0 .. WordSize - 1 /\ Offsets \subseteq 0 .. WordSize - 1

Fd == 1 .. MaxFd
Kind == {"file", "directory", "hollow", "bogus"}
Path == {"file", "directory", "missing"}
None == [kind |-> "none", pos |-> 0]

VARIABLES filesize,  \* of the file, as its directory item says
          table,     \* file_descriptors[fd - 1]: private data, or None
          handle,    \* the fd a caller holds, 0 for none
          believed,  \* history: what it opened and where its seeks led
          short,     \* history: memory ran out for a descriptor
          wild       \* the kernel followed a pointer that is none

vars == <<filesize, table, handle, believed, short, wild>>

Init ==
  /\ filesize \in FileSizes
  /\ table = [f \in Fd |-> None]
  /\ handle = [c \in Callers |-> 0]
  /\ believed = [c \in Callers |-> None]
  /\ short = FALSE /\ wild = FALSE

\* fat16_open: for any mode but "r" it returns +ERDONLY, which ISERR takes
\* for a pointer.  When there is no memory to clone the directory's item, the
\* descriptor is made with an item that points to nothing.
Unsound == {"hollow", "bogus"}
Opened(name, mode) ==
  IF mode # "r" THEN {"bogus"}
  ELSE IF name = "missing" THEN {} ELSE {name, "hollow"}

MutIsNewFd(f) == table[f] = None \/ f = MaxFd
IsNewFd(f) == table[f] = None /\ \A g \in Fd : g < f => table[g] # None

Fopen(c, name, mode) ==
  /\ ~wild /\ handle[c] = 0
  /\ \E kind \in Opened(name, mode), f \in Fd :
       /\ IsNewFd(f)
       /\ table' = [table EXCEPT ![f] = [kind |-> kind, pos |-> 0]]
       /\ handle' = [handle EXCEPT ![c] = f]
       /\ believed' = [believed EXCEPT ![c] = [kind |-> kind, pos |-> 0]]
  /\ UNCHANGED <<filesize, short, wild>>

\* file_new_descriptor uses what kzalloc returns unseen: without memory the
\* descriptor is made at address 0, its number is returned, and the table
\* keeps a null pointer.
FopenNoMemory(c, name, mode) ==
  /\ ~wild /\ handle[c] = 0
  /\ \E kind \in Opened(name, mode), f \in Fd :
       /\ IsNewFd(f)
       /\ handle' = [handle EXCEPT ![c] = f]
       /\ believed' = [believed EXCEPT ![c] = [kind |-> kind, pos |-> 0]]
  /\ short' = TRUE
  /\ UNCHANGED <<filesize, table, wild>>

\* file_get_descriptor
IsOpen(f) == f > 0 /\ f < MaxFd /\ table[f] # None

\* fread, fseek, fstat and fclose of such a descriptor.
UseUnsound(c) ==
  /\ ~wild /\ IsOpen(handle[c]) /\ table[handle[c]].kind \in Unsound
  /\ wild' = TRUE
  /\ UNCHANGED <<filesize, table, handle, believed, short>>

Moved(d, offset, whence) ==
  [d EXCEPT !.pos = IF whence = "set" THEN offset
                    ELSE (d.pos + offset) % WordSize]

\* fat16_seek compares the offset with -filesize, not with filesize.
Accepts(size, offset) == offset <= (WordSize - size) % WordSize

\* To a directory, whose item is typed as a file of no bytes, only 0 is
\* accepted.
Fseek(c, offset, whence) ==
  LET f == handle[c] IN
  /\ ~wild /\ IsOpen(f) /\ table[f].kind = "file"
  /\ Accepts(filesize, offset)
  /\ table' = [table EXCEPT ![f] = Moved(@, offset, whence)]
  /\ believed' = [believed EXCEPT ![c] = Moved(@, offset, whence)]
  /\ UNCHANGED <<filesize, handle, short, wild>>

\* The caller drops its descriptor, whatever fclose answers.
Fclose(c) ==
  LET f == handle[c] IN
  /\ ~wild /\ f # 0
  /\ IF IsOpen(f)
     THEN table[f].kind \notin Unsound /\ table' = [table EXCEPT ![f] = None]
     ELSE UNCHANGED table
  /\ handle' = [handle EXCEPT ![c] = 0]
  /\ believed' = [believed EXCEPT ![c] = None]
  /\ UNCHANGED <<filesize, short, wild>>

Next == \E c \in Callers :
          \/ \E name \in Path, mode \in {"r", "w"} :
               Fopen(c, name, mode) \/ FopenNoMemory(c, name, mode)
          \/ UseUnsound(c) \/ Fclose(c)
          \/ \E offset \in Offsets, whence \in {"set", "cur"} :
               Fseek(c, offset, whence)

Spec == Init /\ [][Next]_vars
-----------------------------------------------------------------------------
Private == [kind : Kind, pos : 0 .. WordSize - 1] \cup {None}

TypeOK ==
  /\ filesize \in FileSizes
  /\ table \in [Fd -> Private]
  /\ handle \in [Callers -> {0} \cup Fd]
  /\ believed \in [Callers -> Private]
  /\ {short, wild} \subseteq BOOLEAN

\* While there is memory for descriptors, what a caller's descriptor stands
\* for is what the caller opened, at the position its own seeks led to:
\* nobody else's fopen, fseek or fclose reaches it.  And a descriptor is in
\* use if and only if exactly one caller holds it, but for the last, which
\* outlives its holder.
HandleIsMine ==
  /\ TypeOK
  /\ ~short =>
       /\ \A c \in Callers : handle[c] # 0 => table[handle[c]] = believed[c]
       /\ \A f \in Fd :
            LET holders == Cardinality({c \in Callers : handle[c] = f})
            IN IF f < MaxFd THEN holders = IF table[f] = None THEN 0 ELSE 1
               ELSE holders <= 1
=============================================================================
