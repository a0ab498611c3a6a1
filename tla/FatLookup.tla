----------------------------- MODULE FatLookup -----------------------------
(***************************************************************************)
(* From the disk to an open file (fs/fat/fat16.c): fat16_resolve mounts    *)
(* the volume and counts its root directory; fat16_open searches it for    *)
(* the first part of a path, makes an item of every match, keeps the last  *)
(* and refuses longer paths; fat16_close gives the item back.  Any kzalloc *)
(* of an open may find no memory.  Letters stand for themselves up to case.*)
(***************************************************************************)
EXTENDS Naturals, Sequences, FiniteSetsExt

CONSTANTS Char,        \* the values of a byte
          Volumes,     \* raw entries from the root directory on, past its
                       \* end if need be; one of them is an end mark
          RootEntries, \* rood_dir_entries
          Stray,       \* what memory behind the table may look like
          Paths        \* what is opened: sequences of names

\* A raw entry: name and extension, space-padded, the attribute byte and the
\* reserved byte after it.  0x20, the archive attribute, is a space.
NUL == "nul"
SPACE == " "
E5 == "deleted"
SUBDIRECTORY == "directory"
Field == Seq(Char) \ {<<>>}
RawEntry == [name : Field, ext : Field, attr : Char]
Raw(e) == e.name \o e.ext \o <<e.attr, NUL>>

Deleted(e) == Head(e.name) = E5
\* An end mark; empty_item, all zeros, is declared but not compared with.
MutEnds(e) == \A k \in DOMAIN Raw(e) : Raw(e)[k] = NUL
Ends(e) == Head(e.name) = NUL

\* The count of the root directory ends on the disk; file.c refuses empty
\* paths.
ASSUME FatLookupAssumption ==
  /\ {NUL, SPACE, E5, SUBDIRECTORY} \subseteq Char
  /\ Volumes \subseteq Seq(RawEntry)
  /\ \A v \in Volumes : \E k \in DOMAIN v : Head(v[k].name) = NUL
  /\ RootEntries \in Nat
  /\ Stray \subseteq RawEntry /\ Stray # {}
  /\ Paths \subseteq Seq(Seq(Char)) \ {<<>>}

\* fat16_to_proper_string copies up to a space or a zero, through the fields
\* that follow when its own has neither.
ToProper(s) == SubSeq(s, 1, Min({k \in DOMAIN s : s[k] \in {NUL, SPACE}}) - 1)

FromExt(e) == e.ext \o <<e.attr, NUL>>

\* fat16_get_full_relative_filename
FullName(e) ==
  IF Head(e.ext) \in {NUL, SPACE} THEN ToProper(Raw(e))
  ELSE ToProper(Raw(e)) \o <<".">> \o ToProper(FromExt(e))

\* istrncmp on two zero-padded buffers: at the first difference it compares
\* the characters after it.
At(s, k) == IF k <= Len(s) THEN s[k] ELSE NUL
LooksLike(s, t) ==
  \/ s = t
  \/ \E k \in 1 .. Max({Len(s), Len(t)}) :
       /\ At(s, k) # At(t, k)
       /\ \A m \in 1 .. k - 1 : At(s, m) = At(t, m)
       /\ At(s, k + 1) = At(t, k + 1)

VARIABLES volume, path,  \* the disk and the parsed path
          mounted,       \* disk->fs is set
          scan, total,   \* the counting loop; root_dir.total
          i, match,      \* the searching loop; match = 0: f_item is null
          item,          \* f_item: "none", "whole", or "hollow": its clone
                         \* of the directory entry is a null pointer
          live,          \* objects allocated and not freed, by kind
          short,         \* history: no memory for the descriptor, an item
                         \* or its clone
          pc

vars == <<volume, path, mounted, scan, total, i, match, item, live, short, pc>>
disk == <<volume, path, mounted, scan, total>>

Init ==
  /\ volume \in Volumes /\ path \in Paths
  /\ mounted = TRUE /\ scan = 1 /\ total = 0
  /\ i = 1 /\ match = 0 /\ item = "none"
  /\ live = [desc |-> 0, item |-> 0, entry |-> 0, directory |-> 0]
  /\ short = FALSE
  /\ pc = "count"

\* No FAT16_SIG: fs_resolve finds no file system, and fopen refuses all.
NotFat ==
  /\ pc = "count" /\ scan = 1
  /\ mounted' = FALSE /\ pc' = "refused"
  /\ UNCHANGED <<volume, path, scan, total, i, match, item, live, short>>

\* The loop of fat16_get_total_items_for_directory is bounded by nothing but
\* the end mark.
Count ==
  /\ pc = "count" /\ ~Ends(volume[scan])
  /\ scan' = scan + 1
  /\ total' = IF Deleted(volume[scan]) THEN total ELSE total + 1
  /\ UNCHANGED <<volume, path, mounted, i, match, item, live, short, pc>>

MutCountEnds ==
  /\ pc = "count" /\ Ends(volume[scan])
  /\ pc' = "mounted" /\ total' = total - 1
  /\ UNCHANGED <<volume, path, mounted, scan, i, match, item, live, short>>
CountEnds ==
  /\ pc = "count" /\ Ends(volume[scan])
  /\ pc' = "mounted"
  /\ UNCHANGED <<disk, i, match, item, live, short>>

\* fat16_open's own descriptor.
OpenDesc ==
  /\ pc = "mounted"
  /\ \/ /\ live' = [live EXCEPT !.desc = 1]
        /\ pc' = "search" /\ UNCHANGED short
     \/ /\ short' = TRUE
        /\ pc' = "refused" /\ UNCHANGED live
  /\ UNCHANGED <<disk, i, match, item>>

\* The table holds RootEntries entries; the loop knows only the count.
EntriesAt(k) == IF k <= RootEntries THEN {volume[k]} ELSE Stray

Differs ==
  /\ pc = "search" /\ i <= total
  /\ \E e \in EntriesAt(i) : ~LooksLike(FullName(e), path[1])
  /\ i' = i + 1
  /\ UNCHANGED <<disk, match, item, live, short, pc>>

\* fat16_new_fat_item_for_directory_item.  A subdirectory is loaded (two
\* objects) into the word that the clone then takes, or is not, for want of
\* memory, of entries or of a readable disk: nobody looks.  Without memory the
\* clone is a null pointer, or the item, which forgets the match before it.
Matches ==
  /\ pc = "search" /\ i <= total
  /\ \E e \in EntriesAt(i), new \in {"none", "hollow", "whole"}, loaded \in {0, 2} :
       /\ LooksLike(FullName(e), path[1])
       /\ loaded = 2 => e.attr = SUBDIRECTORY /\ new # "none"
       /\ item' = new
       /\ match' = IF new = "none" THEN 0 ELSE i
       /\ live' = [live EXCEPT !.item = IF new = "none" THEN @ ELSE @ + 1,
                               !.entry = IF new = "whole" THEN @ + 1 ELSE @,
                               !.directory = @ + loaded]
       /\ short' = (short \/ new # "whole")
  /\ i' = i + 1
  /\ UNCHANGED <<disk, pc>>

\* Every item is typed FAT_ITEM_TYPE_FILE, so fat16_get_directory_entry
\* drops it when the path goes on.
SearchEnds ==
  /\ pc = "search" /\ i > total
  /\ pc' = IF match = 0 \/ Len(path) > 1 THEN "refused" ELSE "open"
  /\ UNCHANGED <<disk, i, match, item, live, short>>

\* fat16_free_file_descriptor.  A hollow item makes it kfree(0), which may
\* clear bytes far from the heap's table.
MutClose ==
  /\ pc = "open"
  /\ live' = [live EXCEPT !.desc = 0, !.item = @ - 1]
  /\ pc' \in {"closed"} \cup (IF item = "hollow" THEN {"wild"} ELSE {})
  /\ UNCHANGED <<disk, i, match, item, short>>
Close ==
  /\ pc = "open"
  /\ live' = [live EXCEPT !.desc = 0, !.item = @ - 1,
                          !.entry = IF item = "whole" THEN @ - 1 ELSE @]
  /\ pc' \in {"closed"} \cup (IF item = "hollow" THEN {"wild"} ELSE {})
  /\ UNCHANGED <<disk, i, match, item, short>>

Next == \/ NotFat \/ Count \/ CountEnds \/ OpenDesc \/ Differs \/ Matches
        \/ SearchEnds \/ Close

Spec == Init /\ [][Next]_vars
-----------------------------------------------------------------------------
TypeOK ==
  /\ mounted \in BOOLEAN /\ short \in BOOLEAN
  /\ scan \in 1 .. Len(volume) /\ total \in 0 .. scan - 1
  /\ i \in 1 .. total + 1 /\ match \in 0 .. total
  /\ item \in {"none", "hollow", "whole"} /\ (item = "none") = (match = 0)
  /\ live \in [desc : 0 .. 1, item : 0 .. total, entry : 0 .. total,
              directory : 0 .. 2 * total]
  /\ pc \in {"count", "mounted", "search", "refused", "open", "closed", "wild"}

\* The files of the directory: entries up to the end mark, and the names
\* other systems give them, both fields without their padding.
EndMark == Min({k \in DOMAIN volume : Head(volume[k].name) = NUL})
PadFrom(s) == Min({n \in 0 .. Len(s) : \A k \in n + 1 .. Len(s) : s[k] = SPACE})
Unpad(s) == SubSeq(s, 1, PadFrom(s))
DosName(e) == IF Unpad(e.ext) = <<>> THEN Unpad(e.name)
              ELSE Unpad(e.name) \o <<".">> \o Unpad(e.ext)
Holds(k) == ~Deleted(volume[k]) /\ path = <<DosName(volume[k])>>

\* Names the code reads as other systems do: padding ends the first field,
\* and padding or the archive attribute the second, and stands nowhere else.
Padded(f) == \A k \in DOMAIN f :
               /\ f[k] # NUL
               /\ f[k] = SPACE => \A m \in k .. Len(f) : f[m] = SPACE
Plain(e) == /\ Padded(e.name) /\ Padded(e.ext)
            /\ \E k \in DOMAIN e.name : e.name[k] = SPACE
            /\ e.attr = SPACE \/ \E k \in DOMAIN e.ext : e.ext[k] = SPACE

\* What the search reads, as many entries as are not deleted, and what of it
\* the code takes for the name.
Undeleted == {k \in 1 .. EndMark - 1 : ~Deleted(volume[k])}
Read == 1 .. Cardinality(Undeleted)
Matching == {k \in Read : LooksLike(FullName(volume[k]), path[1])}

\* With memory enough, fopen succeeds if and only if one of the entries it
\* reads matches, and opens the last of these.  A plainly named file always
\* matches where it is read; but it is read only if no more entries stand
\* before it and at it than are not deleted in all.
FindsPlainFiles ==
  /\ TypeOK
  /\ pc \in {"refused", "open"} /\ mounted /\ ~short
     /\ Cardinality(Undeleted) <= RootEntries =>
       /\ pc = "open" <=> Matching # {} /\ Len(path) = 1
       /\ pc = "open" => /\ item = "whole" /\ match \in Matching
                         /\ \A k \in Matching : k <= match
       /\ \A k \in 1 .. EndMark - 1 :
            Holds(k) /\ Plain(volume[k]) /\ k \in Read => k \in Matching

\* The search reads past the end of its table only if the directory on the
\* disk, up to its end mark, has more entries that are not deleted than the
\* table has room for: the count follows the disk and not the table.
SearchStaysInTable ==
  pc = "search" /\ i <= total /\ i > RootEntries =>
    EndMark - 1 > RootEntries + Cardinality((1 .. EndMark - 1) \ Undeleted)

\* What an open leaves in memory when it was refused, or closed again,
\* whatever allocation failed: no more than the descriptor of a refused open,
\* the items of all matches but the one handed out, and what was loaded of
\* their subdirectories; and just that, subdirectories aside, if none did.
LeftBehind ==
  LET loaded == {k \in Matching : volume[k].attr = SUBDIRECTORY}
      closed == IF pc = "closed" THEN 1 ELSE 0
  IN pc \in {"refused", "closed"} /\ mounted
     /\ Cardinality(Undeleted) <= RootEntries =>
       /\ live.desc <= 1 - closed
       /\ live.item <= Cardinality(Matching) - closed
       /\ live.entry <= live.item
       /\ live.directory <= 2 * Cardinality(loaded)
       /\ ~short => /\ live.desc = 1 - closed
                    /\ live.item = Cardinality(Matching) - closed
                    /\ live.entry = live.item
=============================================================================
