----------------------------- MODULE PathParser -----------------------------
(***************************************************************************)
(* parser_parse of fs/parser.c: a path such as 0:/dir/file into its drive  *)
(* and its parts, one step per part.  A path is a sequence of characters.  *)
(* path_free is never called.                                              *)
(***************************************************************************)
EXTENDS Integers, Sequences, SequencesExt

CONSTANTS Digits, Others,  \* characters; Others holds neither ":" nor "/"
          MaxPath,         \* FILE_MAX_PATH
          Longest          \* bound on the paths that are tried

ASSUME PathParserAssumption ==
  MaxPath \in Nat /\ Longest \in Nat /\ {":", "/"} \cap Others = {}

Char == Digits \cup Others \cup {":", "/"}

VARIABLES path,   \* the argument
          at,     \* tmp_path, as an index into path
          parts,  \* the list from root->first
          cut,    \* history: memory ran out
          pc      \* "start", "parts", "done", "refused" or "wild"

parseVars == <<path, at, parts, cut, pc>>

ParseInit ==
  /\ path \in BoundedSeq(Char, Longest)
  /\ at = 1 /\ parts = <<>>
  /\ cut = FALSE
  /\ pc = "start"

\* strlen against FILE_MAX_PATH, then path_valid.
IsValid(p) ==
  /\ Len(p) <= MaxPath
  /\ Len(p) >= 3 /\ p[1] \in Digits /\ p[2] = ":" /\ p[3] = "/"

Start ==
  /\ pc = "start"
  /\ IF IsValid(path) THEN at' = 4 /\ pc' = "parts"
     ELSE pc' = "refused" /\ UNCHANGED at
  /\ UNCHANGED <<path, parts, cut>>

\* Where parser_get_path_part stops: at the next "/" or at the end.
Stop == CHOOSE k \in at .. Len(path) + 1 :
          /\ k = Len(path) + 1 \/ path[k] = "/"
          /\ \A m \in at .. k - 1 : path[m] # "/"

Finished == IF parts = <<>> THEN "refused" ELSE "done"

MutSkipEmpty ==
  /\ pc = "parts" /\ at <= Len(path)
  /\ parts' = IF Stop = at THEN parts
              ELSE Append(parts, SubSeq(path, at, Stop - 1))
  /\ at' = IF Stop <= Len(path) THEN Stop + 1 ELSE Stop
  /\ UNCHANGED <<path, cut, pc>>
\* An empty part counts where a "/" ends it.
NextPart ==
  /\ pc = "parts" /\ at <= Len(path)
  /\ parts' = Append(parts, SubSeq(path, at, Stop - 1))
  /\ at' = IF Stop <= Len(path) THEN Stop + 1 ELSE Stop
  /\ UNCHANGED <<path, cut, pc>>

NoMoreParts ==
  /\ pc = "parts" /\ at > Len(path)
  /\ pc' = Finished
  /\ UNCHANGED <<path, at, parts, cut>>

\* kzalloc finds no room for a part or its text: a null pointer, the same
\* answer as at the end of the path.
NoMemory ==
  /\ pc = "parts" /\ at <= Len(path)
  /\ cut' = TRUE
  /\ pc' = Finished
  /\ UNCHANGED <<path, at, parts>>

\* At the end of the path a text is asked for as well and freed at once.  If
\* it was refused that is kfree(0), which reads, and may clear, bytes far past
\* the table of the heap.
NoMemoryAtEnd ==
  /\ pc = "parts" /\ at > Len(path)
  /\ pc' \in {Finished, "wild"}
  /\ UNCHANGED <<path, at, parts, cut>>

\* No room for the root is seen.
NoRoot ==
  /\ pc = "start" /\ IsValid(path)
  /\ cut' = TRUE
  /\ pc' = "refused"
  /\ UNCHANGED <<path, at, parts>>

ParseNext == \/ Start \/ NextPart \/ NoMoreParts
             \/ NoMemory \/ NoMemoryAtEnd \/ NoRoot

ParseSpec == ParseInit /\ [][ParseNext]_parseVars
-----------------------------------------------------------------------------
ParseTypeOK ==
  /\ path \in Seq(Char) /\ at \in 1 .. Len(path) + 1
  /\ parts \in Seq(Seq(Char))
  /\ cut \in BOOLEAN
  /\ pc \in {"start", "parts", "done", "refused", "wild"}

Rest == SubSeq(path, 4, Len(path))
\* The parts with a "/" between each two of them.
Joined(ps) ==
  LET upTo[k \in DOMAIN ps] ==
        IF k = 1 THEN ps[1] ELSE upTo[k - 1] \o <<"/">> \o ps[k]
  IN upTo[Len(ps)]

\* The parts, joined by "/", are the path after the drive again, without its
\* last "/" where it ends in one; none of them holds a "/".  When memory runs
\* out the path is cut off behind some part and taken for complete: what is
\* then opened is a directory on the way to the file.  The FILE_MAX_PATH
\* bytes for a part hold it and its terminator, although the copy has no
\* bound of its own: the drive's three are always to spare.
SplitsExactly ==
  /\ ParseTypeOK
  /\ \A k \in DOMAIN parts : /\ ~Contains(parts[k], "/")
                             /\ Len(parts[k]) + 3 <= MaxPath
  /\ pc = "done" =>
       IF cut THEN IsPrefix(Joined(parts), Rest)
       ELSE Joined(parts) \o (IF Last(Rest) = "/" THEN <<"/">> ELSE <<>>) = Rest
=============================================================================
