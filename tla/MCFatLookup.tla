---------------------------- MODULE MCFatLookup ----------------------------
(* FatLookup with a table of three entries of two letters and one: files   *)
(* with and without padding, a subdirectory, a deleted entry, and end      *)
(* marks with and without remains of an old name; the disk goes on behind  *)
(* the table, and ends the count there at the latest.                      *)
EXTENDS FatLookup

MCChar == {"a", "b", "c", "x", ".", NUL, SPACE, E5, SUBDIRECTORY}
MCEntry(n1, n2, x, a) == [name |-> <<n1, n2>>, ext |-> <<x>>, attr |-> a]
MCZero == MCEntry(NUL, NUL, NUL, NUL)
MCEnd == MCEntry(NUL, "b", SPACE, SPACE)
MCFile == MCEntry("a", SPACE, "c", SPACE)

MCEntries == { MCEntry("a", SPACE, SPACE, "x"), MCFile,
               MCEntry("a", SPACE, "c", "x"), MCEntry("a", "b", SPACE, SPACE),
               MCEntry("b", SPACE, SPACE, SUBDIRECTORY),
               MCEntry(E5, SPACE, "c", SPACE), MCZero, MCEnd }
MCVolumes == {t \o <<e, MCZero>> : t \in [1 .. 3 -> MCEntries],
                                   e \in {MCFile, MCEnd, MCZero}}
MCStray == {MCZero, MCFile}
MCPaths == { <<<<"a">>>>, <<<<"b">>>>, <<<<"a", "b">>>>,
             <<<<"a", ".", "c">>>>, <<<<"b">>, <<"a">>>> }
=============================================================================
