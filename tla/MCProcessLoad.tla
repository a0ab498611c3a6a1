--------------------------- MODULE MCProcessLoad ---------------------------
(* ProcessLoad with blocks of 4 bytes and a heap that is anything from     *)
(* empty to all but full when the load starts, so that every kzalloc finds *)
(* no memory in some behaviour.  The heap has room for a file of 66 bytes, *)
(* 17 blocks, twice; where it has room for it once, what elf_load freed of *)
(* it is enough for everything else that follows.  A file of 10 bytes may  *)
(* be read to low memory; one of 255 wraps to no blocks.                   *)
EXTENDS ProcessLoad

MCFileSizes == {0, 10, 66, 255}
=============================================================================
