---------------------------- MODULE MCPathParser ----------------------------
(* PathParser on every path of at most eight characters out of four, with  *)
(* seven allowed.                                                          *)
EXTENDS PathParser
=============================================================================
