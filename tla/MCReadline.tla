----------------------------- MODULE MCReadline -----------------------------
(* Console on a screen of two rows of two cells, with lines of at most     *)
(* three keys, which scroll off it, the mark on the second byte, a buffer  *)
(* of two keys, and two letters beside the backspace and Enter.            *)
EXTENDS Console
=============================================================================
