----------------------------- MODULE MCKeyboard -----------------------------
(* Keyboard with a buffer of four cells and 3-bit counters.                *)
EXTENDS Keyboard
=============================================================================
