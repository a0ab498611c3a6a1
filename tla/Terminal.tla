------------------------------ MODULE Terminal ------------------------------
(***************************************************************************)
(* The text screen of utils.c as a value t = [cell, row, col] and what     *)
(* writing a character does to it.  video_mem is one array, so a cell is   *)
(* known by its index.                                                     *)
(***************************************************************************)
EXTENDS Integers

CONSTANTS Width, Height   \* VGA_WIDTH, VGA_HEIGHT

ASSUME TerminalAssumption == Width \in Nat \ {0} /\ Height \in Nat \ {0}

Blank == " "
NEWLINE == "newline"
BACKSPACE == "backspace"

Place == 0 .. Width * Height - 1
Cursor(t) == t.row * Width + t.col

\* clear_term
Cleared == [cell |-> [k \in Place |-> Blank], row |-> 0, col |-> 0]

\* Scrolling copies every row up by one and leaves the last as it was.
NewLine(t) ==
  IF t.row = Height - 1
  THEN [t EXCEPT !.col = 0,
                 !.cell = [k \in Place |-> IF k + Width \in Place
                                          THEN t.cell[k + Width] ELSE t.cell[k]]]
  ELSE [t EXCEPT !.col = 0, !.row = @ + 1]

Erase(t) == [t EXCEPT !.cell[Cursor(t)] = Blank]

MutBackSpace(t) ==
  IF t.col = 0 THEN t ELSE Erase([t EXCEPT !.col = @ - 1])
BackSpace(t) ==
  IF t.col = 0 /\ t.row = 0 THEN t
  ELSE IF t.col = 0 THEN Erase([t EXCEPT !.row = @ - 1, !.col = Width - 1])
  ELSE Erase([t EXCEPT !.col = @ - 1])

Put(t, c) ==
  LET put == [t EXCEPT !.cell[Cursor(t)] = c, !.col = @ + 1]
  IN IF put.col = Width THEN NewLine(put) ELSE put

\* terminal_writechar
WriteChar(t, c) ==
  IF c = NEWLINE THEN NewLine(t)
  ELSE IF c = BACKSPACE THEN BackSpace(t)
  ELSE Put(t, c)
=============================================================================
