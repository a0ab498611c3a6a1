------------------------------ MODULE Readline ------------------------------
(***************************************************************************)
(* The program blank.c: terminal_readline of the user library, one step a  *)
(* key, over the kernel's screen; then str[3] = '#' and print(str).  What  *)
(* is typed is echoed by the putchar system call; here the kernel's heap   *)
(* still has blocks for printk's copies (UserMemory.tla: GoesMute).        *)
(* Keys and character 0 are Keyboard's; Console.tla joins the two.         *)
(***************************************************************************)
EXTENDS Terminal, Keyboard, Sequences

CONSTANTS Size,     \* bytes at str: 1024
          Mark      \* where the program writes '#': 3

ENTER == "enter"
NUL == NoKey
Index == 0 .. Size - 1
Letters == Keys \ {BACKSPACE, ENTER}
Echoed == Keys \ {ENTER}
Char == Echoed \cup {NUL, "#"}

\* keyboard_scan_table has no '\n'.
ASSUME ReadlineAssumption ==
  /\ Mark \in Nat /\ Size \in Nat /\ Mark + 1 < Size
  /\ Height > 1
  /\ {BACKSPACE, ENTER} \subseteq Keys /\ NEWLINE \notin Keys
  /\ NUL \notin {"#", NEWLINE}

VARIABLES term, str, i,
          typed,    \* history: the line as it should be
          pc        \* "read" or "print"

program == <<term, str, i, typed, pc>>

\* malloc's memory is cleared by kzalloc.  The kernel's lines and the
\* program's print("HENLO\n") came before, and the rows above stay blank here.
ProgramInit ==
  /\ \E r \in 1 .. Height - 1 : term = [Cleared EXCEPT !.row = r]
  /\ str = [k \in Index |-> NUL]
  /\ i = 0 /\ typed = <<>>
  /\ pc = "read"

\* The screen t after print has written the characters s to it.
Written(t, s) ==
  LET after[n \in 0 .. Len(s)] ==
        IF n = 0 THEN t ELSE WriteChar(after[n - 1], s[n])
  IN after[Len(s)]

\* The line with one key more, and with many, as its typist means it.
Edited(line, key) ==
  IF key = ENTER THEN <<>>
  ELSE IF key # BACKSPACE THEN Append(line, key)
  ELSE SubSeq(line, 1, Len(line) - 1)
Corrected(line, s) ==
  LET after[n \in 0 .. Len(s)] ==
        IF n = 0 THEN line ELSE Edited(after[n - 1], s[n])
  IN after[Len(s)]

\* At index 0 a backspace is stored like a letter.
MutKey(key) ==
  /\ pc = "read" /\ i < Size - 1
  /\ term' = WriteChar(term, key)
  /\ IF key = BACKSPACE
     THEN /\ str' = IF i >= 1 THEN [str EXCEPT ![i - 1] = NUL] ELSE str
          /\ i' = IF i > 1 THEN i - 1 ELSE 1
     ELSE /\ str' = [str EXCEPT ![i] = key]
          /\ i' = i + 1
  /\ typed' = Edited(typed, key)
  /\ UNCHANGED pc
Key(key) ==
  /\ pc = "read" /\ i < Size - 1
  /\ term' = WriteChar(term, key)
  /\ IF key = BACKSPACE /\ i >= 1
     THEN /\ str' = [str EXCEPT ![i - 1] = NUL]
          /\ i' = i - 1
     ELSE /\ str' = [str EXCEPT ![i] = key]
          /\ i' = i + 1
  /\ typed' = Edited(typed, key)
  /\ UNCHANGED pc

\* Enter, which is not echoed, or the line is full.
MutEndLine ==
  /\ pc = "read"
  /\ str' = [str EXCEPT ![Mark] = "#"]
  /\ pc' = "print"
  /\ UNCHANGED <<term, i, typed>>
EndLine ==
  /\ pc = "read"
  /\ str' = [str EXCEPT ![i] = NUL, ![Mark] = "#"]
  /\ pc' = "print"
  /\ UNCHANGED <<term, i, typed>>

\* What print sees of str: all before the first NUL.
Shown(s) ==
  LET ends == {k \in Index : s[k] = NUL}
      len == IF ends = {} THEN Size
             ELSE CHOOSE k \in ends : \A m \in ends : k <= m
  IN [k \in 1 .. len |-> s[k - 1]]

PrintLine ==
  /\ pc = "print"
  /\ term' = Written(term, Shown(str))
  /\ i' = 0 /\ typed' = <<>>
  /\ pc' = "read"
  /\ UNCHANGED str

-----------------------------------------------------------------------------
Screen == [cell : [Place -> Char \cup {Blank}],
           row : 0 .. Height - 1, col : 0 .. Width - 1]

ProgramTypeOK ==
  /\ term \in Screen
  /\ str \in [Index -> Char]
  /\ i \in Index
  /\ typed \in Seq(Letters)
  /\ pc \in {"read", "print"}

Line == [k \in 1 .. i |-> str[k - 1]]

\* The buffer holds the line as typed and corrected.  A backspace typed on
\* an empty line stays in it as its first byte, and only there.
BufferHoldsLine ==
  /\ ProgramTypeOK
  /\ pc = "read" => \/ Line = typed
                    \/ i > 0 /\ Line = <<BACKSPACE>> \o typed

\* The screen shows that line just before the cursor, over line ends and
\* scrolling, as long as it fits: correcting a wrapped
\* line takes off the screen exactly what it takes out of the buffer.
ScreenShowsLine ==
  pc = "read" /\ Len(typed) <= Cursor(term) =>
    \A k \in 1 .. Len(typed) :
      term.cell[Cursor(term) - Len(typed) + k - 1] = typed[k]

\* What is printed of a line is the line with its mark, if it is longer than
\* the mark's place, the line alone if it is shorter.  Only a line that ends
\* at the mark loses its end: then the rest of an earlier line is printed
\* too.  And there are always fewer than Size characters, so copying them
\* never writes the NUL behind a buffer of Size bytes in the kernel.
Stored == IF i = Len(typed) THEN typed ELSE <<BACKSPACE>> \o typed
PrintsLine ==
  pc = "print" =>
    LET s == Shown(str) IN
    /\ Len(s) < Size
    /\ Len(Stored) < Mark => s = Stored
    /\ Len(Stored) = Mark =>
         Len(s) > Mark /\ SubSeq(s, 1, Mark + 1) = Append(Stored, "#")
    /\ Len(Stored) > Mark => s = [Stored EXCEPT ![Mark + 1] = "#"]
=============================================================================
