------------------------------ MODULE Console -------------------------------
(***************************************************************************)
(* The program of Readline.tla reading from the key buffer of Keyboard.tla *)
(* and writing to the screen of Terminal.tla.  Keys are pressed at any     *)
(* moment the program runs with interrupts on: while it polls, edits its   *)
(* line, echoes or prints.  (In a system call interrupts are off, and the  *)
(* press is handled when the call returns.)                                *)
(***************************************************************************)
EXTENDS Readline

VARIABLES meant,  \* history: the line as pressed
          cut     \* history: a line was ended by its length

\* answer is the key in terminal_readline, NoKey before getkey answers.
keyboard == <<buffer, head, tail, lost>>
consoleVars == <<program, vars, meant, cut>>

ConsoleInit ==
  /\ ProgramInit
  /\ Init
  /\ meant = <<>> /\ cut = FALSE

\* Once keys are overwritten, or a line is ended in the middle, the line
\* meant is no longer followed.
Press(c) ==
  /\ Push(c)
  /\ meant' = IF lost' > 0 \/ cut THEN <<>> ELSE Edited(meant, c)
  /\ UNCHANGED <<program, cut>>

Full == i = Size - 1

\* getkey_block asks again and again until it gets a key.
Poll ==
  /\ pc = "read" /\ answer = NoKey /\ ~Full
  /\ Pop
  /\ UNCHANGED <<program, meant, cut>>

MutTake ==
  /\ answer \notin {NoKey, ENTER}
  /\ Key(answer)
  /\ UNCHANGED <<keyboard, answer, meant, cut>>
Take ==
  /\ answer \notin {NoKey, ENTER}
  /\ Key(answer)
  /\ answer' = NoKey
  /\ UNCHANGED <<keyboard, meant, cut>>

LineEnds ==
  /\ answer = ENTER \/ Full
  /\ EndLine
  /\ answer' = NoKey
  /\ cut' = (cut \/ Full)
  /\ meant' = IF cut' THEN <<>> ELSE meant
  /\ UNCHANGED keyboard

PrintAll == PrintLine /\ UNCHANGED <<keyboard, answer, meant, cut>>

ConsoleNext == Poll \/ Take \/ LineEnds \/ PrintAll \/ \E c \in Keys : Press(c)

ConsoleSpec == ConsoleInit /\ [][ConsoleNext]_consoleVars
-----------------------------------------------------------------------------
\* Whatever the moment of the presses, the program sees the line its typist
\* means: what it has, corrected by the key it holds and the keys still
\* waiting, is what was pressed, as long as no key was overwritten and no
\* line ended by its length.
Unread == (IF answer = NoKey THEN <<>> ELSE <<answer>>) \o Waiting
MeantArrives ==
  lost = 0 /\ ~cut =>
    Corrected(IF pc = "read" THEN typed ELSE <<>>, Unread) = meant
=============================================================================
