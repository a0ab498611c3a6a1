------------------------------ MODULE KeyFifo ------------------------------
(***************************************************************************)
(* What a program expects of its keyboard: keys come out of getkey in the  *)
(* order they were pressed, each once, and getkey answers NoKey exactly    *)
(* when none is waiting.                                                   *)
(***************************************************************************)
EXTENDS Naturals, Sequences

CONSTANTS Keys, NoKey, Room

VARIABLES waiting,  \* keys pressed and not yet taken
          answer    \* what the last getkey returned

Init == waiting = <<>> /\ answer = NoKey

Type(c) ==
  /\ Len(waiting) < Room
  /\ waiting' = Append(waiting, c)
  /\ UNCHANGED answer

Take ==
  /\ waiting # <<>>
  /\ answer' = Head(waiting)
  /\ waiting' = Tail(waiting)

TakeNothing ==
  /\ waiting = <<>>
  /\ answer' = NoKey
  /\ UNCHANGED waiting

Next == Take \/ TakeNothing \/ \E c \in Keys : Type(c)

Spec == Init /\ [][Next]_<<waiting, answer>>
=============================================================================
