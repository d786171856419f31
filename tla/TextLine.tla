------------------------------ MODULE TextLine -------------------------------
(***************************************************************************)
(* What a one-line editor promises: a text, and a cursor between two of    *)
(* its characters.  The text box and the editor keep both in an array that *)
(* ends at the first NUL.                                                  *)
(***************************************************************************)
EXTENDS Naturals, Sequences

CONSTANTS Chars, MaxText

VARIABLES text, at

LineInit == text = <<>> /\ at = 0

Before == SubSeq(text, 1, at)
After  == SubSeq(text, at + 1, Len(text))

Move   == at' \in {at - 1, at + 1, 0, Len(text)} \cap 0 .. Len(text) /\ text' = text
\* As much of what is typed or pasted as there is room for.
Put    == \E n \in 1 .. MaxText - Len(text) : \E s \in [1 .. n -> Chars] :
             text' = Before \o s \o After /\ at' = at + n
Erase  == at > 0 /\ text' = SubSeq(text, 1, at - 1) \o After /\ at' = at - 1
Delete == at < Len(text) /\ text' = Before \o Tail(After) /\ at' = at
\* The whole text is replaced, with the cursor behind it.
Set    == \E n \in 0 .. MaxText : text' \in [1 .. n -> Chars] /\ at' = n

Line == LineInit /\ [][Move \/ Put \/ Erase \/ Delete \/ Set]_<<text, at>>
=============================================================================
