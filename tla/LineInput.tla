----------------------------- MODULE LineInput ------------------------------
(***************************************************************************)
(* What the console promises to programs that read from it: the line being *)
(* typed can be edited until it ends, what has ended is read in the order  *)
(* it was typed, and nothing of it can be taken back.  Console implements  *)
(* it.                                                                     *)
(***************************************************************************)
EXTENDS Integers, Sequences

CONSTANTS Chars, LineEnds, Size

VARIABLES
  line,      \* typed, not yet ended
  ready      \* ended, not yet read

\* A full buffer ends the line too.
Type(c) ==
  /\ Len(ready) + Len(line) < Size
  /\ IF c \in LineEnds \/ Len(ready) + Len(line) + 1 = Size
     THEN ready' = Append(ready \o line, c) /\ line' = <<>>
     ELSE line' = Append(line, c) /\ UNCHANGED ready

Erase == line # <<>> /\ line' = SubSeq(line, 1, Len(line) - 1) /\ UNCHANGED ready

EraseAll == line' = <<>> /\ UNCHANGED ready

Read(n) == n <= Len(ready) /\ ready' = SubSeq(ready, n + 1, Len(ready)) /\ UNCHANGED line

Init == line = <<>> /\ ready = <<>>

Next ==
  \/ \E c \in Chars : Type(c)
  \/ Erase \/ EraseAll
  \/ \E n \in 1 .. Size : Read(n)

Spec == Init /\ [][Next]_<<line, ready>>
=============================================================================
