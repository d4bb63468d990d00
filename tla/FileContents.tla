---------------------------- MODULE FileContents ----------------------------
(***************************************************************************)
(* What files promise: a file is a sequence of words.  A write puts words  *)
(* of its process at its offset, from the first on, possibly not all of    *)
(* them; nothing else of this or of another file changes but by truncation.*)
(***************************************************************************)
EXTENDS Integers, Sequences

CONSTANTS Files, Writers, Most, None

VARIABLES file, write, val

vars == <<file, write, val>>

\* s with k words v from offset off on.
Splice(s, off, k, v) ==
  [j \in 1 .. (IF off + k > Len(s) THEN off + k ELSE Len(s)) |->
     IF off < j /\ j <= off + k THEN v ELSE s[j]]

Init == file = [f \in Files |-> <<>>] /\ write = [p \in Writers |-> None]

Idle(f) == \A q \in Writers : write[q] = None \/ write[q].f # f

\* Files are written under a lock; what is beyond the end shows when all is done.
Begin(p) ==
  /\ write[p] = None
  /\ \E f \in Files :
       Idle(f) /\ write'[p] \in [f : {f}, off : 0 .. Len(file[f]), n : 1 .. Most]
  /\ \A q \in Writers \ {p} : write'[q] = write[q]
  /\ UNCHANGED <<file, val>>

\* The file of p's write gets its first words, k of them, and no other changes.
Puts(p, limit) ==
  LET w == write[p]  old == file[w.f]  new == file'[w.f]  value == val[p] IN
  /\ \E k \in 0 .. w.n : w.off + k <= limit /\ new = Splice(old, w.off, k, value)
  /\ \A f \in Files \ {w.f} : file'[f] = file[f]

Overwrite(p) ==
  /\ write[p] # None
  /\ UNCHANGED <<write, val>>
  /\ Puts(p, Len(file[write[p].f]))

End(p) ==
  /\ write[p] # None
  /\ write' = [write EXCEPT ![p] = None]
  /\ UNCHANGED val
  /\ Puts(p, write[p].off + write[p].n)

Truncate(f) ==
  /\ Idle(f)
  /\ UNCHANGED <<write, val>>
  /\ file' = [file EXCEPT ![f] = <<>>]

Next == (\E p \in Writers : Begin(p) \/ Overwrite(p) \/ End(p)) \/ \E f \in Files : Truncate(f)

Spec == Init /\ [][Next]_vars
=============================================================================
