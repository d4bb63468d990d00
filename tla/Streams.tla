------------------------------ MODULE Streams -------------------------------
(***************************************************************************)
(* What pipes promise: bytes come out of a pipe in the order in which they *)
(* went in, at most Size of them are inside, and a pipe that is made again *)
(* starts empty.  FileTable implements it, and the output of Console.      *)
(***************************************************************************)
EXTENDS Integers, Sequences

CONSTANTS Pipes, Bytes, Size

VARIABLES
  live,      \* the pipes there are
  stream     \* the bytes inside each pipe

Write(pi, s) ==
  /\ pi \in live
  /\ Len(stream[pi]) + Len(s) <= Size
  /\ stream' = [stream EXCEPT ![pi] = @ \o s]
  /\ UNCHANGED live

Read(pi, n) ==
  /\ pi \in live
  /\ n <= Len(stream[pi])
  /\ stream' = [stream EXCEPT ![pi] = SubSeq(@, n + 1, Len(@))]
  /\ UNCHANGED live

Create(pi) == pi \notin live /\ live' = live \cup {pi} /\ UNCHANGED stream

\* What nobody has read goes with the pipe.
Destroy(pi) == pi \in live /\ live' = live \ {pi} /\ stream' = [stream EXCEPT ![pi] = <<>>]

Init == live \in SUBSET Pipes /\ stream = [pi \in Pipes |-> <<>>]

Next ==
  \E pi \in Pipes :
    \/ \E n \in 1 .. Size : Read(pi, n)
    \/ \E n \in 1 .. Size : \E s \in [1 .. n -> Bytes] : Write(pi, s)
    \/ Create(pi) \/ Destroy(pi)

Spec == Init /\ [][Next]_<<live, stream>>
=============================================================================
