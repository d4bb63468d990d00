-------------------------------- MODULE Fifo --------------------------------
(***************************************************************************)
(* What a struct queue of src/scheduler/kernel promises its callers: the   *)
(* sequence of processes that MLFQ works with.  RingQueue implements it.   *)
(***************************************************************************)
EXTENDS Integers, Sequences

CONSTANTS
  QNUM,    \* length of the queue's array
  Elems    \* the processes

VARIABLE q

Init == q = <<>>

\* A full ring cannot be told from an empty one: the push that would store
\* entry number QNUM empties the queue.
Push(x) == q' = IF Len(q) + 1 < QNUM THEN Append(q, x) ELSE <<>>

\* The entries behind the one taken move up.
PopAt(i) ==
  q' = [j \in 1 .. Len(q) - 1 |-> IF j < i THEN q[j] ELSE q[j + 1]]

Clear == q' = <<>>

Next ==
  \/ \E x \in Elems : Push(x)
  \/ \E i \in 1 .. Len(q) : PopAt(i)
  \/ Clear

Spec == Init /\ [][Next]_q
=============================================================================
