----------------------------- MODULE RingQueue ------------------------------
(***************************************************************************)
(* struct queue of src/scheduler/kernel (proc.h, my_proc.c): an array with *)
(* the indices s and e.  mlfq[0], mlfq[1] and fcfs are rings; mlfq[2] is   *)
(* an array filled from 0 whose entries are shifted down when one is       *)
(* taken.  Every function below is called with the queue's lock held.      *)
(***************************************************************************)
EXTENDS Integers, Sequences

CONSTANTS
  QNUM,      \* length of the array, a power of two (128); QMOD is QNUM - 1
  Elems,     \* the processes
  Null       \* what an array element holds before its first use

ASSUME QNUMAssumption == QNUM \in Nat /\ 1 < QNUM
ASSUME ElemsAssumption == Null \notin Elems

Index == 0 .. QNUM - 1

VARIABLES
  p, s, e,
  IsL2       \* q == mlfq + 2, the test in push() and pop(): never changes

vars == <<p, s, e, IsL2>>

\* x & QMOD, for the x <= QNUM that occur.
Masked(x) == IF x = QNUM THEN 0 ELSE x

\* init_my_mlfq(), init_my_fcfs(); the first lines of sys_fcfsmode(),
\* sys_mlfqmode() and priority_boosting().
init_my_mlfq ==
  /\ s' = 0
  /\ e' = 0
  /\ UNCHANGED <<p, IsL2>>

\* Fault: the index moves before the entry is stored.
queue_push_Early(x) ==
  /\ ~IsL2
  /\ p' = [p EXCEPT ![Masked(e + 1)] = x]
  /\ e' = Masked(e + 1)
  /\ UNCHANGED <<s, IsL2>>

queue_push(x) ==
  /\ ~IsL2
  /\ p' = [p EXCEPT ![e] = x]
  /\ e' = Masked(e + 1)
  /\ UNCHANGED <<s, IsL2>>

\* q->p[q->e++] = x, as L2_push() and the loops that refill a queue from the
\* process table do.  The table has fewer slots than the array.
L2_push(x) ==
  /\ s = 0
  /\ e < QNUM - 1
  /\ p' = [p EXCEPT ![e] = x]
  /\ e' = e + 1
  /\ UNCHANGED <<s, IsL2>>

\* isEmpty() is asked first.
queue_pop ==
  /\ ~IsL2
  /\ s # e
  /\ s' = Masked(s + 1)
  /\ UNCHANGED <<p, e, IsL2>>

\* Fault: the loop of swaps stops one early.
Shifted_Short(i) ==
  [k \in Index |-> IF i <= k /\ k < e - 2 THEN p[k + 1]
                   ELSE IF k = e - 2 THEN p[i] ELSE p[k]]

\* The swaps of L2_pop(): element i ends behind the last entry.
Shifted(i) ==
  [k \in Index |-> IF i <= k /\ k < e - 1 THEN p[k + 1]
                   ELSE IF k = e - 1 THEN p[i] ELSE p[k]]

\* L2_pop() of the entry at index i (which one, MLFQ says).
L2_pop(i) ==
  /\ IsL2
  /\ s # e
  /\ i < e
  /\ p' = Shifted(i)
  /\ e' = e - 1
  /\ UNCHANGED <<s, IsL2>>

Init ==
  /\ p = [k \in Index |-> Null]
  /\ s = 0
  /\ e = 0
  /\ IsL2 \in BOOLEAN

Next ==
  \/ init_my_mlfq
  \/ \E x \in Elems : queue_push(x)
  \/ \E x \in Elems : L2_push(x)
  \/ queue_pop
  \/ \E i \in Index : L2_pop(i)

Spec == Init /\ [][Next]_vars

-----------------------------------------------------------------------------
\* The indices stay inside the array; mlfq[2] never leaves its start.
TypeOK ==
  /\ p \in [Index -> Elems \cup {Null}]
  /\ s \in Index
  /\ e \in Index
  /\ IsL2 \in BOOLEAN
  /\ IsL2 => s = 0

\* The number of entries from s up to e, around the end of the array.
Count == IF s <= e THEN e - s ELSE e + QNUM - s

\* The index of entry i.
At(i) == IF s + i - 1 < QNUM THEN s + i - 1 ELSE s + i - 1 - QNUM

Contents == [i \in 1 .. Count |-> p[At(i)]]

F == INSTANCE Fifo WITH q <- Contents

\* The array with its two indices behaves as the sequence of processes the
\* scheduler relies on: every pop returns the oldest entry (L2: the chosen one),
\* and no entry changes or is lost when the indices wrap.
ImplementsFifo == F!Spec
=============================================================================
