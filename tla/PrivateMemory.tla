--------------------------- MODULE PrivateMemory ----------------------------
(***************************************************************************)
(* What fork() with copy-on-write promises to programs: every process has  *)
(* a memory of its own.  A child starts with a copy of its parent's and    *)
(* from then on no store of one process shows in the memory of another.    *)
(***************************************************************************)
EXTENDS Integers

CONSTANTS
  Procs,       \* slots of the process table
  NPages,      \* pages of an address space
  Vals,        \* contents a program can give to a page
  Zero,        \* content of a page added by sbrk()
  NoPage       \* content of an address that is not mapped

Pages == 0 .. NPages - 1

VARIABLE mem

NoMemory == [va \in Pages |-> NoPage]
Image(n) == [va \in Pages |-> IF va < n THEN Zero ELSE NoPage]

Write(p, va, v) == mem[p][va] # NoPage /\ mem' = [mem EXCEPT ![p][va] = v]

Fork(p, np) == mem[np] = NoMemory /\ mem' = [mem EXCEPT ![np] = mem[p]]

\* A program of n pages.
Exec(p) == \E n \in 1 .. NPages : mem' = [mem EXCEPT ![p] = Image(n)]

Map(p, va) == mem[p][va] = NoPage /\ mem' = [mem EXCEPT ![p][va] = Zero]

Unmap(p, va) == mem' = [mem EXCEPT ![p][va] = NoPage]

Exit(p) == mem' = [mem EXCEPT ![p] = NoMemory]

Init ==
  \E init \in Procs :
    mem = [p \in Procs |-> [va \in Pages |-> IF p = init /\ va = 0 THEN Zero ELSE NoPage]]

Next ==
  \E p \in Procs :
    \/ \E va \in Pages, v \in Vals : Write(p, va, v)
    \/ \E np \in Procs \ {p} : Fork(p, np)
    \/ Exec(p)
    \/ \E va \in Pages : Map(p, va) \/ Unmap(p, va)
    \/ Exit(p)

Spec == Init /\ [][Next]_mem
=============================================================================
