----------------------------- MODULE BlockStore -----------------------------
(***************************************************************************)
(* What the buffer cache promises to its callers: every block has one      *)
(* content, and one process at a time has the block between bread() and    *)
(* brelse().  BufferCache implements it.                                   *)
(***************************************************************************)
CONSTANTS Procs, Blocks, Vals, None

VARIABLES
  content,   \* what bread() returns for each block
  owner      \* the process between bread() and brelse() of the block

Lock(p, k) == owner[k] = None /\ owner' = [owner EXCEPT ![k] = p] /\ UNCHANGED content

Write(p, k, v) ==
  /\ owner[k] = p
  /\ content' = [content EXCEPT ![k] = v]
  /\ UNCHANGED owner

Unlock(p, k) == owner[k] = p /\ owner' = [owner EXCEPT ![k] = None] /\ UNCHANGED content

Init ==
  /\ content \in [Blocks -> Vals]
  /\ owner = [k \in Blocks |-> None]

Next ==
  \E p \in Procs, k \in Blocks :
    Lock(p, k) \/ Unlock(p, k) \/ \E v \in Vals : Write(p, k, v)

Spec == Init /\ [][Next]_<<content, owner>>
=============================================================================
