----------------------------- MODULE AtomicDisk -----------------------------
(***************************************************************************)
(* What the log promises to file-system calls: between begin_op() and      *)
(* end_op() their writes reach the disk all together or not at all, and    *)
(* only when no call is half-way.  Log implements it.                      *)
(***************************************************************************)
CONSTANTS Procs, Blocks, Vals, Fresh

VARIABLES
  durable,   \* what the disk holds after a crash and recovery
  current,   \* what file-system calls read
  active     \* processes between begin_op() and end_op()

Begin(p) == p \notin active /\ active' = active \cup {p} /\ UNCHANGED <<durable, current>>

Write(p, b, v) ==
  /\ p \in active
  /\ current' = [current EXCEPT ![b] = v]
  /\ UNCHANGED <<durable, active>>

End(p) == p \in active /\ active' = active \ {p} /\ UNCHANGED <<durable, current>>

Commit == active = {} /\ durable' = current /\ UNCHANGED <<current, active>>

Crash == current' = durable /\ active' = {} /\ UNCHANGED durable

Init ==
  /\ durable = [b \in Blocks |-> Fresh]
  /\ current = durable
  /\ active = {}

Next ==
  \/ \E p \in Procs : Begin(p) \/ End(p) \/ \E b \in Blocks, v \in Vals : Write(p, b, v)
  \/ Commit
  \/ Crash

Spec == Init /\ [][Next]_<<durable, current, active>>
=============================================================================
