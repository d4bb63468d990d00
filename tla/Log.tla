-------------------------------- MODULE Log ---------------------------------
(***************************************************************************)
(* The redo log of log.c, with the buffers of bio.c that it pins, through  *)
(* crashes at any point and recovery.  Shared by the three kernels; the    *)
(* lines are those of src/virtual memory & file system/kernel.             *)
(*                                                                         *)
(* A step holds log.lock, or writes one block: virtio_disk_rw() returns    *)
(* when the disk has the block, so blocks reach it in program order, and a *)
(* block is written entirely or not at all.                                *)
(***************************************************************************)
EXTENDS Integers, Sequences, FiniteSets

CONSTANTS
  Procs,         \* processes that make file-system calls
  Blocks,        \* home blocks of the disk
  Vals, Fresh,   \* contents of a block; the one mkfs wrote
  MAXOPBLOCKS,   \* log space reserved for one file-system call (10)
  LOGSIZE,       \* blocks the log takes (30)
  LogBlocks,     \* log.size: what mkfs reserved, with the header (not in src)
  Loads,         \* what processes may do: which make calls, which blocks these
                 \* write and how many at most (ops), with what, and whether
                 \* other blocks push these out of the cache
  Absent         \* the cache holds no copy of the block

ASSUME LogAssumption ==
  /\ MAXOPBLOCKS \in Nat \ {0}
  /\ LOGSIZE \in Nat /\ MAXOPBLOCKS <= LOGSIZE
  /\ LogBlocks \in Nat /\ LOGSIZE < LogBlocks
ASSUME ContentAssumption == Fresh \in Vals /\ Absent \notin Vals
ASSUME LoadAssumption ==
  \A l \in Loads : l.procs \subseteq Procs /\ l.blocks \subseteq Blocks /\ l.vals \subseteq Vals
                   /\ l.ops \in 1 .. MAXOPBLOCKS /\ l.recycles \in BOOLEAN

VARIABLES
  load,          \* the element of Loads this behaviour is about
  home,          \* disk: the blocks at their home locations
  logd,          \* disk: the log's blocks
  head,          \* disk: block numbers in the log header; <<>> when n is 0
  buf, pin,      \* memory: cached copy and bpin() count of each block
  lh,            \* memory: log.lh
  outstanding, committing,
  pc,            \* where each process is in begin_op() ... end_op()
  wrote,         \* the blocks each process wrote since its begin_op()
  tail,          \* loop index of write_log() and install_trans()
  boot,          \* "up", or where recover_from_log() is
  panicked

disk == <<home, logd, head>>
mem  == <<buf, pin, lh, outstanding, committing>>
vars == <<load, disk, mem, pc, wrote, tail, boot, panicked>>

Up == boot = "up" /\ ~panicked

Is(p, where) == Up /\ pc[p] = where
Goto(p, where) == pc' = [pc EXCEPT ![p] = where]

\* bread().
Cached(b) == IF buf[b] = Absent THEN home[b] ELSE buf[b]

\* wakeup(&log): the sleepers of begin_op() try again.  p goes to where.
WakeupAnd(p, where) ==
  pc' = [q \in Procs |-> IF q = p THEN where ELSE IF pc[q] = "asleep" THEN "begin" ELSE pc[q]]

-----------------------------------------------------------------------------
(* File-system calls.                                                      *)

\* A process enters a file-system call.
Call(p) ==
  /\ Is(p, "idle")
  /\ Goto(p, "begin")
  /\ UNCHANGED <<load, disk, mem, wrote, tail, boot, panicked>>

\* Fault: the calls already admitted are not counted.
MustWait_IgnoresOthers == committing \/ Len(lh) + MAXOPBLOCKS > LOGSIZE

MustWait == committing \/ Len(lh) + (outstanding + 1) * MAXOPBLOCKS > LOGSIZE

begin_op(p) ==
  /\ Is(p, "begin")
  /\ IF MustWait
     THEN Goto(p, "asleep") /\ UNCHANGED <<outstanding, wrote>>
     ELSE /\ outstanding' = outstanding + 1
          /\ wrote' = [wrote EXCEPT ![p] = {}]
          /\ Goto(p, "active")
  /\ UNCHANGED <<load, disk, buf, pin, lh, committing, tail, boot, panicked>>

InLog(b) == \E i \in 1 .. Len(lh) : lh[i] = b

\* Fault: the buffer is not pinned.
bpin_Not(b) == pin

bpin(b) == [pin EXCEPT ![b] = @ + 1]

\* bread(), the change and log_write(), under the buffer's sleep lock.
log_write(p, b, v) ==
  /\ Is(p, "active")
  /\ Cardinality(wrote[p] \cup {b}) <= load.ops
  /\ IF Len(lh) >= LOGSIZE \/ Len(lh) >= LogBlocks - 1
     THEN panicked' = TRUE /\ UNCHANGED <<buf, pin, lh, wrote>>
     ELSE /\ buf' = [buf EXCEPT ![b] = v]
          /\ IF InLog(b) THEN UNCHANGED <<pin, lh>>     \* log absorption
                         ELSE lh' = Append(lh, b) /\ pin' = bpin(b)
          /\ wrote' = [wrote EXCEPT ![p] = @ \cup {b}]
          /\ UNCHANGED panicked
  /\ UNCHANGED <<load, disk, outstanding, committing, pc, tail, boot>>

\* end_op() up to commit(); commit() has nothing to do for an empty log.
end_op(p) ==
  /\ Is(p, "active")
  /\ outstanding' = outstanding - 1
  /\ IF committing
     THEN panicked' = TRUE /\ UNCHANGED <<committing, pc, tail>>
     ELSE /\ IF outstanding' = 0
             THEN /\ committing' = TRUE
                  /\ Goto(p, IF lh = <<>> THEN "done" ELSE "write_log")
                  /\ tail' = 1
             ELSE WakeupAnd(p, "idle") /\ UNCHANGED <<committing, tail>>
          /\ UNCHANGED panicked
  /\ UNCHANGED <<load, disk, buf, pin, lh, wrote, boot>>

-----------------------------------------------------------------------------
(* commit(), by the process whose end_op() was the last.                   *)

write_log(p) ==
  /\ Is(p, "write_log")
  /\ tail <= Len(lh)
  /\ logd' = [logd EXCEPT ![tail] = Cached(lh[tail])]
  /\ buf' = [buf EXCEPT ![lh[tail]] = Cached(lh[tail])]
  /\ tail' = tail + 1
  /\ UNCHANGED <<load, home, head, pin, lh, outstanding, committing, pc, wrote, boot, panicked>>

\* Fault: the header is written before the last block.
write_head_Early(p) ==
  /\ Is(p, "write_log")
  /\ tail >= Len(lh)
  /\ head' = lh
  /\ tail' = 1
  /\ Goto(p, "install")
  /\ UNCHANGED <<load, home, logd, mem, wrote, boot, panicked>>

\* write_head(): the real commit.
write_head(p) ==
  /\ Is(p, "write_log")
  /\ tail > Len(lh)
  /\ head' = lh
  /\ tail' = 1
  /\ Goto(p, "install")
  /\ UNCHANGED <<load, home, logd, mem, wrote, boot, panicked>>

\* One block of install_trans().
InstallBlock ==
  /\ home' = [home EXCEPT ![lh[tail]] = logd[tail]]
  /\ buf' = [buf EXCEPT ![lh[tail]] = logd[tail]]
  /\ tail' = tail + 1

install_trans(p) ==
  /\ Is(p, "install")
  /\ tail <= Len(lh)
  /\ InstallBlock
  /\ pin' = [pin EXCEPT ![lh[tail]] = @ - 1]
  /\ UNCHANGED <<load, logd, head, lh, outstanding, committing, pc, wrote, boot, panicked>>

\* log.lh.n = 0; write_head().
ClearLog ==
  /\ lh' = <<>>
  /\ head' = <<>>
  /\ tail' = 1

CommitClear(p) ==
  /\ Is(p, "install")
  /\ tail > Len(lh)
  /\ ClearLog
  /\ Goto(p, "done")
  /\ UNCHANGED <<load, home, logd, buf, pin, outstanding, committing, wrote, boot, panicked>>

\* Fault: nobody is woken after a commit.
Wake_Nobody(p) == Goto(p, "idle")

Wake(p) == WakeupAnd(p, "idle")

\* The end of end_op().
CommitDone(p) ==
  /\ Is(p, "done")
  /\ committing' = FALSE
  /\ Wake(p)
  /\ UNCHANGED <<load, disk, buf, pin, lh, outstanding, wrote, tail, boot, panicked>>

\* bget() recycles the buffer of a block that nobody uses.
Recycle(b) ==
  /\ Up /\ load.recycles
  /\ buf[b] # Absent
  /\ pin[b] = 0
  /\ buf' = [buf EXCEPT ![b] = Absent]
  /\ UNCHANGED <<load, disk, pin, lh, outstanding, committing, pc, wrote, tail, boot, panicked>>

-----------------------------------------------------------------------------
(* Crash, and recover_from_log() before the first process runs.            *)

\* Power failure, or a restart after a panic: memory is lost.
Crash ==
  /\ buf' = [b \in Blocks |-> Absent]
  /\ pin' = [b \in Blocks |-> 0]
  /\ lh' = <<>>
  /\ outstanding' = 0
  /\ committing' = FALSE
  /\ pc' = [p \in Procs |-> "idle"]
  /\ wrote' = [p \in Procs |-> {}]
  /\ tail' = 1
  /\ panicked' = FALSE
  /\ boot' = "read_head"
  /\ UNCHANGED <<load, disk>>

read_head ==
  /\ boot = "read_head"
  /\ lh' = head
  /\ boot' = "install"
  /\ UNCHANGED <<load, disk, buf, pin, outstanding, committing, pc, wrote, tail, panicked>>

RecoverInstall ==
  /\ boot = "install"
  /\ tail <= Len(lh)
  /\ InstallBlock
  /\ UNCHANGED <<load, logd, head, pin, lh, outstanding, committing, pc, wrote, boot, panicked>>

\* Fault: the log is not cleared.
RecoverClear_Keeps ==
  /\ boot = "install"
  /\ tail > Len(lh)
  /\ lh' = <<>>
  /\ tail' = 1
  /\ boot' = "up"
  /\ UNCHANGED <<load, disk, buf, pin, outstanding, committing, pc, wrote, panicked>>

RecoverClear ==
  /\ boot = "install"
  /\ tail > Len(lh)
  /\ ClearLog
  /\ boot' = "up"
  /\ UNCHANGED <<load, home, logd, buf, pin, outstanding, committing, pc, wrote, panicked>>

\* The disk as mkfs made it.
Init ==
  /\ load \in Loads
  /\ home = [b \in Blocks |-> Fresh]
  /\ logd = [i \in 1 .. LOGSIZE |-> Fresh]
  /\ head = <<>>
  /\ buf = [b \in Blocks |-> Absent]
  /\ pin = [b \in Blocks |-> 0]
  /\ lh = <<>>
  /\ outstanding = 0
  /\ committing = FALSE
  /\ pc = [p \in Procs |-> "idle"]
  /\ wrote = [p \in Procs |-> {}]
  /\ tail = 1
  /\ panicked = FALSE
  /\ boot = "read_head"

Step(p) ==
  \/ begin_op(p)
  \/ end_op(p)
  \/ write_log(p)
  \/ write_head(p)
  \/ install_trans(p)
  \/ CommitClear(p)
  \/ CommitDone(p)

Next ==
  \/ \E p \in load.procs : Step(p) \/ Call(p) \/ \E b \in load.blocks, v \in load.vals : log_write(p, b, v)
  \/ \E b \in Blocks : Recycle(b)
  \/ Crash
  \/ read_head
  \/ RecoverInstall
  \/ RecoverClear

Spec == Init /\ [][Next]_vars

\* A process that can go on does: file-system calls end, the disk answers.
\* Calls begin, write and crash at will.
Fairness ==
  /\ \A p \in Procs : WF_vars(Step(p))
  /\ WF_vars(read_head \/ RecoverInstall \/ RecoverClear)

FairSpec == Spec /\ Fairness

-----------------------------------------------------------------------------
(* Properties.                                                             *)

\* Every variable has its type.
TypeOK ==
  /\ home \in [Blocks -> Vals]
  /\ logd \in [1 .. LOGSIZE -> Vals]
  /\ head \in Seq(Blocks) /\ lh \in Seq(Blocks)
  /\ buf \in [Blocks -> Vals \cup {Absent}]
  /\ pin \in [Blocks -> Nat]
  /\ outstanding \in Nat
  /\ committing \in BOOLEAN
  /\ pc \in [Procs -> {"idle", "begin", "asleep", "active", "write_log", "install", "done"}]
  /\ wrote \in [Procs -> SUBSET Blocks]
  /\ tail \in 1 .. LOGSIZE + 1
  /\ boot \in {"up", "read_head", "install"}
  /\ panicked \in BOOLEAN

\* The disk that recover_from_log() would make of what is there now.
Recovered ==
  [b \in Blocks |->
     IF \E i \in 1 .. Len(head) : head[i] = b
     THEN logd[CHOOSE i \in 1 .. Len(head) : head[i] = b]
     ELSE home[b]]

AD == INSTANCE AtomicDisk WITH
        durable <- Recovered,
        current <- IF boot = "up" THEN [b \in Blocks |-> Cached(b)] ELSE Recovered,
        active  <- {p \in Procs : pc[p] = "active"}

\* Whenever the machine stops, recovery (itself stopped any number of times)
\* brings back the blocks as they were at a moment when no file-system call was
\* half-way, and never loses a commit.
ImplementsAtomicDisk == AD!Spec

\* When no call is in progress and no commit is running, everything written has
\* reached its home block: the last end_op() returns only then.
QuietIsDurable ==
  Up /\ outstanding = 0 /\ ~committing =>
    /\ head = <<>>
    /\ \A b \in Blocks : Cached(b) = home[b]

\* begin_op() admits no more calls than the log has room for: none of them runs
\* into log_write()'s "too big a transaction", and end_op() never meets a commit.
AdmittedFit == ~panicked

\* What the log owes to its callers at any moment: the calls admitted fit into
\* it, and when no call and no commit is in progress all that was written would
\* survive a crash.
LogInv == TypeOK /\ AdmittedFit /\ QuietIsDurable

\* Every process asleep in begin_op() is woken in the end.
SleepersWoken == \A p \in Procs : (pc[p] = "asleep") ~> (pc[p] # "asleep")
=============================================================================
