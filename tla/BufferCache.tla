----------------------------- MODULE BufferCache ----------------------------
(***************************************************************************)
(* The buffer cache of bio.c with the sleep-locks of sleeplock.c, over the *)
(* disk driver.  Its callers are modelled by what they do with a buffer:   *)
(* read it, change it and log_write() it, change it and bwrite() it (the   *)
(* log's own blocks), lock a bitmap block while they hold another block    *)
(* (bmap() calling balloc()), and write a logged block home and unpin it   *)
(* (install_trans()).                                                      *)
(*                                                                         *)
(* A step holds one of bcache.lock, the spinlock of a sleep-lock, or       *)
(* vdisk_lock; steps of different processes interleave on any number of    *)
(* CPUs.                                                                   *)
(***************************************************************************)
EXTENDS VirtioDisk, SequencesExt

CONSTANTS
  Bitmap         \* blocks that are locked while another one is held

ASSUME BitmapAssumption == Bitmap \subseteq Blocks

VARIABLES
  list,          \* bcache.head: buffers, most recently used first
  refcnt, valid,
  holder,        \* b->lock: the process in lk->pid, None when not locked
  op,            \* where each process is in bread(), bwrite() and brelse()
  held,          \* buffers each process has locked, the last one innermost
  pinned,        \* buffers log_write() has pinned
  panicked

cacheVars == <<list, refcnt, valid, holder, op, held, pinned, panicked>>
vars == <<diskVars, cacheVars>>

NotOp == [at |-> "user", b |-> None]

TypeOK ==
  /\ DiskTypeOK
  /\ list \in Seq(Bufs) /\ Len(list) = Cardinality(Bufs) /\ ToSet(list) = Bufs
  /\ refcnt \in [Bufs -> Nat]
  /\ valid \in [Bufs -> BOOLEAN]
  /\ holder \in [Bufs -> Procs \cup {None}]
  /\ op \in [Procs -> [at : {"user", "acquire", "asleep", "reading", "writing", "unlocked"},
                       b : Bufs \cup {None}]]
  /\ \A p \in Procs : held[p] \in Seq(Bufs) /\ Len(held[p]) <= 2
  /\ pinned \subseteq Bufs
  /\ panicked \in BOOLEAN

\* binit(): each buffer goes to the head of the list.
Init ==
  /\ DiskInit
  /\ \E s \in SetToSeqs(Bufs) : list = s
  /\ refcnt = [b \in Bufs |-> 0]
  /\ valid = [b \in Bufs |-> FALSE]
  /\ holder = [b \in Bufs |-> None]
  /\ op = [p \in Procs |-> NotOp]
  /\ held = [p \in Procs |-> <<>>]
  /\ pinned = {}
  /\ panicked = FALSE

Is(p, where) == ~panicked /\ op[p].at = where /\ io[p].at = "none"
Goto(p, where, b) == op' = [op EXCEPT ![p] = [at |-> where, b |-> b]]

-----------------------------------------------------------------------------
(* bread()                                                                 *)

\* Callers lock one block, and a bitmap block inside it.
MayLock(p, k) ==
  \/ held[p] = <<>>
  \/ Len(held[p]) = 1 /\ k \in Bitmap /\ blockno[held[p][1]] \notin Bitmap

CachedIn(k) == {b \in Bufs : blockno[b] = k}

\* The least recently used buffer with no references.
Recycled == {i \in DOMAIN list : refcnt[list[i]] = 0}

\* Fault: the reference is taken by acquiresleep()'s caller, after the wait.
bgetHit_NoRef(p, k) ==
  \E b \in CachedIn(k) :
    /\ Goto(p, "acquire", b)
    /\ UNCHANGED <<blockno, valid, refcnt, panicked>>

bgetHit(p, k) ==
  \E b \in CachedIn(k) :
    /\ refcnt' = [refcnt EXCEPT ![b] = @ + 1]
    /\ Goto(p, "acquire", b)
    /\ UNCHANGED <<blockno, valid, panicked>>

\* Fault: a recycled buffer keeps its valid mark.
bgetRecycle_StaysValid(p, k) ==
  LET b == list[Max(Recycled)] IN
  /\ CachedIn(k) = {} /\ Recycled # {}
  /\ blockno' = [blockno EXCEPT ![b] = k]
  /\ refcnt' = [refcnt EXCEPT ![b] = 1]
  /\ Goto(p, "acquire", b)
  /\ UNCHANGED <<valid, panicked>>

bgetRecycle(p, k) ==
  LET b == list[Max(Recycled)] IN
  /\ CachedIn(k) = {} /\ Recycled # {}
  /\ blockno' = [blockno EXCEPT ![b] = k]
  /\ valid' = [valid EXCEPT ![b] = FALSE]
  /\ refcnt' = [refcnt EXCEPT ![b] = 1]
  /\ Goto(p, "acquire", b)
  /\ UNCHANGED panicked

\* panic("bget: no buffers")
bgetNone(p, k) ==
  /\ CachedIn(k) = {} /\ Recycled = {}
  /\ panicked' = TRUE
  /\ UNCHANGED <<blockno, valid, refcnt, op>>

bget(p, k) ==
  /\ Is(p, "user") /\ MayLock(p, k)
  /\ bgetHit(p, k) \/ bgetRecycle(p, k) \/ bgetNone(p, k)
  /\ UNCHANGED <<list, holder, held, pinned,
                 platter, data, free, chain, info, avail, used, bdisk, isr, intr, io>>

\* acquiresleep(), and the block is read unless the buffer has it.
acquiresleep(p) ==
  LET b == op[p].b IN
  /\ Is(p, "acquire")
  /\ IF holder[b] # None
     THEN Goto(p, "asleep", b) /\ UNCHANGED <<holder, held, io>>
     ELSE /\ holder' = [holder EXCEPT ![b] = p]
          /\ IF valid[b]
             THEN /\ held' = [held EXCEPT ![p] = Append(@, b)]
                  /\ Goto(p, "user", None)
                  /\ UNCHANGED io
             ELSE RwStart(p, b, FALSE) /\ Goto(p, "reading", b) /\ UNCHANGED held
  /\ UNCHANGED <<list, refcnt, valid, pinned, panicked,
                 platter, data, blockno, free, chain, info, avail, used, bdisk, isr, intr>>

breadReturn(p) ==
  LET b == op[p].b IN
  /\ ~panicked /\ op[p].at = "reading" /\ RwDone(p)
  /\ valid' = [valid EXCEPT ![b] = TRUE]
  /\ held' = [held EXCEPT ![p] = Append(@, b)]
  /\ Goto(p, "user", None)
  /\ UNCHANGED <<list, refcnt, holder, pinned, panicked>>

-----------------------------------------------------------------------------
(* What callers do with the buffer they locked last.                       *)

holdingsleep(p, b) == holder[b] = p

Top(p) == Last(held[p])
HasBuffer(p) == Is(p, "user") /\ held[p] # <<>>

\* Fault: log_write() does not pin the block.
log_write_NoPin(p, v) ==
  /\ HasBuffer(p)
  /\ data' = [data EXCEPT ![Top(p)] = v]
  /\ UNCHANGED <<list, refcnt, pinned, valid, holder, op, held, panicked,
                 platter, blockno, free, chain, info, avail, used, bdisk, isr, intr, io>>

\* The caller changes the block; log_write() calls bpin() unless the block is in
\* the log already.
log_write(p, v) ==
  LET b == Top(p) IN
  /\ HasBuffer(p)
  /\ data' = [data EXCEPT ![b] = v]
  /\ IF b \in pinned
     THEN UNCHANGED <<refcnt, pinned>>
     ELSE refcnt' = [refcnt EXCEPT ![b] = @ + 1] /\ pinned' = pinned \cup {b}
  /\ UNCHANGED <<list, valid, holder, op, held, panicked,
                 platter, blockno, free, chain, info, avail, used, bdisk, isr, intr, io>>

\* bwrite(): of a block the log has just changed (its own blocks), or of a
\* pinned one as it is (install_trans()); holdingsleep() is checked first.
bwrite(p, v) ==
  LET b == Top(p) IN
  /\ HasBuffer(p)
  /\ b \in pinned => v = data[b]
  /\ IF ~holdingsleep(p, b)
     THEN panicked' = TRUE /\ UNCHANGED <<data, io, op>>
     ELSE /\ data' = [data EXCEPT ![b] = v]
          /\ RwStart(p, b, TRUE)
          /\ Goto(p, "writing", b)
          /\ UNCHANGED panicked
  /\ UNCHANGED <<list, refcnt, valid, holder, held, pinned,
                 platter, blockno, free, chain, info, avail, used, bdisk, isr, intr>>

\* Fault: install_trans() does not unpin the block it wrote.
bwriteReturn_NoUnpin(p) ==
  /\ ~panicked /\ op[p].at = "writing" /\ RwDone(p)
  /\ pinned' = pinned \ {op[p].b}
  /\ Goto(p, "user", None)
  /\ UNCHANGED <<refcnt, list, valid, holder, held, panicked>>

\* Back from bwrite(); install_trans() calls bunpin().
bwriteReturn(p) ==
  LET b == op[p].b IN
  /\ ~panicked /\ op[p].at = "writing" /\ RwDone(p)
  /\ IF b \in pinned
     THEN refcnt' = [refcnt EXCEPT ![b] = @ - 1] /\ pinned' = pinned \ {b}
     ELSE UNCHANGED <<refcnt, pinned>>
  /\ Goto(p, "user", None)
  /\ UNCHANGED <<list, valid, holder, held, panicked>>

-----------------------------------------------------------------------------
(* brelse()                                                                *)

\* Fault: releasesleep() wakes nobody.
releasesleep_NoWakeup(p, b) ==
  /\ holder' = [holder EXCEPT ![b] = None]
  /\ Goto(p, "unlocked", b)

\* releasesleep(): those that wait for the lock try again.
releasesleep(p, b) ==
  /\ holder' = [holder EXCEPT ![b] = None]
  /\ op' = [q \in Procs |-> IF q = p THEN [at |-> "unlocked", b |-> b]
                            ELSE IF op[q] = [at |-> "asleep", b |-> b]
                                 THEN [op[q] EXCEPT !.at = "acquire"] ELSE op[q]]

brelse(p) ==
  LET b == Top(p) IN
  /\ HasBuffer(p)
  /\ IF ~holdingsleep(p, b)
     THEN panicked' = TRUE /\ UNCHANGED <<holder, op, held>>
     ELSE /\ releasesleep(p, b)
          /\ held' = [held EXCEPT ![p] = Front(@)]
          /\ UNCHANGED panicked
  /\ UNCHANGED <<diskVars, list, refcnt, valid, pinned>>

\* Fault: the buffer is put at the head and not taken out of its old place.
brelseUnref_Twice(p) ==
  LET b == op[p].b IN
  /\ Is(p, "unlocked")
  /\ refcnt' = [refcnt EXCEPT ![b] = @ - 1]
  /\ list' = IF refcnt[b] = 1 THEN <<b>> \o list ELSE list
  /\ Goto(p, "user", None)
  /\ UNCHANGED <<diskVars, valid, holder, held, pinned, panicked>>

\* The list without b.
Unlinked(b) == RemoveAt(list, CHOOSE i \in DOMAIN list : list[i] = b)

\* The second half, under bcache.lock: a buffer nobody wants goes to the head.
brelseUnref(p) ==
  LET b == op[p].b IN
  /\ Is(p, "unlocked")
  /\ refcnt' = [refcnt EXCEPT ![b] = @ - 1]
  /\ list' = IF refcnt[b] = 1 THEN <<b>> \o Unlinked(b) ELSE list
  /\ Goto(p, "user", None)
  /\ UNCHANGED <<diskVars, valid, holder, held, pinned, panicked>>

-----------------------------------------------------------------------------
DiskStep == ~panicked /\ DiskNext /\ UNCHANGED cacheVars

\* What a process does without being asked by a program.
Proceed(p) ==
  \/ acquiresleep(p) \/ breadReturn(p) \/ bwriteReturn(p) \/ brelseUnref(p)

Request(p) ==
  \/ \E k \in Blocks : bget(p, k)
  \/ \E v \in Vals : log_write(p, v) \/ bwrite(p, v)
  \/ brelse(p)

\* panic() stops the machine.
Halted == panicked /\ UNCHANGED vars

Next == DiskStep \/ Halted \/ \E p \in Procs : Proceed(p) \/ Request(p)

Spec == Init /\ [][Next]_vars

\* The disk answers, interrupts are taken, and the scheduler runs every process
\* that can run.
Fairness ==
  /\ WF_vars(~panicked /\ (\E i \in Desc : DevComplete(i)) /\ UNCHANGED cacheVars)
  /\ WF_vars(~panicked /\ (IntrAck \/ IntrEntry \/ IntrEnd) /\ UNCHANGED cacheVars)
  /\ \A p \in Procs :
       /\ WF_vars(~panicked /\ RwAlloc(p) /\ UNCHANGED cacheVars)
       /\ WF_vars(Proceed(p))

FairSpec == Spec /\ Fairness

-----------------------------------------------------------------------------
(* Properties.                                                             *)

Uses(p, b) == op[p].b = b \/ b \in ToSet(held[p])

\* A block is in one buffer at most, and the reference count of a buffer is the
\* number of processes that have it, wait for it or are about to let it go, and
\* one for the log: bget() takes its reference before it waits for the lock,
\* so nobody recycles the buffer in between.
RefcntExact ==
  /\ \A b, c \in Bufs : blockno[b] = blockno[c] /\ blockno[b] # None => b = c
  /\ \A b \in Bufs :
       refcnt[b] = Cardinality({p \in Procs : Uses(p, b)}) + (IF b \in pinned THEN 1 ELSE 0)

\* Descriptors are free or in the chain of one request that a process waits
\* for: none is lost when alloc3_desc() fails half-way or a chain is freed.
DescriptorsAccounted ==
  LET Waiting == {p \in Procs : io[p].at \in {"asleep", "woken"}} IN
  /\ free \cup UNION {chain[io[p].idx] : p \in Waiting} = Desc
  /\ \A p \in Waiting :
       /\ chain[io[p].idx] \cap free = {}
       /\ \A q \in Waiting \ {p} : chain[io[p].idx] \cap chain[io[q].idx] = {}

\* No wakeup is lost on any of the three channels: who sleeps for a lock sees
\* it held, who sleeps for descriptors sees too few or somebody about to look,
\* who sleeps for a request has it at the device or in the used ring, and a
\* filled used ring has its interrupt.
NoLostWakeup ==
  /\ \A p \in Procs : op[p].at = "asleep" => holder[op[p].b] # None
  /\ (\E p \in Procs : io[p].at = "nodesc") => Cardinality(free) < 3 \/ \E p \in Procs : io[p].at = "start"
  /\ \A p \in Procs : io[p].at = "asleep" => io[p].idx \in avail \cup ToSet(used)
  /\ used # <<>> => isr \/ intr

\* bget() finds a buffer as long as the buffers in use and pinned are fewer than
\* NBUF.
NoBuffersMeansAllUsed ==
  panicked => Cardinality(pinned \cup {op[p].b : p \in Procs} \cup UNION {ToSet(held[p]) : p \in Procs})
                >= Cardinality(Bufs)

\* The buffers are accounted for: one per block, counted exactly, and bget()
\* gives up only when each of them is in use or pinned.
CacheInv == TypeOK /\ RefcntExact /\ NoBuffersMeansAllUsed

\* The content of a block is that of its buffer, once it has been read.
Store == INSTANCE BlockStore WITH
  content <- [k \in Blocks |-> IF \E b \in CachedIn(k) : valid[b]
                               THEN data[CHOOSE b \in CachedIn(k) : valid[b]]
                               ELSE platter[k]],
  owner <- [k \in Blocks |-> IF \E p \in Procs : \E b \in CachedIn(k) : b \in ToSet(held[p])
                             THEN CHOOSE p \in Procs : \E b \in CachedIn(k) : b \in ToSet(held[p])
                             ELSE None]

\* Cache, sleep-locks and driver together behave as blocks with one content and
\* one user at a time: no stale copy is read after a buffer was recycled, no
\* change is lost with it, and the device never overwrites a buffer in use.
ImplementsBlockStore == Store!Spec

\* A request that was given to the device ends.
RequestsEnd == \A p \in Procs : io[p].at \in {"asleep", "woken"} ~> io[p].at = "none" \/ panicked
=============================================================================
