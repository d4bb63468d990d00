----------------------------- MODULE Log_proofs -----------------------------
(***************************************************************************)
(* Proofs about Log, for every number of processes and blocks, every log   *)
(* size and every load: what is cached, pinned, logged and installed fits  *)
(* together at every step, so the log implements AtomicDisk through any    *)
(* number of crashes, also during recovery.                                *)
(***************************************************************************)
EXTENDS Log, FiniteSetTheorems, SequenceTheorems, TLAPS

-----------------------------------------------------------------------------
(* The inductive invariant.                                                *)

Active == {p \in Procs : pc[p] = "active"}

\* The processes in commit().
Committers == {p \in Procs : pc[p] \in {"write_log", "install", "done"}}

Installing == \E p \in Procs : pc[p] = "install"

Distinct(s) == \A i, j \in 1 .. Len(s) : s[i] = s[j] => i = j

\* The log's two copies of the header name each block once and fit the log.
Shape ==
  /\ load \in Loads
  /\ Len(lh) <= LOGSIZE /\ Distinct(lh)
  /\ Len(head) <= LOGSIZE /\ Distinct(head)

\* log.outstanding counts the calls between begin_op() and end_op(), and at most
\* one process commits, when there is none.
Counting ==
  /\ IsFiniteSet(Active) /\ outstanding = Cardinality(Active)
  /\ committing <=> Committers # {}
  /\ committing => Active = {}
  /\ \A p, q \in Committers : p = q

\* The blocks of the header that are not installed yet keep their pin.
Pending(b) == \E i \in 1 .. Len(lh) : lh[i] = b /\ (Installing => tail <= i)

\* While the system is up: a buffer is pinned while its block is logged and not
\* installed; one that is not pinned has nothing that the home block lacks.
Pinning ==
  boot = "up" =>
    \A b \in Blocks :
      /\ pin[b] = IF Pending(b) THEN 1 ELSE 0
      /\ Pending(b) => buf[b] # Absent
      /\ ~Pending(b) => buf[b] \in {Absent, home[b]}

\* While the system is up: what the disk's log holds at each point of commit().
Phases ==
  boot = "up" =>
    /\ Active = {} /\ ~committing => lh = <<>>
    /\ ~Installing => head = <<>>
    /\ \A p \in Procs :
         /\ pc[p] = "write_log" => /\ tail <= Len(lh) + 1
                                   /\ \A i \in 1 .. Len(lh) : i < tail => logd[i] = Cached(lh[i])
         /\ pc[p] = "install" => /\ head = lh
                                 /\ tail <= Len(lh) + 1
                                 /\ \A i \in 1 .. Len(lh) : logd[i] = Cached(lh[i])
                                 /\ \A i \in 1 .. Len(lh) : i < tail => home[lh[i]] = logd[i]
         /\ pc[p] = "done" => lh = <<>>

\* During recovery nobody runs, nothing is pinned and the cache adds nothing to
\* the home blocks; the blocks before tail are installed.
Booting ==
  boot # "up" =>
    /\ \A p \in Procs : pc[p] = "idle"
    /\ \A b \in Blocks : pin[b] = 0 /\ buf[b] \in {Absent, home[b]}
    /\ boot = "read_head" => lh = <<>> /\ tail = 1
    /\ boot = "install" => /\ lh = head
                           /\ tail <= Len(lh) + 1
                           /\ \A i \in 1 .. Len(lh) : i < tail => home[lh[i]] = logd[i]

IInv == TypeOK /\ Shape /\ Counting /\ Pinning /\ Phases /\ Booting

-----------------------------------------------------------------------------
(* Every action keeps the invariant.                                       *)

\* The log is empty and clean when mkfs made the disk.
LEMMA InitIInv == Init => IInv
<1> SUFFICES ASSUME Init PROVE IInv
  OBVIOUS
<1>1. TypeOK
  <2>1. head \in Seq(Blocks) /\ lh \in Seq(Blocks)
    BY EmptySeq DEF Init
  <2>2. tail \in 1 .. LOGSIZE + 1 /\ logd \in [1 .. LOGSIZE -> Vals]
    BY LogAssumption, ContentAssumption DEF Init
  <2> QED
    BY <2>1, <2>2, ContentAssumption DEF Init, TypeOK
<1>2. Active = {} /\ Committers = {}
  BY DEF Init, Active, Committers
<1>3. Shape
  BY LogAssumption DEF Init, Shape, Distinct
<1>4. Counting
  BY <1>2, FS_EmptySet DEF Init, Counting
<1>5. Pinning /\ Phases /\ Booting
  BY DEF Init, Pinning, Phases, Booting
<1> QED
  BY <1>1, <1>3, <1>4, <1>5 DEF IInv

\* A step that leaves the program counters' active and committing sets alone.
LEMMA CountingKept ==
  ASSUME Counting, Active' = Active, Committers' = Committers,
         UNCHANGED <<outstanding, committing>>
  PROVE  Counting'
BY DEF Counting

\* A process enters a call, or goes to sleep in begin_op(): one that neither is
\* between begin_op() and end_op() nor commits moves to a place of that kind.
LEMMA IdleMove ==
  ASSUME IInv, NEW p \in Procs, Up, pc[p] \in {"idle", "begin", "asleep"},
         NEW w \in {"idle", "begin", "asleep"}, pc' = [pc EXCEPT ![p] = w],
         UNCHANGED <<load, disk, mem, wrote, tail, boot, panicked>>
  PROVE  IInv'
<1>0. UNCHANGED <<load, home, logd, head, buf, pin, lh, outstanding, committing, wrote, tail, boot, panicked>>
  BY DEF disk, mem
<1>1. TypeOK'
  BY <1>0 DEF IInv, TypeOK
<1>2. Active' = Active /\ Committers' = Committers /\ Installing' = Installing
  BY DEF IInv, TypeOK, Active, Committers, Installing
<1>3. Shape'
  BY <1>0 DEF IInv, Shape
<1>4. Counting'
  BY <1>0, <1>2, CountingKept DEF IInv
<1>5. Pinning'
  BY <1>0, <1>2 DEF IInv, Pinning, Pending
<1>6. Phases'
  <2>1. \A q \in Procs : pc'[q] \in {"write_log", "install", "done"} => pc'[q] = pc[q]
    BY DEF IInv, TypeOK
  <2> QED
    BY <1>0, <1>2, <2>1 DEF IInv, Phases, Cached
<1>7. Booting'
  BY <1>0 DEF Up, Booting
<1> QED
  BY <1>1, <1>3, <1>4, <1>5, <1>6, <1>7 DEF IInv

\* begin_op() admits a call.
LEMMA BeginIInv ==
  ASSUME IInv, NEW p \in Procs, begin_op(p)
  PROVE  IInv'
<1>1. CASE MustWait
  <2>1. UNCHANGED <<load, disk, mem, wrote, tail, boot, panicked>>
    BY <1>1 DEF begin_op, mem, disk
  <2> QED
    BY <1>1, <2>1, IdleMove DEF begin_op, Goto, Is
<1>2. CASE ~MustWait
  <2>0. /\ boot = "up" /\ pc[p] = "begin"
        /\ outstanding' = outstanding + 1
        /\ wrote' = [wrote EXCEPT ![p] = {}]
        /\ pc' = [pc EXCEPT ![p] = "active"]
        /\ UNCHANGED <<load, home, logd, head, buf, pin, lh, committing, tail, boot, panicked>>
    BY <1>2 DEF begin_op, Is, Up, Goto, disk
  <2>1. TypeOK'
    BY <2>0 DEF IInv, TypeOK
  <2>2. Active' = Active \cup {p} /\ p \notin Active /\ Committers' = Committers
        /\ Installing' = Installing
    BY <2>0 DEF IInv, TypeOK, Active, Committers, Installing
  <2>3. Shape'
    BY <2>0 DEF IInv, Shape
  <2>4. Counting'
    <3>1. ~committing
      BY <1>2 DEF MustWait
    <3>2. IsFiniteSet(Active') /\ Cardinality(Active') = Cardinality(Active) + 1
      BY <2>2, FS_AddElement DEF IInv, Counting
    <3> QED
      BY <2>0, <2>2, <3>1, <3>2 DEF IInv, Counting
  <2>5. Pinning'
    BY <2>0, <2>2 DEF IInv, Pinning, Pending
  <2>6. Phases'
    <3>1. \A q \in Procs : pc'[q] \in {"write_log", "install", "done"} => pc'[q] = pc[q]
      BY <2>0 DEF IInv, TypeOK
    <3> QED
      BY <2>0, <2>2, <3>1 DEF IInv, Phases, Cached
  <2>7. Booting'
    BY <2>0 DEF Booting
  <2> QED
    BY <2>1, <2>3, <2>4, <2>5, <2>6, <2>7 DEF IInv
<1> QED
  BY <1>1, <1>2

\* log_write(): the block is appended and pinned, or was so already.
LEMMA LogWriteIInv ==
  ASSUME IInv, NEW p \in Procs, NEW b \in Blocks, NEW v \in Vals, log_write(p, b, v)
  PROVE  IInv'
<1>0. /\ boot = "up" /\ pc[p] = "active"
      /\ UNCHANGED <<load, home, logd, head, outstanding, committing, pc, tail, boot>>
  BY DEF log_write, Is, Up, disk
<1>1. Active' = Active /\ Committers' = Committers /\ Installing' = Installing
  BY <1>0 DEF Active, Committers, Installing
<1>2. p \in Active /\ ~committing /\ Committers = {} /\ ~Installing
  BY <1>0 DEF IInv, Counting, Active, Committers, Installing
<1>3. Counting'
  BY <1>0, <1>1, CountingKept DEF IInv
<1>4. Booting'
  BY <1>0 DEF Booting
<1>5. Phases'
  BY <1>0, <1>1, <1>2 DEF IInv, Phases, Committers
<1>6. CASE Len(lh) >= LOGSIZE \/ Len(lh) >= LogBlocks - 1
  <2>1. panicked' = TRUE /\ UNCHANGED <<buf, pin, lh, wrote>>
    BY <1>6 DEF log_write
  <2>2. TypeOK' /\ Shape'
    BY <1>0, <2>1 DEF IInv, TypeOK, Shape
  <2>3. Pinning'
    BY <1>0, <1>1, <2>1 DEF IInv, Pinning, Pending
  <2> QED
    BY <1>3, <1>4, <1>5, <2>2, <2>3 DEF IInv
<1>7. CASE ~(Len(lh) >= LOGSIZE \/ Len(lh) >= LogBlocks - 1)
  <2>0. /\ buf' = [buf EXCEPT ![b] = v]
        /\ IF InLog(b) THEN UNCHANGED <<pin, lh>>
                       ELSE lh' = Append(lh, b) /\ pin' = [pin EXCEPT ![b] = @ + 1]
        /\ wrote' = [wrote EXCEPT ![p] = @ \cup {b}]
        /\ UNCHANGED panicked
    BY <1>7 DEF log_write, bpin
  <2>a. lh \in Seq(Blocks) /\ Len(lh) \in Nat /\ Absent \notin Vals
    BY LenProperties, ContentAssumption DEF IInv, TypeOK
  <2>1. CASE InLog(b)
    <3>1. UNCHANGED <<pin, lh>>
      BY <2>0, <2>1
    <3>2. TypeOK' /\ Shape'
      BY <1>0, <2>0, <3>1 DEF IInv, TypeOK, Shape
    <3>3. Pending(b) /\ \A c \in Blocks : Pending(c)' = Pending(c)
      BY <1>0, <1>1, <1>2, <2>1, <3>1 DEF InLog, Pending
    <3>4. Pinning'
      BY <1>0, <2>0, <2>a, <3>1, <3>3 DEF IInv, TypeOK, Pinning
    <3> QED
      BY <1>3, <1>4, <1>5, <3>2, <3>4 DEF IInv
  <2>2. CASE ~InLog(b)
    <3>1. lh' = Append(lh, b) /\ pin' = [pin EXCEPT ![b] = @ + 1]
      BY <2>0, <2>2
    <3>2. /\ lh' \in Seq(Blocks) /\ Len(lh') = Len(lh) + 1
          /\ \A i \in 1 .. Len(lh) : lh'[i] = lh[i]
          /\ lh'[Len(lh) + 1] = b
      BY <2>a, <3>1, AppendProperties
    <3>3. TypeOK'
      BY <1>0, <2>0, <3>1, <3>2 DEF IInv, TypeOK
    <3>4. Shape'
      <4>1. Len(lh') <= LOGSIZE
        BY <1>7, <2>a, <3>2, LogAssumption
      <4>2. Distinct(lh')
        BY <2>2, <2>a, <3>2 DEF IInv, Shape, Distinct, InLog
      <4> QED
        BY <1>0, <4>1, <4>2 DEF IInv, Shape
    <3>5. ~Pending(b) /\ \A c \in Blocks : Pending(c)' <=> (Pending(c) \/ c = b)
      BY <1>1, <1>2, <2>2, <2>a, <3>2 DEF InLog, Pending
    <3>6. Pinning'
      BY <1>0, <2>0, <2>a, <3>1, <3>5 DEF IInv, TypeOK, Pinning
    <3> QED
      BY <1>3, <1>4, <1>5, <3>3, <3>4, <3>6 DEF IInv
  <2> QED
    BY <2>1, <2>2
<1> QED
  BY <1>6, <1>7

\* end_op() never meets a commit; the last call out starts one.
LEMMA EndIInv ==
  ASSUME IInv, NEW p \in Procs, end_op(p)
  PROVE  IInv' /\ UNCHANGED panicked
<1>0. /\ boot = "up" /\ pc[p] = "active"
      /\ outstanding' = outstanding - 1
      /\ UNCHANGED <<load, home, logd, head, buf, pin, lh, wrote, boot>>
  BY DEF end_op, Is, Up, disk
<1>1. p \in Active /\ ~committing /\ Committers = {} /\ ~Installing
  BY <1>0 DEF IInv, Counting, Active, Committers, Installing
<1>2. UNCHANGED panicked
  BY <1>1 DEF end_op
<1>3. IsFiniteSet(Active \ {p}) /\ Cardinality(Active \ {p}) = Cardinality(Active) - 1
  BY <1>1, FS_RemoveElement DEF IInv, Counting
<1>4. Cardinality(Active \ {p}) \in Nat
  BY <1>3, FS_CardinalityType
<1>5. Shape'
  BY <1>0 DEF IInv, Shape
<1>6. Booting'
  BY <1>0 DEF Booting
<1>7. Len(lh) \in Nat
  BY LenProperties DEF IInv, TypeOK
<1>8. CASE outstanding' = 0
  <2>1. /\ committing' = TRUE
        /\ pc' = [pc EXCEPT ![p] = IF lh = <<>> THEN "done" ELSE "write_log"]
        /\ tail' = 1
    BY <1>1, <1>8 DEF end_op, Goto
  <2>2. TypeOK'
    BY <1>0, <1>2, <1>3, <1>4, <2>1, LogAssumption DEF IInv, TypeOK, Counting
  <2>3. Active' = Active \ {p} /\ Committers' = {p} /\ ~Installing'
    BY <1>0, <1>1, <2>1 DEF IInv, TypeOK, Active, Committers, Installing
  <2>4. Active' = {}
    BY <1>0, <1>3, <1>8, <2>3, FS_EmptySet DEF IInv, Counting
  <2>5. Counting'
    <3>1. IsFiniteSet({}) /\ Cardinality({}) = 0
      BY FS_EmptySet
    <3> QED
      BY <1>8, <2>1, <2>3, <2>4, <3>1 DEF Counting
  <2>6. Pinning'
    BY <1>0, <1>1, <2>1, <2>3 DEF IInv, Pinning, Pending
  <2>7. Phases'
    BY <1>0, <1>1, <1>7, <2>1, <2>3 DEF IInv, TypeOK, Phases, Committers
  <2> QED
    BY <1>2, <1>5, <1>6, <2>2, <2>5, <2>6, <2>7 DEF IInv
<1>9. CASE outstanding' # 0
  <2>1. WakeupAnd(p, "idle") /\ UNCHANGED <<committing, tail>>
    BY <1>1, <1>9 DEF end_op
  <2>2. TypeOK'
    BY <1>0, <1>2, <1>3, <1>4, <2>1 DEF IInv, TypeOK, Counting, WakeupAnd
  <2>3. Active' = Active \ {p} /\ Committers' = {} /\ ~Installing'
    BY <1>0, <1>1, <2>1 DEF IInv, TypeOK, Active, Committers, Installing, WakeupAnd
  <2>4. Counting'
    BY <1>0, <1>1, <1>3, <2>1, <2>3 DEF IInv, Counting
  <2>5. Pinning'
    BY <1>0, <1>1, <2>1, <2>3 DEF IInv, Pinning, Pending
  <2>6. Active' # {}
    <3>1. Cardinality({}) = 0
      BY FS_EmptySet
    <3> QED
      BY <1>0, <1>3, <1>9, <2>3, <3>1 DEF IInv, Counting
  <2>7. Phases'
    BY <1>0, <1>1, <2>1, <2>3, <2>6 DEF IInv, Phases, Committers, Installing
  <2> QED
    BY <1>2, <1>5, <1>6, <2>2, <2>4, <2>5, <2>7 DEF IInv
<1> QED
  BY <1>8, <1>9

\* The steps of the one process in commit() keep the counts.
LEMMA CommitterAlone ==
  ASSUME IInv, NEW p \in Procs, pc[p] \in {"write_log", "install", "done"}
  PROVE  /\ Committers = {p} /\ Active = {} /\ committing
         /\ Installing <=> pc[p] = "install"
         /\ \A q \in Procs : q # p => pc[q] \in {"idle", "begin", "asleep"}
BY DEF IInv, TypeOK, Counting, Committers, Active, Installing

\* write_log() copies the next block to the log; the header is still empty.
LEMMA WriteLogIInv ==
  ASSUME IInv, NEW p \in Procs, write_log(p)
  PROVE  /\ IInv'
         /\ \A b \in Blocks : Cached(b)' = Cached(b)
<1>0. /\ boot = "up" /\ pc[p] = "write_log" /\ tail <= Len(lh)
      /\ logd' = [logd EXCEPT ![tail] = Cached(lh[tail])]
      /\ buf' = [buf EXCEPT ![lh[tail]] = Cached(lh[tail])]
      /\ tail' = tail + 1
      /\ UNCHANGED <<load, home, head, pin, lh, outstanding, committing, pc, wrote, boot, panicked>>
  BY DEF write_log, Is, Up
<1>1. /\ Committers = {p} /\ Active = {} /\ committing /\ ~Installing
      /\ \A q \in Procs : q # p => pc[q] \in {"idle", "begin", "asleep"}
  BY <1>0, CommitterAlone
<1>2. Active' = Active /\ Committers' = Committers /\ Installing' = Installing
  BY <1>0 DEF Active, Committers, Installing
<1>3. Len(lh) \in Nat /\ Len(lh) <= LOGSIZE /\ tail \in 1 .. LOGSIZE /\ lh[tail] \in Blocks
  BY <1>0, LenProperties, ElementOfSeq, LogAssumption DEF IInv, TypeOK, Shape
<1>4. Cached(lh[tail]) \in Vals /\ Absent \notin Vals
  BY <1>3, ContentAssumption DEF IInv, TypeOK, Cached
<1>5. \A b \in Blocks : Cached(b)' = Cached(b)
  BY <1>0, <1>3, <1>4 DEF IInv, TypeOK, Cached
<1>6. TypeOK'
  BY <1>0, <1>3, <1>4, LogAssumption DEF IInv, TypeOK
<1>7. Shape' /\ Booting'
  BY <1>0 DEF IInv, Shape, Booting
<1>8. Counting'
  BY <1>0, <1>2, CountingKept DEF IInv
<1>9. \A b \in Blocks : Pending(b)' = Pending(b)
  BY <1>0, <1>1, <1>2 DEF Pending
<1>10. Pending(lh[tail])
  BY <1>0, <1>1, <1>3 DEF Pending, IInv, TypeOK
<1>11. Pinning'
  BY <1>0, <1>3, <1>4, <1>9, <1>10 DEF IInv, TypeOK, Pinning
<1>12. Phases'
  <2>1. \A i \in 1 .. Len(lh) : i < tail' => logd'[i] = Cached(lh[i])'
    <3> SUFFICES ASSUME NEW i \in 1 .. Len(lh), i < tail'
                 PROVE  logd'[i] = Cached(lh[i])'
      OBVIOUS
    <3>1. lh[i] \in Blocks /\ Cached(lh[i])' = Cached(lh[i])
      BY <1>0, <1>5, ElementOfSeq DEF IInv, TypeOK, Cached
    <3>2. CASE i = tail
      BY <1>0, <1>3, <3>1, <3>2 DEF IInv, TypeOK
    <3>3. CASE i # tail
      BY <1>0, <1>3, <3>1, <3>3 DEF IInv, TypeOK, Phases
    <3> QED
      BY <3>2, <3>3
  <2>2. tail' <= Len(lh) + 1
    BY <1>0, <1>3
  <2>3. \A q \in Procs : /\ pc'[q] = "write_log" => q = p
                         /\ pc'[q] # "install" /\ pc'[q] # "done"
    BY <1>0, <1>1
  <2> QED
    BY <1>0, <1>1, <1>2, <2>1, <2>2, <2>3 DEF IInv, Phases, Cached
<1> QED
  BY <1>5, <1>6, <1>7, <1>8, <1>11, <1>12 DEF IInv

\* write_head(): the log on disk is now complete and takes effect.
LEMMA WriteHeadIInv ==
  ASSUME IInv, NEW p \in Procs, write_head(p)
  PROVE  IInv'
<1>0. /\ boot = "up" /\ pc[p] = "write_log" /\ tail > Len(lh)
      /\ head' = lh /\ tail' = 1
      /\ pc' = [pc EXCEPT ![p] = "install"]
      /\ UNCHANGED <<load, home, logd, buf, pin, lh, outstanding, committing, wrote, boot, panicked>>
  BY DEF write_head, Is, Up, Goto, mem
<1>1. /\ Committers = {p} /\ Active = {} /\ committing /\ ~Installing
      /\ \A q \in Procs : q # p => pc[q] \in {"idle", "begin", "asleep"}
  BY <1>0, CommitterAlone
<1>2. Active' = Active /\ Committers' = Committers /\ Installing'
  BY <1>0, <1>1 DEF IInv, TypeOK, Active, Committers, Installing
<1>3. Len(lh) \in Nat
  BY LenProperties DEF IInv, TypeOK
<1>4. TypeOK'
  BY <1>0, LogAssumption DEF IInv, TypeOK
<1>5. Shape' /\ Booting'
  BY <1>0 DEF IInv, Shape, Booting
<1>6. Counting'
  BY <1>0, <1>2, CountingKept DEF IInv
<1>7. \A b \in Blocks : Pending(b)' = Pending(b)
  BY <1>0, <1>1, <1>2, <1>3 DEF Pending
<1>8. Pinning'
  BY <1>0, <1>7 DEF IInv, Pinning
<1>9. Phases'
  <2>1. \A i \in 1 .. Len(lh) : logd[i] = Cached(lh[i])
    BY <1>0, <1>3 DEF IInv, TypeOK, Phases
  <2>2. \A q \in Procs : q # p => pc'[q] \notin {"write_log", "install", "done"}
    BY <1>0, <1>1 DEF IInv, TypeOK
  <2> QED
    BY <1>0, <1>1, <1>2, <1>3, <2>1, <2>2 DEF IInv, TypeOK, Phases, Cached
<1> QED
  BY <1>4, <1>5, <1>6, <1>8, <1>9 DEF IInv

\* install_trans() copies the next block from the log to its home.
LEMMA InstallIInv ==
  ASSUME IInv, NEW p \in Procs, install_trans(p)
  PROVE  /\ IInv'
         /\ \A b \in Blocks : Cached(b)' = Cached(b)
<1>0. /\ boot = "up" /\ pc[p] = "install" /\ tail <= Len(lh)
      /\ home' = [home EXCEPT ![lh[tail]] = logd[tail]]
      /\ buf' = [buf EXCEPT ![lh[tail]] = logd[tail]]
      /\ pin' = [pin EXCEPT ![lh[tail]] = @ - 1]
      /\ tail' = tail + 1
      /\ UNCHANGED <<load, logd, head, lh, outstanding, committing, pc, wrote, boot, panicked>>
  BY DEF install_trans, InstallBlock, Is, Up
<1>1. /\ Committers = {p} /\ Active = {} /\ committing /\ Installing
      /\ \A q \in Procs : q # p => pc[q] \in {"idle", "begin", "asleep"}
  BY <1>0, CommitterAlone
<1>2. Active' = Active /\ Committers' = Committers /\ Installing'
  BY <1>0, <1>1 DEF Active, Committers, Installing
<1>3. /\ Len(lh) \in Nat /\ Len(lh) <= LOGSIZE /\ tail \in 1 .. Len(lh)
      /\ tail \in 1 .. LOGSIZE /\ lh[tail] \in Blocks
  BY <1>0, LenProperties, ElementOfSeq, LogAssumption DEF IInv, TypeOK, Shape
<1>4. logd[tail] \in Vals /\ Absent \notin Vals /\ logd[tail] = Cached(lh[tail])
  BY <1>0, <1>3, ContentAssumption DEF IInv, TypeOK, Phases
<1>5. \A b \in Blocks : Cached(b)' = Cached(b)
  BY <1>0, <1>3, <1>4 DEF IInv, TypeOK, Cached
<1>6. \A i \in 1 .. Len(lh) : lh[i] \in Blocks /\ (lh[i] = lh[tail] => i = tail)
  BY <1>3, ElementOfSeq DEF IInv, TypeOK, Shape, Distinct
<1>7. Pending(lh[tail]) /\ \A b \in Blocks : Pending(b)' <=> (Pending(b) /\ b # lh[tail])
  BY <1>0, <1>1, <1>2, <1>3, <1>6 DEF Pending
<1>8. Pinning'
  BY <1>0, <1>3, <1>4, <1>7 DEF IInv, TypeOK, Pinning
<1>9. TypeOK'
  <2>1. pin[lh[tail]] = 1
    BY <1>0, <1>3, <1>7 DEF IInv, Pinning
  <2> QED
    BY <1>0, <1>3, <1>4, <2>1, LogAssumption DEF IInv, TypeOK
<1>10. Shape' /\ Booting'
  BY <1>0 DEF IInv, Shape, Booting
<1>11. Counting'
  BY <1>0, <1>2, CountingKept DEF IInv
<1>12. Phases'
  <2>1. \A i \in 1 .. Len(lh) : logd[i] = Cached(lh[i]) /\ (i < tail => home[lh[i]] = logd[i])
    BY <1>0 DEF IInv, Phases
  <2>2. \A i \in 1 .. Len(lh) : logd[i] = Cached(lh[i])'
    BY <1>0, <1>5, <1>6, <2>1 DEF Cached
  <2>3. \A i \in 1 .. Len(lh) : i < tail' => home'[lh[i]] = logd[i]
    BY <1>0, <1>3, <1>6, <2>1 DEF IInv, TypeOK
  <2>4. tail' <= Len(lh) + 1
    BY <1>0, <1>3
  <2>5. \A q \in Procs : /\ pc'[q] = "install" => q = p
                         /\ pc'[q] # "write_log" /\ pc'[q] # "done"
    BY <1>0, <1>1
  <2>6. head = lh
    BY <1>0 DEF IInv, Phases
  <2> QED
    BY <1>0, <1>1, <1>2, <2>2, <2>3, <2>4, <2>5, <2>6 DEF Phases, Cached
<1> QED
  BY <1>5, <1>8, <1>9, <1>10, <1>11, <1>12 DEF IInv

\* The end of commit(): nothing is pending when the header is cleared.
LEMMA CommitClearIInv ==
  ASSUME IInv, NEW p \in Procs, CommitClear(p)
  PROVE  IInv'
<1>0. /\ boot = "up" /\ pc[p] = "install" /\ tail > Len(lh)
      /\ lh' = <<>> /\ head' = <<>> /\ tail' = 1
      /\ pc' = [pc EXCEPT ![p] = "done"]
      /\ UNCHANGED <<load, home, logd, buf, pin, outstanding, committing, wrote, boot, panicked>>
  BY DEF CommitClear, ClearLog, Goto, Is, Up
<1>1. /\ Committers = {p} /\ Active = {} /\ committing /\ Installing
      /\ \A q \in Procs : q # p => pc[q] \in {"idle", "begin", "asleep"}
  BY <1>0, CommitterAlone
<1>2. Active' = Active /\ Committers' = Committers /\ ~Installing'
  BY <1>0, <1>1 DEF IInv, TypeOK, Active, Committers, Installing
<1>3. Len(lh) \in Nat /\ lh' \in Seq(Blocks) /\ Len(lh') = 0
  BY <1>0, LenProperties, EmptySeq DEF IInv, TypeOK
<1>4. TypeOK'
  BY <1>0, <1>3, LogAssumption DEF IInv, TypeOK
<1>5. Shape' /\ Booting'
  BY <1>0, <1>3, LogAssumption DEF IInv, Shape, Booting, Distinct
<1>6. Counting'
  BY <1>0, <1>2, CountingKept DEF IInv
<1>7. \A b \in Blocks : ~Pending(b) /\ ~Pending(b)'
  BY <1>0, <1>1, <1>3 DEF IInv, TypeOK, Pending
<1>8. Pinning'
  BY <1>0, <1>7 DEF IInv, Pinning
<1>9. Phases'
  <2>1. \A q \in Procs : pc'[q] # "write_log" /\ pc'[q] # "install"
    BY <1>0, <1>1 DEF IInv, TypeOK
  <2> QED
    BY <1>0, <1>1, <1>2, <2>1 DEF Phases
<1> QED
  BY <1>4, <1>5, <1>6, <1>8, <1>9 DEF IInv

\* The end of end_op(): nobody commits any more, and the log is empty.
LEMMA CommitDoneIInv ==
  ASSUME IInv, NEW p \in Procs, CommitDone(p)
  PROVE  IInv'
<1>0. /\ boot = "up" /\ pc[p] = "done" /\ committing' = FALSE
      /\ pc' = [q \in Procs |-> IF q = p THEN "idle"
                                ELSE IF pc[q] = "asleep" THEN "begin" ELSE pc[q]]
      /\ UNCHANGED <<load, home, logd, head, buf, pin, lh, outstanding, wrote, tail, boot, panicked>>
  BY DEF CommitDone, Wake, WakeupAnd, Is, Up, disk
<1>1. /\ Committers = {p} /\ Active = {} /\ committing /\ ~Installing
      /\ \A q \in Procs : q # p => pc[q] \in {"idle", "begin", "asleep"}
  BY <1>0, CommitterAlone
<1>2. \A q \in Procs : pc'[q] \in {"idle", "begin"}
  BY <1>0, <1>1
<1>3. Active' = {} /\ Committers' = {} /\ ~Installing'
  BY <1>2 DEF Active, Committers, Installing
<1>4. TypeOK'
  BY <1>0, <1>2 DEF IInv, TypeOK
<1>5. Shape' /\ Booting'
  BY <1>0 DEF IInv, Shape, Booting
<1>6. Counting'
  BY <1>0, <1>1, <1>3 DEF IInv, Counting
<1>7. Pinning'
  BY <1>0, <1>1, <1>3 DEF IInv, Pinning, Pending
<1>8. Phases'
  BY <1>0, <1>1, <1>2, <1>3 DEF IInv, Phases
<1> QED
  BY <1>4, <1>5, <1>6, <1>7, <1>8 DEF IInv

\* bget() takes the buffer of a block with nothing pending: no content is lost.
LEMMA RecycleIInv ==
  ASSUME IInv, NEW b \in Blocks, Recycle(b)
  PROVE  /\ IInv'
         /\ \A c \in Blocks : Cached(c)' = Cached(c)
<1>0. /\ boot = "up" /\ buf[b] # Absent /\ pin[b] = 0
      /\ buf' = [buf EXCEPT ![b] = Absent]
      /\ UNCHANGED <<load, home, logd, head, pin, lh, outstanding, committing, pc, wrote, tail, boot, panicked>>
  BY DEF Recycle, Up, disk
<1>1. Active' = Active /\ Committers' = Committers /\ Installing' = Installing
      /\ \A c \in Blocks : Pending(c)' = Pending(c)
  BY <1>0 DEF Active, Committers, Installing, Pending
<1>2. ~Pending(b) /\ buf[b] = home[b]
  BY <1>0 DEF IInv, Pinning
<1>3. \A c \in Blocks : Cached(c)' = Cached(c)
  BY <1>0, <1>2 DEF IInv, TypeOK, Cached
<1>4. TypeOK'
  BY <1>0 DEF IInv, TypeOK
<1>5. Shape' /\ Booting'
  BY <1>0 DEF IInv, Shape, Booting
<1>6. Counting'
  BY <1>0, <1>1, CountingKept DEF IInv
<1>7. Pinning'
  BY <1>0, <1>1, <1>2 DEF IInv, TypeOK, Pinning
<1>8. Phases'
  <2>1. \A i \in 1 .. Len(lh) : Cached(lh[i])' = Cached(lh[i])
    <3>1. \A i \in 1 .. Len(lh) : lh[i] \in Blocks
      BY ElementOfSeq DEF IInv, TypeOK
    <3> QED
      BY <1>0, <1>3, <3>1 DEF Cached
  <2> QED
    BY <1>0, <1>1, <2>1 DEF IInv, Phases
<1> QED
  BY <1>3, <1>4, <1>5, <1>6, <1>7, <1>8 DEF IInv

\* A crash leaves the disk as it is and memory empty.
LEMMA CrashIInv ==
  ASSUME IInv, Crash
  PROVE  IInv'
<1>0. /\ buf' = [b \in Blocks |-> Absent] /\ pin' = [b \in Blocks |-> 0] /\ lh' = <<>>
      /\ outstanding' = 0 /\ committing' = FALSE
      /\ pc' = [p \in Procs |-> "idle"] /\ wrote' = [p \in Procs |-> {}]
      /\ tail' = 1 /\ panicked' = FALSE /\ boot' = "read_head"
      /\ UNCHANGED <<load, home, logd, head>>
  BY DEF Crash, disk
<1>1. Active' = {} /\ Committers' = {}
  BY <1>0 DEF Active, Committers
<1>2. lh' \in Seq(Blocks) /\ Len(lh') = 0
  BY <1>0, EmptySeq
<1>3. TypeOK'
  <2>1. /\ buf' \in [Blocks -> Vals \cup {Absent}] /\ pin' \in [Blocks -> Nat]
        /\ wrote' \in [Procs -> SUBSET Blocks]
    BY <1>0
  <2>2. pc' \in [Procs -> {"idle", "begin", "asleep", "active", "write_log", "install", "done"}]
    BY <1>0
  <2>3. tail' \in 1 .. LOGSIZE + 1
    BY <1>0, LogAssumption
  <2> QED
    BY <1>0, <1>2, <2>1, <2>2, <2>3 DEF IInv, TypeOK
<1>4. Shape'
  BY <1>0, <1>2, LogAssumption DEF IInv, Shape, Distinct
<1>5. Counting'
  <2>1. IsFiniteSet({}) /\ Cardinality({}) = 0
    BY FS_EmptySet
  <2> QED
    BY <1>0, <1>1, <2>1 DEF Counting
<1>6. Pinning' /\ Phases' /\ Booting'
  BY <1>0 DEF Pinning, Phases, Booting
<1> QED
  BY <1>3, <1>4, <1>5, <1>6 DEF IInv

\* recover_from_log() reads the header that the crash left.
LEMMA ReadHeadIInv ==
  ASSUME IInv, read_head
  PROVE  IInv'
<1>0. /\ boot = "read_head" /\ lh' = head /\ boot' = "install"
      /\ UNCHANGED <<load, home, logd, head, buf, pin, outstanding, committing, pc, wrote, tail, panicked>>
  BY DEF read_head, disk
<1>1. Active' = Active /\ Committers' = Committers
  BY <1>0 DEF Active, Committers
<1>2. TypeOK'
  BY <1>0 DEF IInv, TypeOK
<1>3. Shape'
  BY <1>0 DEF IInv, Shape
<1>4. Counting'
  BY <1>0, <1>1, CountingKept DEF IInv
<1>5. Pinning' /\ Phases'
  BY <1>0 DEF Pinning, Phases
<1>6. Booting'
  <2>1. tail = 1 /\ Len(lh') \in Nat
    BY <1>0, LenProperties DEF IInv, TypeOK, Booting
  <2> QED
    BY <1>0, <2>1 DEF IInv, Booting
<1> QED
  BY <1>2, <1>3, <1>4, <1>5, <1>6 DEF IInv

\* install_trans(1) during recovery.
LEMMA RecoverInstallIInv ==
  ASSUME IInv, RecoverInstall
  PROVE  IInv'
<1>0. /\ boot = "install" /\ tail <= Len(lh)
      /\ home' = [home EXCEPT ![lh[tail]] = logd[tail]]
      /\ buf' = [buf EXCEPT ![lh[tail]] = logd[tail]]
      /\ tail' = tail + 1
      /\ UNCHANGED <<load, logd, head, pin, lh, outstanding, committing, pc, wrote, boot, panicked>>
  BY DEF RecoverInstall, InstallBlock
<1>1. Active' = Active /\ Committers' = Committers
  BY <1>0 DEF Active, Committers
<1>2. /\ Len(lh) \in Nat /\ Len(lh) <= LOGSIZE /\ tail \in 1 .. Len(lh)
      /\ tail \in 1 .. LOGSIZE /\ lh[tail] \in Blocks
  BY <1>0, LenProperties, ElementOfSeq, LogAssumption DEF IInv, TypeOK, Shape
<1>3. logd[tail] \in Vals
  BY <1>2 DEF IInv, TypeOK
<1>4. TypeOK'
  BY <1>0, <1>2, <1>3, LogAssumption DEF IInv, TypeOK
<1>5. Shape'
  BY <1>0 DEF IInv, Shape
<1>6. Counting'
  BY <1>0, <1>1, CountingKept DEF IInv
<1>7. Pinning' /\ Phases'
  BY <1>0 DEF Pinning, Phases
<1>8. Booting'
  <2>1. \A b \in Blocks : pin'[b] = 0 /\ buf'[b] \in {Absent, home'[b]}
    BY <1>0, <1>2 DEF IInv, TypeOK, Booting
  <2>2. \A i \in 1 .. Len(lh) : lh[i] \in Blocks /\ (i < tail => home[lh[i]] = logd[i])
    BY <1>0, ElementOfSeq DEF IInv, TypeOK, Booting
  <2>3. \A i \in 1 .. Len(lh) : lh[i] = lh[tail] => i = tail
    BY <1>2 DEF IInv, Shape, Distinct
  <2>4. \A i \in 1 .. Len(lh) : i < tail' => home'[lh[i]] = logd[i]
    BY <1>0, <1>2, <2>2, <2>3 DEF IInv, TypeOK
  <2>5. tail' <= Len(lh) + 1
    BY <1>0, <1>2
  <2> QED
    BY <1>0, <2>1, <2>4, <2>5 DEF IInv, Booting
<1> QED
  BY <1>4, <1>5, <1>6, <1>7, <1>8 DEF IInv

\* Recovery ends: the log is cleared and the system is up.
LEMMA RecoverClearIInv ==
  ASSUME IInv, RecoverClear
  PROVE  IInv'
<1>0. /\ boot = "install" /\ tail > Len(lh)
      /\ lh' = <<>> /\ head' = <<>> /\ tail' = 1 /\ boot' = "up"
      /\ UNCHANGED <<load, home, logd, buf, pin, outstanding, committing, pc, wrote, panicked>>
  BY DEF RecoverClear, ClearLog
<1>1. Active' = Active /\ Committers' = Committers
  BY <1>0 DEF Active, Committers
<1>2. lh' \in Seq(Blocks) /\ Len(lh') = 0
  BY <1>0, EmptySeq
<1>3. TypeOK'
  BY <1>0, <1>2, LogAssumption DEF IInv, TypeOK
<1>4. Shape'
  BY <1>0, <1>2, LogAssumption DEF IInv, Shape, Distinct
<1>5. Counting'
  BY <1>0, <1>1, CountingKept DEF IInv
<1>6. Pinning'
  <2>1. \A b \in Blocks : ~Pending(b)'
    BY <1>2 DEF Pending
  <2> QED
    BY <1>0, <2>1 DEF IInv, Booting, Pinning
<1>7. Phases' /\ Booting'
  BY <1>0 DEF IInv, Booting, Phases
<1> QED
  BY <1>3, <1>4, <1>5, <1>6, <1>7 DEF IInv

\* Every action keeps the invariant: one step per action.
THEOREM NextIInv == IInv /\ [Next]_vars => IInv'
<1> SUFFICES ASSUME IInv, [Next]_vars PROVE IInv'
  OBVIOUS
<1>0. /\ load.procs \subseteq Procs /\ load.blocks \subseteq Blocks /\ load.vals \subseteq Vals
  BY LoadAssumption DEF IInv, Shape
<1>1. ASSUME NEW p \in Procs, Step(p) PROVE IInv'
  BY <1>1, BeginIInv, EndIInv, WriteLogIInv, WriteHeadIInv, InstallIInv, CommitClearIInv,
     CommitDoneIInv DEF Step
<1>2. ASSUME NEW p \in Procs, Call(p) PROVE IInv'
  BY <1>2, IdleMove DEF Call, Is, Goto
<1>3. CASE UNCHANGED vars
  <2>0. UNCHANGED <<load, home, logd, head, buf, pin, lh, outstanding, committing, pc, wrote, tail,
                    boot, panicked>>
    BY <1>3 DEF vars, disk, mem
  <2> QED
    BY <2>0 DEF IInv, TypeOK, Shape, Counting, Pinning, Phases, Booting, Active, Committers,
                Installing, Pending, Cached
<1> QED
  BY <1>0, <1>1, <1>2, <1>3, LogWriteIInv, RecycleIInv, CrashIInv, ReadHeadIInv,
     RecoverInstallIInv, RecoverClearIInv DEF Next

\* IInv holds always.
THEOREM IInvCorrect == Spec => []IInv
BY InitIInv, NextIInv, PTL DEF Spec

\* Every variable of the log keeps its type; in particular no index leaves the
\* log's blocks, through any sequence of commits, crashes and recoveries.
THEOREM TypeCorrect == Spec => []TypeOK
<1>1. IInv => TypeOK
  BY DEF IInv
<1> QED
  BY IInvCorrect, <1>1, PTL

\* When no call and no commit is in progress, every write made so far has
\* reached its home block and the log is empty: end_op() of the last call
\* returns only then.
THEOREM DurableCorrect == Spec => []QuietIsDurable
<1>1. IInv => QuietIsDurable
  <2> SUFFICES ASSUME IInv, Up, outstanding = 0, ~committing
               PROVE  head = <<>> /\ \A b \in Blocks : Cached(b) = home[b]
    BY DEF QuietIsDurable
  <2>1. Active = {}
    BY FS_EmptySet DEF IInv, Counting
  <2>2. lh = <<>> /\ ~Installing
    BY <2>1 DEF IInv, Phases, Up, Counting, Committers, Installing
  <2>3. \A b \in Blocks : ~Pending(b)
    BY <2>2 DEF Pending
  <2>4. head = <<>>
    BY <2>2 DEF IInv, Phases, Up
  <2> QED
    BY <2>3, <2>4 DEF IInv, Pinning, Up, Cached
<1> QED
  BY IInvCorrect, <1>1, PTL

-----------------------------------------------------------------------------
(* The log implements AtomicDisk.                                          *)

\* What file-system calls read, as AtomicDisk sees it.
CurrentBar == IF boot = "up" THEN [b \in Blocks |-> Cached(b)] ELSE Recovered

\* Recovery takes a block named in the header from the log, the others stay.
LEMMA RecoveredBlocks ==
  ASSUME Distinct(head)
  PROVE  /\ \A i \in 1 .. Len(head) : head[i] \in Blocks => Recovered[head[i]] = logd[i]
         /\ \A b \in Blocks : (\A i \in 1 .. Len(head) : head[i] # b) => Recovered[b] = home[b]
         /\ Recovered = [b \in Blocks |-> Recovered[b]]
<1>1. ASSUME NEW i \in 1 .. Len(head), head[i] \in Blocks
      PROVE  Recovered[head[i]] = logd[i]
  <2>1. (CHOOSE k \in 1 .. Len(head) : head[k] = head[i]) = i
    BY <1>1 DEF Distinct
  <2> QED
    BY <1>1, <2>1 DEF Recovered
<1>2. ASSUME NEW b \in Blocks, \A i \in 1 .. Len(head) : head[i] # b
      PROVE  Recovered[b] = home[b]
  BY <1>2 DEF Recovered
<1>3. Recovered = [b \in Blocks |-> Recovered[b]]
  BY DEF Recovered
<1> QED
  BY <1>1, <1>2, <1>3

\* With an empty header recovery does nothing.
LEMMA RecoveredEmpty ==
  ASSUME TypeOK, head = <<>>
  PROVE  Recovered = home
<1>1. \A b \in Blocks : ~ \E i \in 1 .. Len(head) : head[i] = b
  BY EmptySeq
<1>2. home = [b \in Blocks |-> home[b]]
  BY DEF TypeOK
<1> QED
  BY <1>1, <1>2 DEF Recovered

\* Two functions on blocks that agree are equal.
LEMMA SameBlocks ==
  ASSUME NEW f, NEW g, f = [b \in Blocks |-> f[b]], g = [b \in Blocks |-> g[b]],
         \A b \in Blocks : f[b] = g[b]
  PROVE  f = g
OBVIOUS

\* Overwriting the home of a block that the header names does not change what
\* recovery makes of the disk: it is repeated as often as it is interrupted.
LEMMA RecoveredInstall ==
  ASSUME TypeOK, Distinct(head), NEW k \in 1 .. Len(head),
         home' = [home EXCEPT ![head[k]] = logd[k]],
         UNCHANGED <<head, logd>>
  PROVE  Recovered' = Recovered
<1>1. \A b \in Blocks : (\A i \in 1 .. Len(head) : head[i] # b) => home'[b] = home[b]
  BY DEF TypeOK
<1>2. \A b \in Blocks :
        (IF \E i \in 1 .. Len(head') : head'[i] = b
         THEN logd'[CHOOSE i \in 1 .. Len(head') : head'[i] = b] ELSE home'[b])
      = (IF \E i \in 1 .. Len(head) : head[i] = b
         THEN logd[CHOOSE i \in 1 .. Len(head) : head[i] = b] ELSE home[b])
  BY <1>1
<1> QED
  BY <1>2 DEF Recovered

\* Clearing the header of a log that is installed does not change it either.
LEMMA RecoveredClear ==
  ASSUME TypeOK, TypeOK', Distinct(head), head' = <<>>, UNCHANGED <<home, logd>>,
         \A i \in 1 .. Len(head) : home[head[i]] = logd[i]
  PROVE  Recovered' = Recovered /\ Recovered = home
<1>1. Recovered' = home
  <2>1. \A b \in Blocks : ~ \E i \in 1 .. Len(head') : head'[i] = b
    BY EmptySeq
  <2>2. home = [b \in Blocks |-> home'[b]]
    BY DEF TypeOK
  <2> QED
    BY <2>1, <2>2 DEF Recovered
<1>2. \A b \in Blocks : Recovered[b] = home[b]
  <2> SUFFICES ASSUME NEW b \in Blocks PROVE Recovered[b] = home[b]
    OBVIOUS
  <2>1. CASE \E i \in 1 .. Len(head) : head[i] = b
    BY <2>1, RecoveredBlocks
  <2>2. CASE \A i \in 1 .. Len(head) : head[i] # b
    BY <2>2, RecoveredBlocks
  <2> QED
    BY <2>1, <2>2
<1>3. Recovered = home
  BY <1>2, RecoveredBlocks, SameBlocks DEF TypeOK
<1> QED
  BY <1>1, <1>3

\* While it is up, outside the installation of a commit, a crash would bring the
\* home blocks back; during it, the contents that the commit is about.
LEMMA RecoveredUp ==
  ASSUME IInv, boot = "up"
  PROVE  /\ ~Installing => Recovered = home
         /\ Installing => Recovered = [b \in Blocks |-> Cached(b)]
<1>1. ASSUME ~Installing PROVE Recovered = home
  BY <1>1, RecoveredEmpty DEF IInv, Phases
<1>2. ASSUME Installing PROVE Recovered = [b \in Blocks |-> Cached(b)]
  <2>1. /\ head = lh /\ Distinct(head)
        /\ \A i \in 1 .. Len(lh) : logd[i] = Cached(lh[i])
        /\ \A i \in 1 .. Len(lh) : i < tail => home[lh[i]] = logd[i]
    BY <1>2 DEF IInv, Phases, Shape, Installing
  <2>2. \A b \in Blocks : Recovered[b] = Cached(b)
    <3> SUFFICES ASSUME NEW b \in Blocks PROVE Recovered[b] = Cached(b)
      OBVIOUS
    <3>1. CASE \E i \in 1 .. Len(head) : head[i] = b
      BY <2>1, <3>1, RecoveredBlocks
    <3>2. CASE \A i \in 1 .. Len(head) : head[i] # b
      <4>1. ~Pending(b)
        BY <2>1, <3>2 DEF Pending
      <4>2. Cached(b) = home[b]
        BY <4>1 DEF IInv, Pinning, Cached
      <4> QED
        BY <2>1, <3>2, <4>2, RecoveredBlocks
    <3> QED
      BY <3>1, <3>2
  <2> DEFINE c == [b \in Blocks |-> Cached(b)]
  <2>3. c = [b \in Blocks |-> c[b]] /\ \A b \in Blocks : Recovered[b] = c[b]
    BY <2>2
  <2> HIDE DEF c
  <2>4. Recovered = c
    BY <2>1, <2>3, RecoveredBlocks, SameBlocks
  <2> QED
    BY <2>4 DEF c
<1> QED
  BY <1>1, <1>2

\* The same after a step that leaves a commit to be installed.
LEMMA RecoveredUpNext ==
  (IInv /\ boot = "up" /\ Installing)' => (Recovered = [b \in Blocks |-> Cached(b)])'
<1>1. IInv /\ boot = "up" /\ Installing => Recovered = [b \in Blocks |-> Cached(b)]
  BY RecoveredUp
<1> QED
  BY <1>1, PTL

\* A step that changes neither what calls read nor what a crash leaves.
LEMMA CurrentKept ==
  ASSUME boot = "up", boot' = "up", \A b \in Blocks : Cached(b)' = Cached(b)
  PROVE  CurrentBar' = CurrentBar
BY DEF CurrentBar

\* Each step of the log is a step of AtomicDisk or none at all.
LEMMA AtomicDiskStep ==
  ASSUME IInv, IInv', [Next]_vars
  PROVE  [AD!Next]_<<Recovered, CurrentBar, Active>>
<1>0. /\ load.procs \subseteq Procs /\ load.blocks \subseteq Blocks /\ load.vals \subseteq Vals
  BY LoadAssumption DEF IInv, Shape
<1>a. TypeOK /\ TypeOK' /\ Distinct(head) /\ Distinct(lh)
  BY DEF IInv, Shape
<1> DEFINE Goal == [AD!Next]_<<Recovered, CurrentBar, Active>>
<1>b. ASSUME UNCHANGED <<Recovered, CurrentBar, Active>> PROVE Goal
  BY <1>b
<1>c. ASSUME NEW p \in Procs, Active' = Active \cup {p}, p \notin Active,
             UNCHANGED <<Recovered, CurrentBar>>
      PROVE  Goal
  BY <1>c DEF AD!Next, AD!Begin, CurrentBar, Active
<1>d. ASSUME NEW p \in Procs, Active' = Active \ {p}, p \in Active,
             UNCHANGED <<Recovered, CurrentBar>>
      PROVE  Goal
  BY <1>d DEF AD!Next, AD!End, CurrentBar, Active
<1>e. ASSUME NEW p \in Procs, NEW b \in Blocks, NEW v \in Vals, p \in Active,
             CurrentBar' = [CurrentBar EXCEPT ![b] = v], UNCHANGED <<Recovered, Active>>
      PROVE  Goal
  BY <1>e DEF AD!Next, AD!Write, CurrentBar, Active
<1>f. ASSUME Active = {}, Recovered' = CurrentBar, UNCHANGED <<CurrentBar, Active>>
      PROVE  Goal
  BY <1>f DEF AD!Next, AD!Commit, CurrentBar, Active
<1>g. ASSUME CurrentBar' = Recovered, Active' = {}, UNCHANGED Recovered
      PROVE  Goal
  BY <1>g DEF AD!Next, AD!Crash, CurrentBar, Active
<1> HIDE DEF Goal
<1>h. ASSUME UNCHANGED <<home, logd, head, buf, boot>>
      PROVE  UNCHANGED <<Recovered, CurrentBar>>
  BY <1>h DEF Recovered, CurrentBar, Cached
<1>1. ASSUME NEW p \in Procs, Call(p)
      PROVE  Goal
  <2>1. UNCHANGED <<home, logd, head, buf, boot>>
    BY <1>1 DEF Call, disk, mem
  <2>2. Active' = Active
    BY <1>1, <1>a DEF Call, Is, Goto, Active, TypeOK
  <2> QED
    BY <1>b, <1>h, <2>1, <2>2
<1>2. ASSUME NEW p \in Procs, begin_op(p)
      PROVE  Goal
  <2>1. UNCHANGED <<home, logd, head, buf, boot>>
    BY <1>2 DEF begin_op, disk
  <2>2. CASE MustWait
    <3>1. Active' = Active
      BY <1>2, <1>a, <2>2 DEF begin_op, Is, Goto, Active, TypeOK
    <3> QED
      BY <1>b, <1>h, <2>1, <3>1
  <2>3. CASE ~MustWait
    <3>1. Active' = Active \cup {p} /\ p \notin Active
      BY <1>2, <1>a, <2>3 DEF begin_op, Is, Goto, Active, TypeOK
    <3> QED
      BY <1>c, <1>h, <2>1, <3>1
  <2> QED
    BY <2>2, <2>3
<1>3. ASSUME NEW p \in Procs, NEW b \in Blocks, NEW v \in Vals, log_write(p, b, v)
      PROVE  Goal
  <2>1. /\ boot = "up" /\ boot' = "up" /\ p \in Active /\ Active' = Active
        /\ UNCHANGED <<home, logd, head>>
    BY <1>3 DEF log_write, Is, Up, Active, disk
  <2>2. Recovered' = Recovered
    BY <2>1 DEF Recovered
  <2>3. CASE UNCHANGED buf
    BY <1>b, <1>h, <2>1, <2>3
  <2>4. CASE buf' = [buf EXCEPT ![b] = v]
    <3>1. \A c \in Blocks : Cached(c)' = IF c = b THEN v ELSE Cached(c)
      BY <1>a, <2>1, <2>4, ContentAssumption DEF TypeOK, Cached
    <3>2. CurrentBar = [c \in Blocks |-> Cached(c)] /\ CurrentBar' = [c \in Blocks |-> Cached(c)']
      BY <2>1 DEF CurrentBar
    <3>3. CurrentBar' = [CurrentBar EXCEPT ![b] = v]
      BY <3>1, <3>2
    <3> QED
      BY <1>e, <2>1, <2>2, <3>3
  <2> QED
    BY <1>3, <2>3, <2>4 DEF log_write
<1>4. ASSUME NEW p \in Procs, end_op(p)
      PROVE  Goal
  <2>1. UNCHANGED <<home, logd, head, buf, boot>> /\ pc[p] = "active" /\ p \in Active
    BY <1>4 DEF end_op, Is, Active, disk
  <2>2. ~committing
    BY <2>1 DEF IInv, Counting
  <2>3. Active' = Active \ {p}
    BY <1>4, <1>a, <2>1, <2>2 DEF end_op, Goto, WakeupAnd, Active, TypeOK
  <2> QED
    BY <1>d, <1>h, <2>1, <2>3
<1>5. ASSUME NEW p \in Procs, write_log(p)
      PROVE  Goal
  <2>1. /\ boot = "up" /\ boot' = "up" /\ pc[p] = "write_log"
        /\ UNCHANGED <<home, head, pc>>
    BY <1>5 DEF write_log, Is, Up
  <2>2. ~Installing /\ Active' = Active
    BY <2>1, CommitterAlone DEF Active
  <2>3. head = <<>>
    BY <2>1, <2>2 DEF IInv, Phases
  <2>4. Recovered' = Recovered
    BY <2>1, <2>3, EmptySeq DEF Recovered
  <2>5. CurrentBar' = CurrentBar
    BY <1>5, <2>1, WriteLogIInv, CurrentKept
  <2> QED
    BY <1>b, <2>2, <2>4, <2>5
<1>6. ASSUME NEW p \in Procs, write_head(p)
      PROVE  Goal
  <2>1. /\ boot = "up" /\ boot' = "up" /\ pc[p] = "write_log"
        /\ head' = lh /\ pc' = [pc EXCEPT ![p] = "install"]
        /\ UNCHANGED <<home, logd, buf, lh>>
    BY <1>6 DEF write_head, Is, Up, Goto, mem
  <2>2. Active = {} /\ Active' = Active /\ Installing'
    <3>1. Active = {}
      BY <2>1, CommitterAlone
    <3> QED
      BY <1>a, <2>1, <3>1 DEF Active, Installing, TypeOK
  <2>3. CurrentBar' = CurrentBar /\ CurrentBar = [b \in Blocks |-> Cached(b)]
    BY <2>1 DEF CurrentBar, Cached
  <2>4. Recovered' = CurrentBar'
    <3>1. Recovered' = [b \in Blocks |-> Cached(b)']
      <4>1. IInv' /\ boot' = "up" /\ Installing'
        BY <2>1, <2>2
      <4> QED
        BY <4>1, RecoveredUpNext
    <3> QED
      BY <2>1, <3>1 DEF CurrentBar
  <2> QED
    BY <1>f, <2>2, <2>3, <2>4
<1>7. ASSUME NEW p \in Procs, install_trans(p)
      PROVE  Goal
  <2>1. /\ boot = "up" /\ boot' = "up" /\ pc[p] = "install" /\ tail <= Len(lh)
        /\ home' = [home EXCEPT ![lh[tail]] = logd[tail]]
        /\ UNCHANGED <<logd, head, pc>>
    BY <1>7 DEF install_trans, InstallBlock, Is, Up
  <2>2. head = lh /\ Active' = Active
    BY <2>1 DEF IInv, Phases, Active
  <2>3. tail \in 1 .. Len(head)
    BY <1>a, <2>1, <2>2, LenProperties, LogAssumption DEF TypeOK
  <2>4. Recovered' = Recovered
    BY <1>a, <2>1, <2>2, <2>3, RecoveredInstall
  <2>5. CurrentBar' = CurrentBar
    BY <1>7, <2>1, InstallIInv, CurrentKept
  <2> QED
    BY <1>b, <2>2, <2>4, <2>5
<1>8. ASSUME NEW p \in Procs, CommitClear(p)
      PROVE  Goal
  <2>1. /\ boot = "up" /\ boot' = "up" /\ pc[p] = "install" /\ tail > Len(lh)
        /\ head' = <<>> /\ pc' = [pc EXCEPT ![p] = "done"]
        /\ UNCHANGED <<home, logd, buf>>
    BY <1>8 DEF CommitClear, ClearLog, Is, Up, Goto
  <2>2. head = lh /\ Active' = Active
    BY <1>a, <2>1 DEF IInv, Phases, Active, TypeOK
  <2>3. \A i \in 1 .. Len(head) : home[head[i]] = logd[i]
    <3>1. Len(lh) \in Nat /\ tail \in Int
      BY <1>a, LenProperties, LogAssumption DEF TypeOK
    <3> QED
      BY <2>1, <2>2, <3>1 DEF IInv, Phases
  <2>4. Recovered' = Recovered
    BY <1>a, <2>1, <2>3, RecoveredClear
  <2>5. CurrentBar' = CurrentBar
    BY <2>1, CurrentKept DEF Cached
  <2> QED
    BY <1>b, <2>2, <2>4, <2>5
<1>9. ASSUME NEW p \in Procs, CommitDone(p)
      PROVE  Goal
  <2>1. UNCHANGED <<home, logd, head, buf, boot>> /\ pc[p] = "done"
    BY <1>9 DEF CommitDone, Is, disk
  <2>2. Active' = Active
    BY <1>9, <1>a, <2>1 DEF CommitDone, Wake, WakeupAnd, Active, TypeOK
  <2> QED
    BY <1>b, <1>h, <2>1, <2>2
<1>10. ASSUME NEW b \in Blocks, Recycle(b)
       PROVE  Goal
  <2>1. boot = "up" /\ boot' = "up" /\ UNCHANGED <<home, logd, head, pc>>
    BY <1>10 DEF Recycle, Up, disk
  <2>2. Active' = Active /\ Recovered' = Recovered
    BY <2>1 DEF Active, Recovered
  <2>3. CurrentBar' = CurrentBar
    BY <1>10, <2>1, RecycleIInv, CurrentKept
  <2> QED
    BY <1>b, <2>2, <2>3
<1>11. CASE Crash
  <2>1. boot' = "read_head" /\ UNCHANGED <<home, logd, head>> /\ Active' = {}
    BY <1>11 DEF Crash, disk, Active
  <2>2. Recovered' = Recovered /\ CurrentBar' = Recovered'
    BY <2>1 DEF Recovered, CurrentBar
  <2>3. Goal
    BY <1>g, <2>1, <2>2
  <2> QED
    BY <2>3 DEF Goal
<1>12. CASE read_head
  <2>1. boot = "read_head" /\ boot' = "install" /\ UNCHANGED <<home, logd, head, pc>>
    BY <1>12 DEF read_head, disk
  <2>2. Recovered' = Recovered /\ CurrentBar' = CurrentBar /\ Active' = Active
    BY <2>1 DEF Recovered, CurrentBar, Active
  <2>3. Goal
    BY <1>b, <2>2
  <2> QED
    BY <2>3 DEF Goal
<1>13. CASE RecoverInstall
  <2>1. /\ boot = "install" /\ boot' = "install" /\ tail <= Len(lh)
        /\ home' = [home EXCEPT ![lh[tail]] = logd[tail]]
        /\ UNCHANGED <<logd, head, pc>>
    BY <1>13 DEF RecoverInstall, InstallBlock
  <2>2. head = lh
    BY <2>1 DEF IInv, Booting
  <2>3. tail \in 1 .. Len(head)
    BY <1>a, <2>1, <2>2, LenProperties, LogAssumption DEF TypeOK
  <2>4. Recovered' = Recovered
    BY <1>a, <2>1, <2>2, <2>3, RecoveredInstall
  <2>5. CurrentBar' = CurrentBar /\ Active' = Active
    BY <2>1, <2>4 DEF CurrentBar, Active
  <2>6. Goal
    BY <1>b, <2>4, <2>5
  <2> QED
    BY <2>6 DEF Goal
<1>14. CASE RecoverClear
  <2>1. /\ boot = "install" /\ boot' = "up" /\ tail > Len(lh) /\ head' = <<>>
        /\ UNCHANGED <<home, logd, buf, pc>>
    BY <1>14 DEF RecoverClear, ClearLog
  <2>2. head = lh
    BY <2>1 DEF IInv, Booting
  <2>3. \A i \in 1 .. Len(head) : home[head[i]] = logd[i]
    <3>1. Len(lh) \in Nat /\ tail \in Int
      BY <1>a, LenProperties, LogAssumption DEF TypeOK
    <3> QED
      BY <2>1, <2>2, <3>1 DEF IInv, Booting
  <2>4. Recovered' = Recovered /\ Recovered = home
    BY <1>a, <2>1, <2>3, RecoveredClear
  <2>5. \A b \in Blocks : Cached(b)' = home[b]
    BY <2>1 DEF IInv, Booting, Cached
  <2>6. CurrentBar' = home
    <3>1. home = [b \in Blocks |-> home[b]]
      BY <1>a DEF TypeOK
    <3> QED
      BY <2>1, <2>5, <3>1 DEF CurrentBar
  <2>7. CurrentBar = Recovered /\ Active' = Active
    BY <2>1 DEF CurrentBar, Active
  <2>8. Goal
    BY <1>b, <2>4, <2>6, <2>7
  <2> QED
    BY <2>8 DEF Goal
<1>15. CASE UNCHANGED vars
  <2>1. UNCHANGED <<home, logd, head, buf, boot, pc>>
    BY <1>15 DEF vars, disk, mem
  <2>2. Active' = Active
    BY <2>1 DEF Active
  <2>3. Goal
    BY <1>b, <1>h, <2>1, <2>2
  <2> QED
    BY <2>3 DEF Goal
<1>16. ASSUME NEW p \in Procs, Step(p)
       PROVE  Goal
  BY <1>2, <1>4, <1>5, <1>6, <1>7, <1>8, <1>9, <1>16 DEF Step
<1> QED
  BY <1>0, <1>1, <1>3, <1>10, <1>11, <1>12, <1>13, <1>14, <1>15, <1>16 DEF Goal, Next

\* The log makes file-system calls atomic with respect to crashes: at every
\* moment, recovery (itself stopped and repeated any number of times) brings back
\* the blocks as they were at a moment when no call was half-way, with every
\* commit made so far.  For every number of processes and blocks, every log size
\* and every load.
THEOREM AtomicDiskCorrect == Spec => ImplementsAtomicDisk
<1>1. Init => AD!Init
  <2> SUFFICES ASSUME Init PROVE AD!Init
    OBVIOUS
  <2>1. TypeOK /\ head = <<>> /\ boot # "up" /\ home = [b \in Blocks |-> Fresh] /\ Active = {}
    BY InitIInv DEF IInv, Init, Active
  <2>2. Recovered = home
    BY <2>1, RecoveredEmpty
  <2> QED
    BY <2>1, <2>2 DEF AD!Init, Active
<1>2. IInv /\ IInv' /\ [Next]_vars => [AD!Next]_<<Recovered, CurrentBar, Active>>
  BY AtomicDiskStep
<1>3. [AD!Next]_<<Recovered, CurrentBar, Active>>
      <=> [AD!Next]_<<Recovered, IF boot = "up" THEN [b \in Blocks |-> Cached(b)] ELSE Recovered,
                      {p \in Procs : pc[p] = "active"}>>
  BY DEF CurrentBar, Active
<1> QED
  BY <1>1, <1>2, <1>3, IInvCorrect, PTL DEF Spec, ImplementsAtomicDisk, AD!Spec

-----------------------------------------------------------------------------
(* The calls admitted fit into the log.                                    *)

\* log_write() panics on a full log also for a block that it would absorb.  So the
\* space that begin_op() reserves is enough for calls that write fewer blocks than
\* MAXOPBLOCKS, or if there are not enough different blocks to fill the log.
Roomy ==
  \A l \in Loads : \/ l.ops < MAXOPBLOCKS
                   \/ IsFiniteSet(l.blocks) /\ Cardinality(l.blocks) < LOGSIZE

\* Who wrote what, among the calls in progress.
Written == {w \in Procs \X Blocks : w[1] \in Active /\ w[2] \in wrote[w[1]]}

\* The space accounting of begin_op(): each call in progress still has what it
\* reserved and did not use.  A block that two calls wrote counts for both and is
\* in the log once.
Reserved ==
  /\ IsFiniteSet(Written)
  /\ Len(lh) + outstanding * MAXOPBLOCKS <= LOGSIZE + Cardinality(Written)
  /\ \A p \in Active : /\ \A b \in wrote[p] : InLog(b)
                       /\ IsFiniteSet(wrote[p])
                       /\ Cardinality(wrote[p]) <= load.ops
  /\ \A i \in 1 .. Len(lh) : lh[i] \in load.blocks
  /\ \A i \in 1 .. Len(head) : head[i] \in load.blocks
  /\ ~panicked

RoomInv == IInv /\ Reserved

\* Products of natural numbers, as the steps below need them.
LEMMA Products ==
  /\ \A a, b \in Nat : a * b \in Nat /\ (a + 1) * b = a * b + b
  /\ \A a \in Nat \ {0}, b \in Nat : (a - 1) * b = a * b - b
  /\ \A a, b, c \in Nat : b < c => a * b <= a * c - a
<1>1. \A a, b \in Nat : a * b \in Nat /\ (a + 1) * b = a * b + b
  OBVIOUS
<1>2. \A a \in Nat \ {0}, b \in Nat : (a - 1) * b = a * b - b
  OBVIOUS
<1>3. \A a, b, c \in Nat : b < c => a * b <= a * c - a
  <2> SUFFICES ASSUME NEW a \in Nat, NEW b \in Nat, NEW c \in Nat, b < c
               PROVE  a * b <= a * c - a
    OBVIOUS
  <2>1. PICK d \in Nat : c = b + 1 + d
    <3>1. c - b - 1 \in Nat /\ c = b + 1 + (c - b - 1)
      OBVIOUS
    <3> QED
      BY <3>1
  <2>2. a * c = a * b + a + a * d /\ a * d \in Nat /\ a * b \in Nat
    BY <2>1
  <2> QED
    BY <2>2
<1> QED
  BY <1>1, <1>2, <1>3

\* The calls in progress wrote at most load.ops blocks each.
LEMMA WrittenBound ==
  ASSUME TypeOK, load \in Loads, IsFiniteSet(Active),
         \A p \in Active : IsFiniteSet(wrote[p]) /\ Cardinality(wrote[p]) <= load.ops
  PROVE  Cardinality(Written) <= Cardinality(Active) * load.ops
<1>0. load.ops \in Nat
  BY LoadAssumption, LogAssumption
<1>1. \A p \in Active : \E f \in Injection(wrote[p], 1 .. load.ops) : TRUE
  <2> SUFFICES ASSUME NEW p \in Active
               PROVE  \E f \in Injection(wrote[p], 1 .. load.ops) : TRUE
    OBVIOUS
  <2>1. PICK n \in Nat : ExistsBijection(1 .. n, wrote[p])
    BY FS_NatBijection
  <2>2. Cardinality(wrote[p]) = n
    BY <2>1, FS_CountingElements
  <2>3. PICK g \in Bijection(1 .. n, wrote[p]) : TRUE
    BY <2>1 DEF ExistsBijection
  <2>4. /\ g \in [1 .. n -> wrote[p]]
        /\ \A b \in wrote[p] : \E k \in 1 .. n : g[k] = b
    BY <2>3 DEF Bijection, Surjection
  <2> DEFINE f == [b \in wrote[p] |-> CHOOSE k \in 1 .. n : g[k] = b]
  <2>5. \A b \in wrote[p] : f[b] \in 1 .. n /\ g[f[b]] = b
    BY <2>4
  <2>6. \A k \in 1 .. n : k \in 1 .. load.ops
    BY <1>0, <2>2
  <2>7. f \in [wrote[p] -> 1 .. load.ops]
    BY <2>5, <2>6
  <2>8. \A b, c \in wrote[p] : f[b] = f[c] => b = c
    BY <2>5
  <2> HIDE DEF f
  <2>9. f \in Injection(wrote[p], 1 .. load.ops)
    BY <2>7, <2>8 DEF Injection, IsInjective
  <2> QED
    BY <2>9
<1> DEFINE inj(p) == CHOOSE f \in Injection(wrote[p], 1 .. load.ops) : TRUE
           h == [w \in Written |-> <<w[1], inj(w[1])[w[2]]>>]
<1>2. \A p \in Active : /\ inj(p) \in [wrote[p] -> 1 .. load.ops]
                        /\ \A b, c \in wrote[p] : inj(p)[b] = inj(p)[c] => b = c
  BY <1>1 DEF Injection, IsInjective
<1> HIDE DEF inj
<1>3. h \in [Written -> Active \X (1 .. load.ops)]
  BY <1>2 DEF Written
<1>4. \A v, w \in Written : h[v] = h[w] => v = w
  BY <1>2 DEF Written
<1> HIDE DEF h
<1>5. h \in Injection(Written, Active \X (1 .. load.ops))
  BY <1>3, <1>4 DEF Injection, IsInjective
<1>6. IsFiniteSet(1 .. load.ops) /\ Cardinality(1 .. load.ops) = load.ops
  BY <1>0, FS_Interval, SMTT(30)
<1>7. /\ IsFiniteSet(Active \X (1 .. load.ops))
      /\ Cardinality(Active \X (1 .. load.ops)) = Cardinality(Active) * load.ops
  BY <1>6, FS_Product
<1> QED
  BY <1>5, <1>7, FS_Injection

\* A log of different blocks of the load is no longer than there are such blocks.
LEMMA LogBlocksBound ==
  ASSUME TypeOK, Distinct(lh), \A i \in 1 .. Len(lh) : lh[i] \in load.blocks,
         IsFiniteSet(load.blocks)
  PROVE  Len(lh) <= Cardinality(load.blocks)
<1>1. Len(lh) \in Nat /\ lh = [i \in 1 .. Len(lh) |-> lh[i]]
  BY LenProperties DEF TypeOK
<1>2. lh \in [1 .. Len(lh) -> load.blocks]
  BY <1>1
<1>3. lh \in Injection(1 .. Len(lh), load.blocks)
  BY <1>2 DEF Injection, IsInjective, Distinct
<1>4. Cardinality(1 .. Len(lh)) = Len(lh)
  BY <1>1, FS_Interval
<1> QED
  BY <1>3, <1>4, FS_Injection

\* No call in progress finds the log full.
LEMMA NeverFull ==
  ASSUME Roomy, RoomInv, Active # {}
  PROVE  Len(lh) < LOGSIZE
<1>0. /\ TypeOK /\ load \in Loads /\ Distinct(lh) /\ IsFiniteSet(Active)
      /\ outstanding = Cardinality(Active) /\ IsFiniteSet(Written)
      /\ Len(lh) + outstanding * MAXOPBLOCKS <= LOGSIZE + Cardinality(Written)
      /\ \A p \in Active : IsFiniteSet(wrote[p]) /\ Cardinality(wrote[p]) <= load.ops
      /\ \A i \in 1 .. Len(lh) : lh[i] \in load.blocks
  BY DEF RoomInv, Reserved, IInv, Shape, Counting
<1>1. /\ outstanding \in Nat /\ load.ops \in Nat /\ MAXOPBLOCKS \in Nat /\ LOGSIZE \in Nat
      /\ Len(lh) \in Nat /\ Cardinality(Written) \in Nat
  BY <1>0, LoadAssumption, LogAssumption, LenProperties, FS_CardinalityType DEF TypeOK
<1>2. outstanding # 0
  BY <1>0, FS_EmptySet
<1>3. CASE load.ops < MAXOPBLOCKS
  <2>1. outstanding * load.ops <= outstanding * MAXOPBLOCKS - outstanding
    BY <1>1, <1>3, Products
  <2>2. Cardinality(Written) <= outstanding * load.ops
    BY <1>0, WrittenBound
  <2>3. outstanding * load.ops \in Nat /\ outstanding * MAXOPBLOCKS \in Nat
    BY <1>1, Products
  <2>4. \A n, s, w, x, y, o \in Nat :
          n + y <= s + w /\ w <= x /\ x <= y - o /\ o # 0 => n < s
    OBVIOUS
  <2> QED
    BY <1>0, <1>1, <1>2, <2>1, <2>2, <2>3, <2>4
<1>4. CASE IsFiniteSet(load.blocks) /\ Cardinality(load.blocks) < LOGSIZE
  <2>1. Len(lh) <= Cardinality(load.blocks)
    BY <1>0, <1>4, LogBlocksBound
  <2>2. Cardinality(load.blocks) \in Nat
    BY <1>4, FS_CardinalityType
  <2> QED
    BY <1>1, <1>4, <2>1, <2>2
<1> QED
  BY <1>0, <1>3, <1>4 DEF Roomy

\* Without a call in progress nothing is reserved.
LEMMA RoomQuiet ==
  ASSUME RoomInv, IInv', Active' = {}, load' = load, ~panicked',
         lh' = lh \/ lh' = head \/ lh' = <<>>, head' = lh \/ head' = head \/ head' = <<>>
  PROVE  Reserved'
<1>1. Written' = {}
  BY DEF Written
<1>2. IsFiniteSet({}) /\ Cardinality({}) = 0
  BY FS_EmptySet
<1>3. outstanding' = 0
  BY <1>2 DEF IInv, Counting
<1>4. Len(lh)' <= LOGSIZE /\ Len(lh)' \in Nat
  BY LenProperties DEF IInv, Shape, TypeOK
<1>5. Len(lh)' + outstanding' * MAXOPBLOCKS <= LOGSIZE + Cardinality(Written)'
  BY <1>1, <1>2, <1>3, <1>4, LogAssumption
<1>6. /\ \A i \in 1 .. Len(lh') : lh'[i] \in load'.blocks
      /\ \A i \in 1 .. Len(head') : head'[i] \in load'.blocks
  BY DEF RoomInv, Reserved
<1> QED
  BY <1>1, <1>2, <1>5, <1>6 DEF Reserved

\* A step that is not about calls in progress nor about the log's blocks.
LEMMA RoomSame ==
  ASSUME RoomInv, Active' = Active, UNCHANGED <<load, lh, head, outstanding, wrote, panicked>>
  PROVE  Reserved'
<1>1. Written' = Written
  BY DEF Written
<1> QED
  BY <1>1 DEF RoomInv, Reserved, InLog

\* begin_op() reserves MAXOPBLOCKS for a call that wrote nothing yet.
LEMMA BeginRoom ==
  ASSUME RoomInv, NEW p \in Procs, begin_op(p)
  PROVE  Reserved'
<1>1. CASE MustWait
  <2>1. /\ pc[p] = "begin" /\ pc' = [pc EXCEPT ![p] = "asleep"]
        /\ UNCHANGED <<load, lh, head, outstanding, wrote, panicked>>
    BY <1>1 DEF begin_op, Is, Goto, disk
  <2>2. Active' = Active
    BY <2>1 DEF RoomInv, IInv, TypeOK, Active
  <2> QED
    BY <2>1, <2>2, RoomSame
<1>2. CASE ~MustWait
  <2>0. /\ pc[p] = "begin" /\ pc' = [pc EXCEPT ![p] = "active"]
        /\ outstanding' = outstanding + 1
        /\ wrote' = [wrote EXCEPT ![p] = {}]
        /\ UNCHANGED <<load, lh, head, panicked>>
    BY <1>2 DEF begin_op, Is, Goto, disk
  <2>1. Active' = Active \cup {p} /\ p \notin Active
    BY <2>0 DEF RoomInv, IInv, TypeOK, Active
  <2>2. wrote'[p] = {} /\ \A q \in Procs : q # p => wrote'[q] = wrote[q]
    BY <2>0 DEF RoomInv, IInv, TypeOK
  <2>3. Written' = Written
    BY <2>1, <2>2 DEF Written
  <2>4. Len(lh) + (outstanding + 1) * MAXOPBLOCKS <= LOGSIZE
    <3>1. Len(lh) \in Nat /\ (outstanding + 1) * MAXOPBLOCKS \in Nat /\ LOGSIZE \in Nat
      <4>1. Len(lh) \in Nat /\ outstanding + 1 \in Nat /\ MAXOPBLOCKS \in Nat /\ LOGSIZE \in Nat
        BY LenProperties, LogAssumption DEF RoomInv, IInv, TypeOK
      <4> QED
        BY <4>1, Products
    <3>2. \A n, y, s \in Nat : ~(n + y > s) => n + y <= s
      OBVIOUS
    <3> QED
      BY <1>2, <3>1, <3>2 DEF MustWait
  <2>5. IsFiniteSet(Written) /\ Cardinality(Written) \in Nat
    BY FS_CardinalityType DEF RoomInv, Reserved
  <2>6. Len(lh') + outstanding' * MAXOPBLOCKS <= LOGSIZE + Cardinality(Written)
    <3>1. Len(lh) \in Nat /\ (outstanding + 1) * MAXOPBLOCKS \in Nat /\ LOGSIZE \in Nat
      <4>1. Len(lh) \in Nat /\ outstanding + 1 \in Nat /\ MAXOPBLOCKS \in Nat /\ LOGSIZE \in Nat
        BY LenProperties, LogAssumption DEF RoomInv, IInv, TypeOK
      <4> QED
        BY <4>1, Products
    <3>2. \A n, y, s, w \in Nat : n + y <= s => n + y <= s + w
      OBVIOUS
    <3> QED
      BY <2>0, <2>4, <2>5, <3>1, <3>2
  <2>7. \A q \in Active' : /\ \A b \in wrote'[q] : InLog(b)'
                           /\ IsFiniteSet(wrote'[q]) /\ Cardinality(wrote'[q]) <= load'.ops
    <3>1. IsFiniteSet({}) /\ Cardinality({}) = 0
      BY FS_EmptySet
    <3>2. load.ops >= 0
      BY LoadAssumption, LogAssumption DEF RoomInv, IInv, Shape
    <3> SUFFICES ASSUME NEW q \in Active'
                 PROVE  /\ \A b \in wrote'[q] : InLog(b)'
                        /\ IsFiniteSet(wrote'[q]) /\ Cardinality(wrote'[q]) <= load'.ops
      OBVIOUS
    <3>3. CASE q = p
      BY <2>0, <2>2, <3>1, <3>2, <3>3
    <3>4. CASE q # p
      <4>1. q \in Active /\ wrote'[q] = wrote[q]
        BY <2>1, <2>2, <3>4 DEF Active
      <4> QED
        BY <2>0, <4>1 DEF RoomInv, Reserved, InLog
    <3> QED
      BY <3>3, <3>4
  <2> QED
    BY <2>0, <2>3, <2>5, <2>6, <2>7 DEF RoomInv, Reserved
<1> QED
  BY <1>1, <1>2

\* log_write() finds room: a block that is new in the log is new among those the
\* call wrote, so both sides of the account grow.
LEMMA LogWriteRoom ==
  ASSUME Roomy, RoomInv, NEW p \in Procs, NEW b \in load.blocks, b \in Blocks, NEW v,
         log_write(p, b, v)
  PROVE  Reserved'
<1>0. /\ pc[p] = "active" /\ Cardinality(wrote[p] \cup {b}) <= load.ops
      /\ UNCHANGED <<load, head, outstanding, pc>>
  BY DEF log_write, Is, disk
<1>1. p \in Active /\ Active' = Active
  BY <1>0 DEF Active
<1>2. Len(lh) < LOGSIZE
  BY <1>1, NeverFull
<1>3. lh \in Seq(Blocks) /\ Len(lh) \in Nat /\ LOGSIZE \in Nat /\ LogBlocks \in Nat /\ LOGSIZE < LogBlocks
  BY LenProperties, LogAssumption DEF RoomInv, IInv, TypeOK
<1>4. /\ IF InLog(b) THEN UNCHANGED lh ELSE lh' = Append(lh, b)
      /\ wrote' = [wrote EXCEPT ![p] = @ \cup {b}]
      /\ UNCHANGED panicked
  <2>1. ~(Len(lh) >= LOGSIZE \/ Len(lh) >= LogBlocks - 1)
    BY <1>2, <1>3
  <2> QED
    BY <2>1 DEF log_write
<1>5. wrote'[p] = wrote[p] \cup {b} /\ \A q \in Procs : q # p => wrote'[q] = wrote[q]
  BY <1>4 DEF RoomInv, IInv, TypeOK
<1>6. /\ Len(lh') \in Nat
      /\ \A c \in Blocks : InLog(c)' <=> InLog(c) \/ c = b
      /\ \A i \in 1 .. Len(lh') : lh'[i] \in load'.blocks
  <2>1. CASE InLog(b)
    BY <1>0, <1>3, <1>4, <2>1 DEF RoomInv, Reserved, InLog
  <2>2. CASE ~InLog(b)
    <3>1. /\ Len(lh') = Len(lh) + 1
          /\ \A i \in 1 .. Len(lh) : lh'[i] = lh[i]
          /\ lh'[Len(lh) + 1] = b
      BY <1>3, <1>4, <2>2, AppendProperties
    <3> QED
      BY <1>0, <1>3, <3>1 DEF RoomInv, Reserved, InLog
  <2> QED
    BY <2>1, <2>2
<1>7. Written' = Written \cup {<<p, b>>}
  BY <1>1, <1>5 DEF Written, Active
<1>8. /\ IsFiniteSet(Written) /\ Cardinality(Written) \in Nat
      /\ IsFiniteSet(Written')
      /\ Cardinality(Written') = IF <<p, b>> \in Written THEN Cardinality(Written) ELSE Cardinality(Written) + 1
  <2>1. IsFiniteSet(Written)
    BY DEF RoomInv, Reserved
  <2> QED
    BY <1>7, <2>1, FS_CardinalityType, FS_AddElement
<1>9. Len(lh') + outstanding' * MAXOPBLOCKS <= LOGSIZE + Cardinality(Written')
  <2>1. outstanding * MAXOPBLOCKS \in Nat
    BY Products, LogAssumption DEF RoomInv, IInv, TypeOK
  <2>2. Len(lh) + outstanding * MAXOPBLOCKS <= LOGSIZE + Cardinality(Written)
    BY DEF RoomInv, Reserved
  <2>3. \/ Len(lh') = Len(lh) /\ Cardinality(Written') \in {Cardinality(Written), Cardinality(Written) + 1}
        \/ Len(lh') = Len(lh) + 1 /\ Cardinality(Written') = Cardinality(Written) + 1
    <3>1. CASE InLog(b)
      BY <1>4, <1>8, <3>1
    <3>2. CASE ~InLog(b)
      <4>1. Len(lh') = Len(lh) + 1
        BY <1>3, <1>4, <3>2, AppendProperties
      <4>2. <<p, b>> \notin Written
        BY <1>1, <3>2 DEF RoomInv, Reserved, Written
      <4> QED
        BY <1>8, <4>1, <4>2
    <3> QED
      BY <3>1, <3>2
  <2>4. \A n, m, y, s, w, x \in Nat :
          n + y <= s + w /\ ((m = n /\ x \in {w, w + 1}) \/ (m = n + 1 /\ x = w + 1)) => m + y <= s + x
    OBVIOUS
  <2>5. Cardinality(Written') \in Nat
    BY <1>8
  <2> QED
    BY <1>0, <1>3, <1>6, <1>8, <2>1, <2>2, <2>3, <2>4, <2>5
<1>10. \A q \in Active' : /\ \A c \in wrote'[q] : InLog(c)'
                          /\ IsFiniteSet(wrote'[q]) /\ Cardinality(wrote'[q]) <= load'.ops
  <2> SUFFICES ASSUME NEW q \in Active'
               PROVE  /\ \A c \in wrote'[q] : InLog(c)'
                      /\ IsFiniteSet(wrote'[q]) /\ Cardinality(wrote'[q]) <= load'.ops
    OBVIOUS
  <2>1. q \in Active /\ q \in Procs /\ wrote[q] \subseteq Blocks
    BY <1>1 DEF RoomInv, IInv, TypeOK, Active
  <2>2. /\ \A c \in wrote[q] : InLog(c)
        /\ IsFiniteSet(wrote[q]) /\ Cardinality(wrote[q]) <= load.ops
    BY <2>1 DEF RoomInv, Reserved
  <2>3. CASE q = p
    <3>1. IsFiniteSet(wrote[p] \cup {b})
      BY <2>2, <2>3, FS_AddElement
    <3> QED
      BY <1>0, <1>5, <1>6, <2>1, <2>2, <2>3, <3>1
  <2>4. CASE q # p
    BY <1>0, <1>5, <1>6, <2>1, <2>2, <2>4
  <2> QED
    BY <2>3, <2>4
<1> QED
  BY <1>0, <1>4, <1>6, <1>8, <1>9, <1>10 DEF RoomInv, Reserved

\* end_op() gives back what the call reserved, and takes its blocks out of the
\* account.
LEMMA EndRoom ==
  ASSUME RoomInv, NEW p \in Procs, end_op(p)
  PROVE  Reserved'
<1>0. /\ pc[p] = "active" /\ outstanding' = outstanding - 1
      /\ UNCHANGED <<load, lh, head, wrote>>
  BY DEF end_op, Is, disk
<1>1. p \in Active /\ ~committing
  BY <1>0 DEF RoomInv, IInv, Counting, Active
<1>2. UNCHANGED panicked /\ Active' = Active \ {p}
  <2>1. CASE outstanding' = 0
    BY <1>1, <2>1 DEF end_op, Goto, Active, RoomInv, IInv, TypeOK
  <2>2. CASE outstanding' # 0
    BY <1>1, <2>2 DEF end_op, WakeupAnd, Active, RoomInv, IInv, TypeOK
  <2> QED
    BY <2>1, <2>2
<1> DEFINE mine == {p} \X wrote[p]
<1>3. Written' = Written \ mine /\ mine \subseteq Written
  BY <1>0, <1>1, <1>2 DEF Written, Active, RoomInv, IInv, TypeOK
<1>4. IsFiniteSet(Written) /\ IsFiniteSet(wrote[p]) /\ Cardinality(wrote[p]) <= load.ops
  BY <1>1 DEF RoomInv, Reserved
<1>5. IsFiniteSet({p}) /\ Cardinality({p}) = 1
  BY FS_Singleton
<1>6. IsFiniteSet(mine) /\ Cardinality(mine) = Cardinality(wrote[p])
  <2>1. Cardinality(wrote[p]) \in Nat
    BY <1>4, FS_CardinalityType
  <2>2. IsFiniteSet(mine) /\ Cardinality(mine) = 1 * Cardinality(wrote[p])
    BY <1>4, <1>5, FS_Product
  <2> QED
    BY <2>1, <2>2
<1>7. /\ IsFiniteSet(Written')
      /\ Cardinality(Written') = Cardinality(Written) - Cardinality(mine)
  <2>1. Written \cap mine = mine
    BY <1>3
  <2> HIDE DEF mine
  <2> QED
    BY <1>3, <1>4, <2>1, FS_Difference
<1>8. Len(lh') + outstanding' * MAXOPBLOCKS <= LOGSIZE + Cardinality(Written')
  <2>1. /\ Cardinality(Written) \in Nat /\ Cardinality(wrote[p]) \in Nat
        /\ Len(lh) \in Nat /\ MAXOPBLOCKS \in Nat /\ LOGSIZE \in Nat
        /\ Cardinality(wrote[p]) <= MAXOPBLOCKS
    <3>1. load.ops \in 1 .. MAXOPBLOCKS /\ MAXOPBLOCKS \in Nat /\ LOGSIZE \in Nat
      BY LoadAssumption, LogAssumption DEF RoomInv, IInv, Shape
    <3>2. Cardinality(Written) \in Nat /\ Cardinality(wrote[p]) \in Nat
      BY <1>4, FS_CardinalityType
    <3>3. Len(lh) \in Nat
      BY LenProperties DEF RoomInv, IInv, TypeOK
    <3> QED
      BY <1>4, <3>1, <3>2, <3>3
  <2>2. outstanding \in Nat \ {0}
    <3>1. outstanding \in Nat /\ outstanding = Cardinality(Active) /\ IsFiniteSet(Active)
      BY DEF RoomInv, IInv, TypeOK, Counting
    <3> QED
      BY <1>1, <3>1, FS_EmptySet
  <2>3. outstanding' * MAXOPBLOCKS = outstanding * MAXOPBLOCKS - MAXOPBLOCKS
        /\ outstanding * MAXOPBLOCKS \in Nat
    BY <1>0, <2>1, <2>2, Products
  <2>4. Len(lh) + outstanding * MAXOPBLOCKS <= LOGSIZE + Cardinality(Written)
    BY DEF RoomInv, Reserved
  <2>5. \A n, y, s, w, m, c \in Nat :
          n + y <= s + w /\ c <= m => n + (y - m) <= s + (w - c)
    OBVIOUS
  <2> QED
    BY <1>0, <1>6, <1>7, <2>1, <2>3, <2>4, <2>5
<1>9. \A q \in Active' : /\ \A c \in wrote'[q] : InLog(c)'
                         /\ IsFiniteSet(wrote'[q]) /\ Cardinality(wrote'[q]) <= load'.ops
  BY <1>0, <1>2 DEF RoomInv, Reserved, InLog
<1> QED
  BY <1>0, <1>2, <1>7, <1>8, <1>9 DEF RoomInv, Reserved

\* No step of the log breaks its space accounting.
LEMMA NextRoom ==
  ASSUME Roomy PROVE RoomInv /\ [Next]_vars => RoomInv'
<1> SUFFICES ASSUME RoomInv, [Next]_vars PROVE Reserved'
  BY NextIInv DEF RoomInv
<1>0. /\ load.procs \subseteq Procs /\ load.blocks \subseteq Blocks
  BY LoadAssumption DEF RoomInv, IInv, Shape
<1>a. IInv' /\ IInv /\ TypeOK /\ ~panicked
  BY NextIInv DEF RoomInv, Reserved, IInv
<1>1. ASSUME NEW p \in Procs, Call(p) PROVE Reserved'
  <2>1. Active' = Active /\ UNCHANGED <<load, lh, head, outstanding, wrote, panicked>>
    BY <1>1, <1>a DEF Call, Is, Goto, Active, disk, mem, TypeOK
  <2> QED
    BY <2>1, RoomSame
<1>2. ASSUME NEW p \in Procs, pc[p] \in {"write_log", "install", "done"},
             write_log(p) \/ write_head(p) \/ install_trans(p) \/ CommitClear(p) \/ CommitDone(p)
      PROVE  Reserved'
  <2>0. \A q \in Procs : pc[q] # "active"
    BY <1>2, <1>a, CommitterAlone DEF Active
  <2>1. Active' = {}
    BY <1>2, <1>a, <2>0 DEF write_log, write_head, install_trans, CommitClear, CommitDone, Wake,
       WakeupAnd, Goto, Active, TypeOK
  <2>2. /\ UNCHANGED <<load, panicked>> /\ (lh' = lh \/ lh' = <<>>)
        /\ (head' = lh \/ head' = head \/ head' = <<>>)
    BY <1>2 DEF write_log, write_head, install_trans, CommitClear, CommitDone, ClearLog, disk, mem
  <2> QED
    BY <1>a, <2>1, <2>2, RoomQuiet
<1>3. ASSUME NEW p \in Procs, Step(p) PROVE Reserved'
  BY <1>2, <1>3, BeginRoom, EndRoom
     DEF Step, write_log, write_head, install_trans, CommitClear, CommitDone, Is
<1>4. ASSUME NEW b \in Blocks, Recycle(b) PROVE Reserved'
  <2>1. Active' = Active /\ UNCHANGED <<load, lh, head, outstanding, wrote, panicked>>
    BY <1>4 DEF Recycle, Active, disk
  <2> QED
    BY <2>1, RoomSame
<1>5. CASE Crash
  <2>1. /\ Active' = {} /\ UNCHANGED <<load, head>> /\ ~panicked' /\ lh' = <<>>
    BY <1>5 DEF Crash, Active, disk
  <2> QED
    BY <1>a, <2>1, RoomQuiet
<1>6. CASE read_head \/ RecoverInstall \/ RecoverClear
  <2>1. Active = {}
    BY <1>6, <1>a DEF IInv, Booting, Active, read_head, RecoverInstall, RecoverClear
  <2>2. /\ UNCHANGED <<load, pc, panicked>> /\ (lh' = lh \/ lh' = head \/ lh' = <<>>)
        /\ (head' = head \/ head' = <<>>)
    BY <1>6 DEF read_head, RecoverInstall, RecoverClear, ClearLog, disk
  <2>3. Active' = {}
    BY <2>1, <2>2 DEF Active
  <2> QED
    BY <1>a, <2>2, <2>3, RoomQuiet
<1>7. CASE UNCHANGED vars
  <2>1. Active' = Active /\ UNCHANGED <<load, lh, head, outstanding, wrote, panicked>>
    BY <1>7 DEF vars, disk, mem, Active
  <2> QED
    BY <2>1, RoomSame
<1> QED
  BY <1>0, <1>1, <1>3, <1>4, <1>5, <1>6, <1>7, LogWriteRoom DEF Next

\* Under Roomy, log_write() never panics on a full log, end_op() never meets a
\* commit, and everything written is durable when nothing is in progress: what
\* the log owes its callers, for any number of processes, blocks and crashes.
THEOREM LogInvCorrect == ASSUME Roomy PROVE Spec => []LogInv
<1>1. Init => RoomInv
  <2> SUFFICES ASSUME Init PROVE Reserved
    BY InitIInv DEF RoomInv
  <2>1. Active = {}
    BY DEF Init, Active
  <2>2. Written = {}
    BY <2>1 DEF Written
  <2>3. IsFiniteSet({}) /\ Cardinality({}) = 0
    BY FS_EmptySet
  <2>4. Len(lh) = 0 /\ outstanding = 0 /\ Len(head) = 0 /\ ~panicked
    BY DEF Init
  <2> QED
    BY <2>1, <2>2, <2>3, <2>4, LogAssumption DEF Reserved
<1>2. RoomInv /\ [Next]_vars => RoomInv'
  BY NextRoom
<1>3. RoomInv => TypeOK /\ AdmittedFit
  BY DEF RoomInv, IInv, Reserved, AdmittedFit
<1> QED
  BY <1>1, <1>2, <1>3, DurableCorrect, PTL DEF Spec, LogInv
=============================================================================
