----------------------------- MODULE VirtioDisk -----------------------------
(***************************************************************************)
(* The disk driver of virtio_disk.c: three descriptors for each request,   *)
(* processes that sleep for descriptors or for their request, the device,  *)
(* and the interrupt that reports what it finished.  The buffer cache      *)
(* (module BufferCache) makes the requests.                                *)
(*                                                                         *)
(* The rings are abstracted to what is in them: avail to the heads of the  *)
(* chains handed to the device, used to those it has finished and the      *)
(* interrupt has not seen.  At most NUM \div 3 are on their way, so the    *)
(* rings of NUM entries never wrap onto themselves.                        *)
(***************************************************************************)
EXTENDS Integers, Sequences, FiniteSets, FiniteSetsExt

CONSTANTS
  Procs,         \* processes
  Bufs,          \* bcache.buf: NBUF buffers
  Blocks, Vals,  \* blocks of the disk; contents of a block
  NUM,           \* descriptors (8)
  None           \* no block, no buffer, no process

ASSUME NumAssumption == NUM \in Nat /\ NUM >= 3
ASSUME SetsAssumption ==
  /\ IsFiniteSet(Procs) /\ IsFiniteSet(Bufs)
  /\ None \notin Procs \cup Bufs \cup Blocks

VARIABLES
  platter,       \* the disk
  data,          \* b->data
  blockno,       \* b->blockno
  free,          \* disk.free: the free descriptors
  chain,         \* disk.desc: the descriptors of the request that starts at i
  info,          \* disk.info and disk.ops: buffer and direction of that request
  avail, used,   \* the rings shared with the device
  bdisk,         \* b->disk: the device owns the buffer
  isr,           \* the device asks for an interrupt
  intr,          \* virtio_disk_intr() is running and holds vdisk_lock
  io             \* where each process is in virtio_disk_rw()

diskVars == <<platter, data, blockno, free, chain, info, avail, used, bdisk, isr, intr, io>>

Desc == 0 .. NUM - 1
NoInfo == [b |-> None, write |-> FALSE]
NotIo == [at |-> "none", b |-> None, write |-> FALSE, idx |-> 0]

DiskTypeOK ==
  /\ platter \in [Blocks -> Vals]
  /\ data \in [Bufs -> Vals]
  /\ blockno \in [Bufs -> Blocks \cup {None}]
  /\ free \subseteq Desc
  /\ chain \in [Desc -> SUBSET Desc]
  /\ info \in [Desc -> [b : Bufs \cup {None}, write : BOOLEAN]]
  /\ avail \subseteq Desc
  /\ used \in Seq(Desc) /\ Len(used) <= NUM
  /\ bdisk \in [Bufs -> BOOLEAN]
  /\ isr \in BOOLEAN /\ intr \in BOOLEAN
  /\ io \in [Procs -> [at : {"none", "start", "nodesc", "asleep", "woken"},
                       b : Bufs \cup {None}, write : BOOLEAN, idx : Desc]]

\* virtio_disk_init(), and a disk with any contents.
DiskInit ==
  /\ platter \in [Blocks -> Vals]
  /\ \E v \in Vals : data = [b \in Bufs |-> v]
  /\ blockno = [b \in Bufs |-> None]
  /\ free = Desc
  /\ chain = [i \in Desc |-> {}]
  /\ info = [i \in Desc |-> NoInfo]
  /\ avail = {} /\ used = <<>>
  /\ bdisk = [b \in Bufs |-> FALSE]
  /\ isr = FALSE /\ intr = FALSE
  /\ io = [p \in Procs |-> NotIo]

-----------------------------------------------------------------------------
(* A request.                                                              *)

\* A process calls virtio_disk_rw(b, write).
RwStart(p, b, write) == io' = [io EXCEPT ![p] = [NotIo EXCEPT !.at = "start", !.b = b, !.write = write]]

\* wakeup(&disk.free[0]).
WokenForDesc(i) == [p \in Procs |-> IF i[p].at = "nodesc" THEN [i[p] EXCEPT !.at = "start"] ELSE i[p]]

\* alloc_desc() takes the lowest free descriptor, three times.
Lowest3 ==
  LET a == Min(free)
      b == Min(free \ {a})
      c == Min(free \ {a, b})
  IN  <<a, b, c>>

\* alloc3_desc() finds three, and the request goes to the device; the process
\* sleeps on the buffer (vdisk_lock is held from the start).
RwSubmit(p) ==
  LET b == io[p].b  d == Lowest3 IN
  /\ Cardinality(free) >= 3
  /\ free' = free \ {d[1], d[2], d[3]}
  /\ chain' = [chain EXCEPT ![d[1]] = {d[1], d[2], d[3]}]
  /\ info' = [info EXCEPT ![d[1]] = [b |-> b, write |-> io[p].write]]
  /\ bdisk' = [bdisk EXCEPT ![b] = TRUE]
  /\ avail' = avail \cup {d[1]}
  /\ io' = [io EXCEPT ![p].at = "asleep", ![p].idx = d[1]]

\* Fault: what was taken of too few descriptors is not given back.
RwNoDesc_Keeps(p) ==
  /\ Cardinality(free) < 3
  /\ free' = {}
  /\ io' = [io EXCEPT ![p].at = "nodesc"]
  /\ UNCHANGED <<chain, info, bdisk, avail>>

\* alloc3_desc() gives back the ones it got, which wakes the others that wait
\* for descriptors, and the process sleeps.
RwNoDesc(p) ==
  /\ Cardinality(free) < 3
  /\ io' = [(IF free = {} THEN io ELSE WokenForDesc(io)) EXCEPT ![p].at = "nodesc"]
  /\ UNCHANGED <<free, chain, info, bdisk, avail>>

RwAlloc(p) ==
  /\ io[p].at = "start" /\ ~intr
  /\ RwSubmit(p) \/ RwNoDesc(p)
  /\ UNCHANGED <<platter, data, blockno, used, isr, intr>>

\* Fault: the descriptors are freed and nobody is told.
RwDone_NoWakeup(p) ==
  /\ io[p].at = "woken" /\ ~intr /\ ~bdisk[io[p].b]
  /\ info' = [info EXCEPT ![io[p].idx] = NoInfo]
  /\ free' = free \cup chain[io[p].idx]
  /\ chain' = [chain EXCEPT ![io[p].idx] = {}]
  /\ io' = [io EXCEPT ![p] = NotIo]
  /\ UNCHANGED <<platter, data, blockno, avail, used, bdisk, isr, intr>>

\* The sleeper finds b->disk clear, frees the chain and returns to its caller.
RwDone(p) ==
  /\ io[p].at = "woken" /\ ~intr /\ ~bdisk[io[p].b]
  /\ info' = [info EXCEPT ![io[p].idx] = NoInfo]
  /\ free' = free \cup chain[io[p].idx]
  /\ chain' = [chain EXCEPT ![io[p].idx] = {}]
  /\ io' = [WokenForDesc(io) EXCEPT ![p] = NotIo]
  /\ UNCHANGED <<platter, data, blockno, avail, used, bdisk, isr, intr>>

-----------------------------------------------------------------------------
(* The device and its interrupt.                                           *)

\* The device carries out any of the requests it has, and reports it.
DevComplete(i) ==
  LET b == info[i].b IN
  /\ i \in avail
  /\ IF info[i].write
     THEN platter' = [platter EXCEPT ![blockno[b]] = data[b]] /\ UNCHANGED data
     ELSE data' = [data EXCEPT ![b] = platter[blockno[b]]] /\ UNCHANGED platter
  /\ avail' = avail \ {i}
  /\ used' = Append(used, i)
  /\ isr' = TRUE
  /\ UNCHANGED <<blockno, free, chain, info, bdisk, intr, io>>

\* virtio_disk_intr() acknowledges the interrupt; the device may report more
\* from here on.
IntrAck ==
  /\ isr /\ ~intr
  /\ isr' = FALSE /\ intr' = TRUE
  /\ UNCHANGED <<platter, data, blockno, free, chain, info, avail, used, bdisk, io>>

\* Fault: used_idx is not advanced.
IntrEntry_SameEntry ==
  /\ intr /\ used # <<>>
  /\ LET b == info[Head(used)].b IN
     /\ bdisk' = [bdisk EXCEPT ![b] = FALSE]
     /\ io' = [p \in Procs |-> IF io[p].at = "asleep" /\ io[p].b = b
                               THEN [io[p] EXCEPT !.at = "woken"] ELSE io[p]]
  /\ UNCHANGED <<platter, data, blockno, free, chain, info, avail, used, isr, intr>>

\* One entry of the used ring: wakeup(b).
IntrEntry ==
  /\ intr /\ used # <<>>
  /\ LET b == info[Head(used)].b IN
     /\ bdisk' = [bdisk EXCEPT ![b] = FALSE]
     /\ io' = [p \in Procs |-> IF io[p].at = "asleep" /\ io[p].b = b
                               THEN [io[p] EXCEPT !.at = "woken"] ELSE io[p]]
  /\ used' = Tail(used)
  /\ UNCHANGED <<platter, data, blockno, free, chain, info, avail, isr, intr>>

\* used_idx has caught up with used->idx.
IntrEnd ==
  /\ intr /\ used = <<>>
  /\ intr' = FALSE
  /\ UNCHANGED <<platter, data, blockno, free, chain, info, avail, used, bdisk, isr, io>>

\* Everything but the return, which continues in the caller.
DiskNext ==
  \/ \E p \in Procs : RwAlloc(p)
  \/ \E i \in Desc : DevComplete(i)
  \/ IntrAck \/ IntrEntry \/ IntrEnd
=============================================================================
