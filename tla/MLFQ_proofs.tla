---------------------------- MODULE MLFQ_proofs ----------------------------
(***************************************************************************)
(* Proofs about MLFQ, for every number of processes, priorities, boost     *)
(* period and set of channels, and about the arrays that hold its queues.  *)
(***************************************************************************)
EXTENDS MLFQ, FiniteSetTheorems, SequenceTheorems, TLAPS

-----------------------------------------------------------------------------
(* Queues.                                                                 *)

\* A set of slots is finite, and a loop over the table lists it.
LEMMA TableOrderEnumerates ==
  ASSUME NEW S, S \subseteq Procs, NEW s \in TableOrder(S)
  PROVE  s \in Seq(Procs) /\ Enumerates(s, S)
<1>1. IsFiniteSet(Procs)
  BY NPROCAssumption, FS_Interval DEF Procs
<1>2. Cardinality(S) \in Nat
  BY <1>1, FS_Subset, FS_CardinalityType
<1>3. s \in [1 .. Cardinality(S) -> S] /\ Len(s) = Cardinality(S) /\ s \in Seq(Procs)
  BY <1>2, IsASeq DEF TableOrder
<1>4. \A i, j \in 1 .. Len(s) : s[i] = s[j] => i = j
  <2> SUFFICES ASSUME NEW i \in 1 .. Len(s), NEW j \in 1 .. Len(s), s[i] = s[j]
               PROVE  i = j
    OBVIOUS
  <2>1. /\ i < j => s[i] < s[j]
        /\ j < i => s[j] < s[i]
    BY <1>3 DEF TableOrder
  <2>2. s[i] \in Int /\ i \in Int /\ j \in Int
    BY <1>2, <1>3, NPROCAssumption DEF Procs
  <2> QED
    BY <2>1, <2>2
<1> QED
  BY <1>3, <1>4 DEF TableOrder, Enumerates

\* The entries of a queue picked by mlfqmode() list the RUNNABLE processes once
\* if the queue does.
LEMMA EntriesEnumerate ==
  ASSUME NEW q \in Seq(Procs), NEW S, S \subseteq Procs, Enumerates(q, S),
         NEW s \in EntriesIn(q, S)
  PROVE  s \in Seq(Procs) /\ Enumerates(s, S)
<1> DEFINE I == {i \in 1 .. Len(q) : q[i] \in S}
<1>1. PICK f \in TableOrder(I) : s = [k \in 1 .. Cardinality(I) |-> q[f[k]]]
  BY DEF EntriesIn
<1>2. I = 1 .. Len(q) /\ Len(q) \in Nat
  BY DEF Enumerates
<1>3. IsFiniteSet(I) /\ Cardinality(I) \in Nat
  <2>1. IsFiniteSet(1 .. Len(q))
    BY <1>2, FS_Interval
  <2>2. Cardinality(1 .. Len(q)) \in Nat
    BY <2>1, FS_CardinalityType
  <2> QED
    BY <1>2, <2>1, <2>2
<1>4. s \in Seq(Procs) /\ Len(s) = Cardinality(I)
  <2>1. \A k \in 1 .. Cardinality(I) : f[k] \in 1 .. Len(q)
    BY <1>2, <1>3 DEF TableOrder
  <2> QED
    BY <1>1, <1>3, <2>1, IsASeq
<1>5. \A i, j \in 1 .. Cardinality(I) : f[i] = f[j] => i = j
  <2> SUFFICES ASSUME NEW i \in 1 .. Cardinality(I), NEW j \in 1 .. Cardinality(I),
                      f[i] = f[j]
               PROVE  i = j
    OBVIOUS
  <2>1. /\ i < j => f[i] < f[j]
        /\ j < i => f[j] < f[i]
    BY DEF TableOrder
  <2>2. f[i] \in Int /\ i \in Int /\ j \in Int
    BY <1>2, <1>3 DEF TableOrder
  <2> QED
    BY <2>1, <2>2
<1>6. \A x \in 1 .. Len(q) : \E k \in 1 .. Cardinality(I) : f[k] = x
  BY <1>2 DEF TableOrder
<1>7. \A k \in 1 .. Cardinality(I) : f[k] \in 1 .. Len(q) /\ s[k] = q[f[k]]
  BY <1>1, <1>2 DEF TableOrder
<1> HIDE DEF I
<1>8. \A k \in 1 .. Len(s) : s[k] \in S
  BY <1>4, <1>7 DEF Enumerates
<1>9. \A x \in S : \E k \in 1 .. Len(s) : s[k] = x
  <2> SUFFICES ASSUME NEW x \in S PROVE \E k \in 1 .. Len(s) : s[k] = x
    OBVIOUS
  <2>1. PICK m \in 1 .. Len(q) : q[m] = x
    BY DEF Enumerates
  <2>2. PICK k \in 1 .. Cardinality(I) : f[k] = m
    BY <1>6
  <2> QED
    BY <1>4, <1>7, <2>1, <2>2
<1>10. \A i, j \in 1 .. Len(s) : s[i] = s[j] => i = j
  BY <1>4, <1>5, <1>7, SMTT(30) DEF Enumerates
<1> QED
  BY <1>4, <1>8, <1>9, <1>10 DEF Enumerates

\* A queue that lists slots once is no longer than the table.
LEMMA EnumeratesLen ==
  ASSUME NEW q \in Seq(Procs), NEW S, S \subseteq Procs, Enumerates(q, S)
  PROVE  Len(q) \in Nat /\ Len(q) <= NPROC
<1>1. Len(q) \in Nat /\ q \in [1 .. Len(q) -> Procs]
  BY LenProperties
<1>2. IsFiniteSet(Procs) /\ Cardinality(Procs) = NPROC
  BY NPROCAssumption, FS_Interval DEF Procs
<1>3. IsFiniteSet(1 .. Len(q)) /\ Cardinality(1 .. Len(q)) = Len(q)
  BY <1>1, FS_Interval
<1>4. ~(NPROC < Len(q))
  <2> SUFFICES ASSUME NPROC < Len(q) PROVE FALSE
    OBVIOUS
  <2>1. \E x, y \in 1 .. Len(q) : x # y /\ q[x] = q[y]
    BY <1>1, <1>2, <1>3, FS_PigeonHole
  <2> QED
    BY <2>1 DEF Enumerates
<1> QED
  BY <1>1, <1>4, NPROCAssumption

\* Pushing processes that are not in the queue neither wraps the ring nor
\* lists anything twice.
LEMMA PushEnumerates ==
  ASSUME NEW q \in Seq(Procs), NEW S, S \subseteq Procs, Enumerates(q, S),
         NEW s \in Seq(Procs), NEW T, T \subseteq Procs, Enumerates(s, T),
         S \cap T = {}
  PROVE  /\ queue_push(q, s) = q \o s
         /\ q \o s \in Seq(Procs)
         /\ Enumerates(q \o s, S \cup T)
<1>1. /\ q \o s \in Seq(Procs)
      /\ Len(q \o s) = Len(q) + Len(s)
      /\ \A i \in 1 .. Len(q) + Len(s) :
           (q \o s)[i] = IF i <= Len(q) THEN q[i] ELSE s[i - Len(q)]
  BY ConcatProperties
<1>2. Len(q) \in Nat /\ Len(s) \in Nat
  BY LenProperties
<1>3. Enumerates(q \o s, S \cup T)
  <2>1. \A i \in 1 .. Len(q \o s) : (q \o s)[i] \in S \cup T
    BY <1>1, <1>2 DEF Enumerates
  <2>2. \A x \in S \cup T : \E i \in 1 .. Len(q \o s) : (q \o s)[i] = x
    <3> SUFFICES ASSUME NEW x \in S \cup T
                 PROVE  \E i \in 1 .. Len(q \o s) : (q \o s)[i] = x
      OBVIOUS
    <3>1. CASE x \in S
      BY <3>1, <1>1, <1>2 DEF Enumerates
    <3>2. CASE x \in T
      <4>1. PICK i \in 1 .. Len(s) : s[i] = x
        BY <3>2 DEF Enumerates
      <4>2. Len(q) + i \in 1 .. Len(q \o s) /\ (q \o s)[Len(q) + i] = x
        BY <4>1, <1>1, <1>2
      <4> QED
        BY <4>2
    <3> QED
      BY <3>1, <3>2
  <2>3. \A i, j \in 1 .. Len(q \o s) : (q \o s)[i] = (q \o s)[j] => i = j
    BY <1>1, <1>2 DEF Enumerates
  <2> QED
    BY <2>1, <2>2, <2>3 DEF Enumerates
<1>4. Len(q \o s) <= NPROC
  BY <1>1, <1>3, EnumeratesLen
<1>5. Len(q \o s) < QNUM
  BY <1>1, <1>2, <1>4, NPROCAssumption, QNUMAssumption
<1> QED
  BY <1>1, <1>3, <1>5 DEF queue_push

\* A queue of one.
LEMMA SingletonEnumerates ==
  ASSUME NEW p \in Procs
  PROVE  <<p>> \in Seq(Procs) /\ Enumerates(<<p>>, {p})
BY DEF Enumerates

\* Removing an entry, from the front or from the middle, removes one process.
LEMMA RemoveEnumerates ==
  ASSUME NEW q \in Seq(Procs), NEW S, S \subseteq Procs, Enumerates(q, S),
         NEW i \in 1 .. Len(q)
  PROVE  RemoveAt(q, i) \in Seq(Procs) /\ Enumerates(RemoveAt(q, i), S \ {q[i]})
<1> DEFINE r == RemoveAt(q, i)
           n == Len(q) - 1
<1>1. n \in Nat /\ Len(q) = n + 1
  BY LenProperties
<1>2. /\ \A j \in 1 .. n : r[j] = IF j < i THEN q[j] ELSE q[j + 1]
      /\ r \in Seq(Procs) /\ Len(r) = n
  <2>1. \A j \in 1 .. n : j \in 1 .. Len(q) /\ j + 1 \in 1 .. Len(q)
    BY <1>1
  <2>2. \A j \in 1 .. n : (IF j < i THEN q[j] ELSE q[j + 1]) \in Procs
    BY <2>1, ElementOfSeq
  <2> QED
    BY <1>1, <2>2, IsASeq DEF RemoveAt
<1> HIDE DEF r, n
<1>3. \A j \in 1 .. n : r[j] \in S \ {q[i]}
  BY <1>1, <1>2 DEF Enumerates
<1>4. \A x \in S \ {q[i]} : \E j \in 1 .. n : r[j] = x
  <2> SUFFICES ASSUME NEW x \in S \ {q[i]} PROVE \E j \in 1 .. n : r[j] = x
    OBVIOUS
  <2>1. PICK k \in 1 .. Len(q) : q[k] = x
    BY DEF Enumerates
  <2>2. CASE k < i
    BY <1>1, <1>2, <2>1, <2>2
  <2>3. CASE k > i
    <3>1. k - 1 \in 1 .. n /\ r[k - 1] = q[k]
      BY <1>1, <1>2, <2>3
    <3> QED
      BY <2>1, <3>1
  <2> QED
    BY <2>1, <2>2, <2>3
<1>5. \A j, k \in 1 .. n : r[j] = r[k] => j = k
  BY <1>1, <1>2 DEF Enumerates
<1> QED
  BY <1>2, <1>3, <1>4, <1>5 DEF r, Enumerates

-----------------------------------------------------------------------------
(* Types and the bookkeeping of the CPU.                                   *)

\* queue_push() of slots to a queue of slots gives one, full ring or not.
LEMMA QueuePushType ==
  ASSUME NEW q \in Seq(Procs), NEW s \in Seq(Procs)
  PROVE  queue_push(q, s) \in Seq(Procs)
<1>1. q \o s \in Seq(Procs) /\ Len(q \o s) \in Nat
  BY ConcatProperties, LenProperties
<1>2. CASE Len(q \o s) < QNUM
  BY <1>1, <1>2 DEF queue_push
<1>3. CASE ~(Len(q \o s) < QNUM)
  <2>1. QNUM + 1 \in 1 .. Len(q \o s) + 1 /\ Len(q \o s) \in QNUM .. Len(q \o s)
    BY <1>1, <1>3, QNUMAssumption, NPROCAssumption
  <2>2. SubSeq(q \o s, QNUM + 1, Len(q \o s)) \in Seq(Procs)
    BY <1>1, <2>1, QNUMAssumption, NPROCAssumption, SubSeqProperties
  <2> QED
    BY <1>3, <2>2 DEF queue_push
<1> QED
  BY <1>2, <1>3

\* What mlfqmode() copies from fcfs is a sequence of slots.
LEMMA EntriesInType ==
  ASSUME NEW q \in Seq(Procs), NEW S, NEW s \in EntriesIn(q, S)
  PROVE  s \in Seq(Procs)
<1> DEFINE I == {i \in 1 .. Len(q) : q[i] \in S}
<1>1. PICK f \in TableOrder(I) : s = [k \in 1 .. Cardinality(I) |-> q[f[k]]]
  BY DEF EntriesIn
<1>2. Cardinality(I) \in Nat
  <2>1. IsFiniteSet(1 .. Len(q))
    BY LenProperties, FS_Interval
  <2>2. IsFiniteSet(I)
    BY <2>1, FS_Subset
  <2> QED
    BY <2>2, FS_CardinalityType
<1>3. \A k \in 1 .. Cardinality(I) : q[f[k]] \in Procs
  BY ElementOfSeq DEF TableOrder
<1> HIDE DEF I
<1> QED
  BY <1>1, <1>2, <1>3, IsASeq

\* A queue without one of its entries is a queue of slots.
LEMMA RemoveAtType ==
  ASSUME NEW q \in Seq(Procs), NEW i \in 1 .. Len(q)
  PROVE  RemoveAt(q, i) \in Seq(Procs)
<1>1. Len(q) - 1 \in Nat
  BY LenProperties
<1>2. \A j \in 1 .. Len(q) - 1 : (IF j < i THEN q[j] ELSE q[j + 1]) \in Procs
  BY <1>1, ElementOfSeq
<1> QED
  BY <1>1, <1>2, IsASeq DEF RemoveAt

\* The part of TypeInv about queues and scheduling fields.
QueueTypes ==
  /\ level \in [Procs -> Levels \cup {-1}]
  /\ priority \in [Procs -> -1 .. MaxPriority]
  /\ time_quantum \in [Procs -> -1 .. 5]
  /\ schedule_mode \in {"FCFS", "MLFQ"}
  /\ fcfs \in Seq(Procs)
  /\ mlfq \in [Levels -> Seq(Procs)]
  /\ QuantumInRange

\* The part of TypeInv about processes and the CPU.
CpuTypes ==
  /\ state \in [Procs -> States]
  /\ chan \in [Procs -> Chans]
  /\ parent \in [Procs -> Procs \cup {None}]
  /\ forking \in [Procs -> Procs \cup {None}]
  /\ curr \in Procs \cup {None}
  /\ cpu \in {"run", "switched", "loop"}
  /\ windowTicks \in Nat
  /\ ticks \in 0 .. BoostPeriod - 1
  /\ priority_boost \in BOOLEAN
  /\ leaked \subseteq Procs
  /\ panicked \in {"none", "acquire schedule_lock", "acquire p->lock", "sched locks"}
  /\ OneRunning
  /\ ChildStaysUsed

\* The invariant, split by the variables the actions touch together.
LEMMA TypeInvParts == TypeInv <=> QueueTypes /\ CpuTypes
BY DEF TypeInv, TypeOK, QueueTypes, CpuTypes

\* No half-made child is disturbed by a step that only touches other slots.
LEMMA ChildrenKept ==
  ASSUME CpuTypes, forking' = forking,
         \A q \in Procs : state[q] = "USED" => state'[q] = "USED"
  PROVE  ChildStaysUsed'
<1>1. \A p \in Procs : forking[p] # None => forking[p] \in Procs
  BY DEF CpuTypes
<1> QED
  BY <1>1 DEF CpuTypes, ChildStaysUsed

\* add_proc_to_queue() keeps the types of queues and fields.
LEMMA AddProcTypes ==
  ASSUME QueueTypes, NEW s \in Seq(Procs), add_proc_to_queue(s)
  PROVE  QueueTypes'
<1>1. CASE schedule_mode = "FCFS"
  BY <1>1, QueuePushType DEF QueueTypes, add_proc_to_queue, fieldVars, QuantumInRange
<1>2. CASE schedule_mode # "FCFS"
  <2>1. queue_push(mlfq[0], s) \in Seq(Procs) /\ 0 \in Levels
    BY QueuePushType DEF QueueTypes, Levels
  <2>2. mlfq' = [mlfq EXCEPT ![0] = queue_push(@, s)] /\ mlfq' \in [Levels -> Seq(Procs)]
    BY <1>2, <2>1 DEF QueueTypes, add_proc_to_queue
  <2> DEFINE S == {s[i] : i \in 1 .. Len(s)}
  <2>3. /\ level' = [q \in Procs |-> IF q \in S THEN 0 ELSE level[q]]
        /\ priority' = [q \in Procs |-> IF q \in S THEN MaxPriority ELSE priority[q]]
        /\ time_quantum' = [q \in Procs |-> IF q \in S THEN 1 ELSE time_quantum[q]]
        /\ schedule_mode' = schedule_mode /\ fcfs' = fcfs
    BY <1>2 DEF add_proc_to_queue
  <2> HIDE DEF S
  <2>4. /\ level' \in [Procs -> Levels \cup {-1}]
        /\ priority' \in [Procs -> -1 .. MaxPriority]
        /\ time_quantum' \in [Procs -> -1 .. 5]
    BY <2>3, MaxPriorityAssumption DEF QueueTypes, Levels
  <2>5. QuantumInRange'
    BY <2>3, <2>4, MaxPriorityAssumption DEF QueueTypes, QuantumInRange, Levels
  <2> QED
    BY <2>2, <2>3, <2>4, <2>5 DEF QueueTypes
<1> QED
  BY <1>1, <1>2

\* my_queueing() keeps them too: the new level has a queue and a quantum.
LEMMA MyQueueingTypes ==
  ASSUME QueueTypes, NEW p \in Procs, my_queueing(p)
  PROVE  QueueTypes'
<1>0. <<p>> \in Seq(Procs)
  OBVIOUS
<1>1. CASE schedule_mode = "FCFS"
  BY <1>0, <1>1, QueuePushType DEF QueueTypes, my_queueing, fieldVars, QuantumInRange
<1>2. CASE schedule_mode = "MLFQ"
  <2>1. /\ level[p] \in Levels
        /\ priority[p] \in 0 .. MaxPriority
        /\ time_quantum[p] \in 1 .. 2 * level[p] + 1
    BY <1>2 DEF QueueTypes, QuantumInRange
  <2>2. LevelAfter(p) \in Levels
    BY <2>1 DEF LevelAfter, Levels
  <2>3. QuantumAfter(p) \in 1 .. 2 * LevelAfter(p) + 1 /\ QuantumAfter(p) \in -1 .. 5
    BY <2>1, <2>2 DEF QuantumAfter, LevelAfter, Expired, Levels
  <2>4. mlfq' \in [Levels -> Seq(Procs)]
    <3>1. mlfq[LevelAfter(p)] \in Seq(Procs)
      BY <2>2 DEF QueueTypes
    <3>2. Append(mlfq[LevelAfter(p)], p) \in Seq(Procs)
      BY <3>1, AppendProperties
    <3>3. queue_push(mlfq[LevelAfter(p)], <<p>>) \in Seq(Procs)
      BY <3>1, <1>0, QueuePushType
    <3>4. mlfq' = push(LevelAfter(p), p)
      BY <1>2 DEF my_queueing
    <3> QED
      BY <2>2, <3>2, <3>3, <3>4 DEF QueueTypes, push, L2_push
  <2>5. /\ level' = [level EXCEPT ![p] = LevelAfter(p)]
        /\ time_quantum' = [time_quantum EXCEPT ![p] = QuantumAfter(p)]
        /\ schedule_mode' = schedule_mode /\ fcfs' = fcfs
    BY <1>2 DEF my_queueing
  <2>6. \E n \in 0 .. MaxPriority : priority' = [priority EXCEPT ![p] = n]
    <3> DEFINE n == IF Expired(p) /\ level[p] = 2 /\ priority[p] > 0
                    THEN priority[p] - 1 ELSE priority[p]
    <3>1. priority' = [priority EXCEPT ![p] = n]
      BY <1>2 DEF my_queueing
    <3>2. n \in 0 .. MaxPriority
      BY <2>1, MaxPriorityAssumption
    <3> QED
      BY <3>1, <3>2
  <2>7. /\ level' \in [Procs -> Levels \cup {-1}]
        /\ priority' \in [Procs -> -1 .. MaxPriority]
        /\ time_quantum' \in [Procs -> -1 .. 5]
    BY <2>2, <2>3, <2>5, <2>6, MaxPriorityAssumption DEF QueueTypes
  <2>8. QuantumInRange'
    BY <1>2, <2>2, <2>3, <2>5, <2>6 DEF QuantumInRange, QueueTypes
  <2> QED
    BY <2>4, <2>5, <2>7, <2>8 DEF QueueTypes
<1> QED
  BY <1>1, <1>2 DEF QueueTypes

\* yield() of the process that executes.
LEMMA YieldTypes ==
  ASSUME QueueTypes, CpuTypes, NEW p \in Procs, curr = p, yield(p),
         ticks' \in 0 .. BoostPeriod - 1, priority_boost' \in BOOLEAN
  PROVE  QueueTypes' /\ CpuTypes'
<1>1. QueueTypes'
  BY MyQueueingTypes DEF yield
<1>2. CpuTypes'
  <2>1. /\ state' \in [Procs -> States]
        /\ \A q \in Procs : (state'[q] = "RUNNING") <=> FALSE
    BY DEF CpuTypes, yield, States, OneRunning
  <2>2. /\ curr' = None /\ cpu' = "switched" /\ windowTicks' = 0
        /\ UNCHANGED <<chan, parent, forking, leaked, panicked>>
    BY DEF yield, sched, failVars
  <2>3. None \notin Procs
    BY DEF None, Procs
  <2>4. OneRunning'
    BY <2>1, <2>2, <2>3 DEF OneRunning
  <2>5. ChildStaysUsed'
    <3>1. \A q \in Procs : state[q] = "USED" => state'[q] = "USED"
      BY DEF CpuTypes, yield, OneRunning
    <3> QED
      BY <2>2, <3>1, ChildrenKept
  <2> QED
    BY <2>1, <2>2, <2>4, <2>5 DEF CpuTypes
<1> QED
  BY <1>1, <1>2

\* A step that touches neither queues nor fields keeps their types.
LEMMA QueueTypesUnchanged ==
  ASSUME QueueTypes, UNCHANGED fieldVars, UNCHANGED queueVars
  PROVE  QueueTypes'
BY DEF QueueTypes, QuantumInRange, fieldVars, queueVars

\* Resetting every slot, as a boost and mlfqmode() do.
LEMMA ResetTypes ==
  ASSUME NEW s \in Seq(Procs), RefillL0(s), ResetFields,
         fcfs \in Seq(Procs), fcfs' = fcfs, schedule_mode' \in {"FCFS", "MLFQ"}
  PROVE  QueueTypes'
<1>1. mlfq' \in [Levels -> Seq(Procs)]
  BY DEF RefillL0
<1>2. /\ level' \in [Procs -> Levels \cup {-1}]
      /\ priority' \in [Procs -> -1 .. MaxPriority]
      /\ time_quantum' \in [Procs -> -1 .. 5]
  BY MaxPriorityAssumption DEF ResetFields, Levels
<1>3. QuantumInRange'
  BY MaxPriorityAssumption DEF ResetFields, QuantumInRange, Levels
<1> QED
  BY <1>1, <1>2, <1>3 DEF QueueTypes

\* my_switching() to a process taken from a queue.
LEMMA SwitchingTypes ==
  ASSUME CpuTypes, cpu = "loop", NEW t \in Procs, my_switching(t),
         UNCHANGED <<parent, forking, tickVars, failVars>>
  PROVE  CpuTypes'
<1>1. CASE state[t] = "RUNNABLE"
  <2>1. /\ state' = [state EXCEPT ![t] = "RUNNING"]
        /\ chan' = [chan EXCEPT ![t] = None]
        /\ curr' = t /\ cpu' = "run" /\ windowTicks' = 0
        /\ UNCHANGED <<parent, forking, ticks, priority_boost, leaked, panicked>>
    BY <1>1 DEF my_switching, tickVars, failVars
  <2>2. curr = None
    BY DEF CpuTypes, OneRunning
  <2>3. t # None
    BY DEF None, Procs
  <2>4. \A q \in Procs : (state'[q] = "RUNNING") <=> (q = t)
    <3>1. \A q \in Procs : state[q] # "RUNNING"
      <4>1. None \notin Procs
        BY DEF None, Procs
      <4>2. \A q \in Procs : (state[q] = "RUNNING") <=> (curr = q)
        BY DEF CpuTypes, OneRunning
      <4> QED
        BY <2>2, <4>1, <4>2
    <3> QED
      BY <2>1, <3>1 DEF CpuTypes
  <2>5. OneRunning'
    BY <2>1, <2>3, <2>4 DEF OneRunning
  <2>6. ChildStaysUsed'
    <3>1. \A q \in Procs : state[q] = "USED" => state'[q] = "USED"
      BY <1>1, <2>1 DEF CpuTypes
    <3> QED
      BY <2>1, <3>1, ChildrenKept
  <2> QED
    BY <2>1, <2>5, <2>6 DEF CpuTypes, States, Chans
<1>2. CASE state[t] # "RUNNABLE"
  BY <1>2 DEF my_switching, CpuTypes, OneRunning, ChildStaysUsed, cpuVars, tickVars, failVars
<1> QED
  BY <1>1, <1>2

\* The tick counted by clockintr() keeps the types of the clock.
LEMMA CountTickTypes ==
  ASSUME CpuTypes, CountTick
  PROVE  ticks' \in 0 .. BoostPeriod - 1 /\ priority_boost' \in BOOLEAN
<1>1. ticks' \in 0 .. BoostPeriod - 1
  <2>1. ticks \in 0 .. BoostPeriod - 1
    BY DEF CpuTypes
  <2>2. ticks' = IF ticks + 1 = BoostPeriod THEN 0 ELSE ticks + 1
    BY DEF CountTick
  <2> QED
    BY <2>1, <2>2, BoostPeriodAssumption
<1>2. priority_boost' \in BOOLEAN
  BY DEF CountTick
<1> QED
  BY <1>1, <1>2

\* Processes that are neither RUNNING nor become so change their state.
LEMMA CpuTypesStates ==
  ASSUME CpuTypes, UNCHANGED <<cpuVars, tickVars, panicked>>,
         state' \in [Procs -> States],
         \A q \in Procs : (state'[q] = "RUNNING") <=> (state[q] = "RUNNING"),
         chan' \in [Procs -> Chans],
         parent' \in [Procs -> Procs \cup {None}],
         forking' \in [Procs -> Procs \cup {None}],
         leaked' \subseteq Procs,
         ChildStaysUsed'
  PROVE  CpuTypes'
BY DEF CpuTypes, OneRunning, cpuVars, tickVars

\* The executing process leaves the CPU through sched().
LEMMA CpuTypesSched ==
  ASSUME CpuTypes, NEW p \in Procs, curr = p, sched, UNCHANGED <<tickVars, failVars>>,
         state' \in [Procs -> States],
         state'[p] # "RUNNING",
         \A q \in Procs \ {p} : (state'[q] = "RUNNING") <=> (state[q] = "RUNNING"),
         chan' \in [Procs -> Chans],
         parent' \in [Procs -> Procs \cup {None}],
         forking' = forking,
         \A q \in Procs : state[q] = "USED" => state'[q] = "USED"
  PROVE  CpuTypes'
<1>1. None \notin Procs
  BY DEF None, Procs
<1>2. /\ curr' = None /\ cpu' = "switched" /\ windowTicks' = 0
      /\ UNCHANGED <<ticks, priority_boost, leaked, panicked>>
  BY DEF sched, tickVars, failVars
<1>3. OneRunning'
  BY <1>1, <1>2 DEF CpuTypes, OneRunning
<1>4. ChildStaysUsed'
  BY ChildrenKept
<1> QED
  BY <1>2, <1>3, <1>4 DEF CpuTypes

\* procinit() and userinit() establish the invariant.
THEOREM TypeInit == Init => TypeInv
<1> SUFFICES ASSUME Init PROVE QueueTypes /\ CpuTypes
  BY TypeInvParts
<1>1. initproc \in Procs /\ None \notin Procs
  BY NPROCAssumption DEF initproc, Procs, None
<1>2. QueueTypes
  <2>1. fcfs \in Seq(Procs)
    BY <1>1 DEF Init
  <2>2. mlfq \in [Levels -> Seq(Procs)]
    BY DEF Init
  <2> QED
    BY <2>1, <2>2, MaxPriorityAssumption DEF Init, QueueTypes, Levels, QuantumInRange
<1>3. CpuTypes
  <2>1. OneRunning
    BY <1>1 DEF Init, OneRunning
  <2>2. ticks \in 0 .. BoostPeriod - 1
    BY BoostPeriodAssumption DEF Init
  <2> QED
    BY <2>1, <2>2 DEF Init, CpuTypes, States, Chans, ChildStaysUsed
<1> QED
  BY <1>2, <1>3

\* The slots a loop over the table finds are slots.
LEMMA SlotSets ==
  /\ Runnable \subseteq Procs
  /\ \A c : SleepingOn(c) \subseteq Procs
  /\ \A p : WokenByExit(p) \subseteq Procs
  /\ initproc \in Procs
BY NPROCAssumption DEF Runnable, SleepingOn, WokenByExit, initproc, Procs

\* Every action keeps the invariant: one step per action.
THEOREM TypeNext == TypeInv /\ [Next]_vars => TypeInv'
<1> SUFFICES ASSUME QueueTypes, CpuTypes, [Next]_vars PROVE QueueTypes' /\ CpuTypes'
  BY DEF TypeInv, TypeOK, QueueTypes, CpuTypes
<1>0. /\ state \in [Procs -> States] /\ chan \in [Procs -> Chans]
      /\ parent \in [Procs -> Procs \cup {None}]
      /\ forking \in [Procs -> Procs \cup {None}]
      /\ leaked \subseteq Procs
      /\ \A q \in Procs : (state[q] = "RUNNING") <=> (curr = q)
  BY DEF CpuTypes, OneRunning
<1>1. CASE my_scheduler
  <2>1. cpu = "loop" /\ UNCHANGED fieldVars /\ UNCHANGED schedule_mode
        /\ UNCHANGED <<parent, forking, tickVars, failVars>>
    BY <1>1 DEF my_scheduler
  <2>2. CASE select_with_fcfs
    <3>1. 1 \in 1 .. Len(fcfs) /\ fcfs[1] \in Procs
      BY <2>2, EmptySeq, LenProperties, ElementOfSeq DEF select_with_fcfs, QueueTypes
    <3>2. fcfs' \in Seq(Procs) /\ mlfq' = mlfq
      BY <2>2, <3>1, RemoveAtType DEF select_with_fcfs, QueueTypes
    <3>3. CpuTypes'
      BY <2>1, <2>2, <3>1, SwitchingTypes DEF select_with_fcfs
    <3> QED
      BY <2>1, <3>2, <3>3 DEF QueueTypes, QuantumInRange, fieldVars
  <2>3. CASE select_with_mlfq
    <3>1. PICK l \in Levels : \E i \in 1 .. Len(mlfq[l]) :
            /\ my_switching(mlfq[l][i])
            /\ mlfq' = [mlfq EXCEPT ![l] = RemoveAt(@, i)]
      BY <2>3 DEF select_with_mlfq
    <3>2. PICK i \in 1 .. Len(mlfq[l]) :
            /\ my_switching(mlfq[l][i])
            /\ mlfq' = [mlfq EXCEPT ![l] = RemoveAt(@, i)]
      BY <3>1
    <3>3. mlfq[l] \in Seq(Procs)
      BY DEF QueueTypes
    <3>4. mlfq[l][i] \in Procs /\ RemoveAt(mlfq[l], i) \in Seq(Procs)
      BY <3>3, ElementOfSeq, RemoveAtType
    <3>5. mlfq' \in [Levels -> Seq(Procs)] /\ fcfs' = fcfs
      BY <2>3, <3>2, <3>4 DEF QueueTypes, select_with_mlfq
    <3>6. CpuTypes'
      BY <2>1, <3>2, <3>4, SwitchingTypes
    <3> QED
      BY <2>1, <3>5, <3>6 DEF QueueTypes, QuantumInRange, fieldVars
  <2> QED
    BY <1>1, <2>2, <2>3 DEF my_scheduler
<1>2. CASE BoostCheck
  <2>1. CpuTypes'
    <3>1. /\ cpu = "switched" /\ cpu' = "loop" /\ priority_boost' = FALSE
          /\ UNCHANGED <<procVars, curr, windowTicks, ticks, failVars>>
      BY <1>2 DEF BoostCheck
    <3>2. UNCHANGED <<state, chan, parent, forking, curr, windowTicks, ticks, leaked, panicked>>
      BY <3>1 DEF procVars, failVars
    <3>3. OneRunning' /\ ChildStaysUsed'
      BY <3>1, <3>2 DEF CpuTypes, OneRunning, ChildStaysUsed
    <3> QED
      BY <3>1, <3>2, <3>3 DEF CpuTypes
  <2>2. fcfs' = fcfs /\ schedule_mode' = schedule_mode
    BY <1>2 DEF BoostCheck
  <2>3. CASE priority_boosting
    <3>1. PICK s \in TableOrder(Runnable) : RefillL0(s)
      BY <2>3 DEF priority_boosting
    <3> QED
      BY <2>1, <2>2, <2>3, <3>1, SlotSets, TableOrderEnumerates, ResetTypes
      DEF priority_boosting, QueueTypes
  <2>4. CASE UNCHANGED <<mlfq, fieldVars>>
    BY <2>1, <2>2, <2>4, QueueTypesUnchanged DEF queueVars
  <2> QED
    BY <1>2, <2>3, <2>4 DEF BoostCheck
<1>3. CASE TimerRun
  <2>1. ticks' \in 0 .. BoostPeriod - 1 /\ priority_boost' \in BOOLEAN
    BY <1>3, CountTickTypes DEF TimerRun
  <2>2. curr \in Procs
    BY <1>3 DEF TimerRun, CpuTypes, OneRunning
  <2>3. CASE schedule_mode = "MLFQ"
    <3>1. yield(curr)
      BY <1>3, <2>3 DEF TimerRun
    <3> QED
      BY <2>1, <2>2, <3>1, YieldTypes
  <2>4. CASE schedule_mode # "MLFQ"
    <3>1. UNCHANGED <<procVars, fieldVars, queueVars, cpuVars, failVars>>
      BY <1>3, <2>4 DEF TimerRun
    <3>2. QueueTypes'
      BY <3>1, QueueTypesUnchanged
    <3> QED
      BY <2>1, <3>1, <3>2 DEF CpuTypes, OneRunning, ChildStaysUsed, procVars, cpuVars, failVars
  <2> QED
    BY <2>3, <2>4
<1>4. CASE TimerScheduler
  <2>1. ticks' \in 0 .. BoostPeriod - 1 /\ priority_boost' \in BOOLEAN
    BY <1>4, CountTickTypes DEF TimerScheduler
  <2>2. UNCHANGED <<procVars, fieldVars, queueVars, curr, cpu, failVars>>
    BY <1>4 DEF TimerScheduler
  <2>3. windowTicks' \in Nat
    BY <1>4 DEF TimerScheduler, CpuTypes
  <2>4. QueueTypes'
    BY <2>2, QueueTypesUnchanged
  <2> QED
    BY <2>1, <2>2, <2>3, <2>4 DEF CpuTypes, OneRunning, ChildStaysUsed, procVars, failVars
<1>5. ASSUME NEW p \in Procs, sys_yield(p)
      PROVE  QueueTypes' /\ CpuTypes'
  <2>1. curr = p /\ yield(p) /\ UNCHANGED <<ticks, priority_boost>>
    BY <1>5 DEF sys_yield, Running, tickVars
  <2> QED
    BY <2>1, YieldTypes DEF CpuTypes
<1>6. ASSUME NEW p \in Procs, NEW c \in Chans, sleep(p, c)
      PROVE  QueueTypes' /\ CpuTypes'
  <2>1. curr = p /\ sched /\ UNCHANGED <<parent, forking, tickVars, failVars>>
        /\ UNCHANGED fieldVars /\ UNCHANGED queueVars
    BY <1>6 DEF sleep, Running
  <2>2. state' = [state EXCEPT ![p] = "SLEEPING"] /\ chan' = [chan EXCEPT ![p] = c]
    BY <1>6 DEF sleep
  <2>3. state' \in [Procs -> States] /\ chan' \in [Procs -> Chans]
        /\ state'[p] # "RUNNING"
        /\ \A q \in Procs \ {p} : (state'[q] = "RUNNING") <=> (state[q] = "RUNNING")
    BY <1>0, <1>6, <2>2 DEF States
  <2>4. parent' \in [Procs -> Procs \cup {None}] /\ forking' = forking
    BY <1>0, <2>1
  <2>5. \A q \in Procs : state[q] = "USED" => state'[q] = "USED"
    BY <1>0, <2>1, <2>2
  <2> QED
    BY <2>1, <2>3, <2>4, <2>5, CpuTypesSched, QueueTypesUnchanged
<1>7. ASSUME NEW p \in Procs, WaitReap(p)
      PROVE  QueueTypes' /\ CpuTypes'
  <2>1. UNCHANGED <<forking, cpuVars, tickVars, failVars>>
        /\ UNCHANGED fieldVars /\ UNCHANGED queueVars
    BY <1>7 DEF WaitReap
  <2>2. PICK q \in Procs : /\ state[q] = "ZOMBIE"
                           /\ state' = [state EXCEPT ![q] = "UNUSED"]
                           /\ chan' = [chan EXCEPT ![q] = None]
                           /\ parent' = [parent EXCEPT ![q] = None]
    BY <1>7 DEF WaitReap, Children
  <2>3. state' \in [Procs -> States] /\ chan' \in [Procs -> Chans]
        /\ parent' \in [Procs -> Procs \cup {None}]
        /\ \A r \in Procs : (state'[r] = "RUNNING") <=> (state[r] = "RUNNING")
    BY <1>0, <2>2 DEF States, Chans
  <2>4. forking' \in [Procs -> Procs \cup {None}] /\ leaked' \subseteq Procs
        /\ UNCHANGED <<cpuVars, tickVars, panicked>>
    BY <1>0, <2>1 DEF failVars
  <2>5. ChildStaysUsed'
    <3>1. \A r \in Procs : state[r] = "USED" => state'[r] = "USED"
      BY <1>0, <2>2
    <3> QED
      BY <2>1, <3>1, ChildrenKept
  <2> QED
    BY <2>1, <2>3, <2>4, <2>5, CpuTypesStates, QueueTypesUnchanged
<1>8. ASSUME NEW p \in Procs, WaitSleep(p)
      PROVE  QueueTypes' /\ CpuTypes'
  BY <1>6, <1>8 DEF WaitSleep, Chans
<1>9. ASSUME NEW p \in Procs, exit(p)
      PROVE  QueueTypes' /\ CpuTypes'
  <2>1. curr = p /\ sched /\ UNCHANGED <<chan, forking, tickVars, failVars>>
    BY <1>9 DEF exit, Running
  <2>2. parent' = reparent(p) /\ parent' \in [Procs -> Procs \cup {None}]
    BY <1>0, <1>9, SlotSets DEF exit, reparent
  <2>3. state' = [q \in Procs |-> IF q \in WokenByExit(p) THEN "RUNNABLE"
                                  ELSE IF q = p THEN "ZOMBIE" ELSE state[q]]
    BY <1>9 DEF exit
  <2>4. \A q \in WokenByExit(p) : state[q] = "SLEEPING"
    BY DEF WokenByExit, SleepingOn
  <2>5. state' \in [Procs -> States] /\ state'[p] # "RUNNING"
        /\ \A q \in Procs \ {p} : (state'[q] = "RUNNING") <=> (state[q] = "RUNNING")
    BY <1>0, <2>3, <2>4 DEF States
  <2>6. CpuTypes'
    <3>1. \A q \in Procs : state[q] = "USED" => state'[q] = "USED"
      BY <1>0, <2>1, <2>3, <2>4
    <3> QED
      BY <1>0, <2>1, <2>2, <2>5, <3>1, CpuTypesSched
  <2>7. PICK s \in TableOrder(WokenByExit(p)) : add_proc_to_queue(s)
    BY <1>9 DEF exit
  <2> QED
    BY <2>6, <2>7, SlotSets, TableOrderEnumerates, AddProcTypes
<1>10. ASSUME NEW p \in Procs, ForkAlloc(p)
       PROVE  QueueTypes' /\ CpuTypes'
  <2>1. UNCHANGED <<chan, parent, cpuVars, tickVars, leaked, panicked>>
        /\ UNCHANGED fieldVars /\ UNCHANGED queueVars
    BY <1>10 DEF ForkAlloc, failVars
  <2>2. PICK np \in Procs : /\ state[np] = "UNUSED"
                            /\ state' = [state EXCEPT ![np] = "USED"]
                            /\ forking' = [forking EXCEPT ![p] = np]
    BY <1>10 DEF ForkAlloc
  <2>3. state' \in [Procs -> States] /\ forking' \in [Procs -> Procs \cup {None}]
        /\ \A r \in Procs : (state'[r] = "RUNNING") <=> (state[r] = "RUNNING")
    BY <1>0, <2>2 DEF States
  <2>4. ChildStaysUsed'
    <3> SUFFICES ASSUME NEW q \in Procs, forking'[q] # None
                 PROVE  /\ state'[forking'[q]] = "USED"
                        /\ \A r \in Procs : forking'[r] = forking'[q] => q = r
      BY DEF ChildStaysUsed
    <3>1. \A r \in Procs : forking[r] # None =>
            /\ forking[r] \in Procs /\ state[forking[r]] = "USED" /\ forking[r] # np
            /\ \A t \in Procs : forking[t] = forking[r] => r = t
      BY <1>0, <2>2 DEF CpuTypes, ChildStaysUsed
    <3>2. np # None
      BY DEF Procs, None
    <3> QED
      BY <1>0, <2>2, <3>1, <3>2
  <2> QED
    BY <1>0, <2>1, <2>3, <2>4, CpuTypesStates, QueueTypesUnchanged
<1>11. ASSUME NEW p \in Procs, ForkPublish(p)
       PROVE  QueueTypes' /\ CpuTypes'
  <2>1. UNCHANGED <<chan, cpuVars, tickVars, leaked, panicked>>
    BY <1>11 DEF ForkPublish, failVars
  <2>2. forking[p] \in Procs
    BY <1>0, <1>11 DEF ForkPublish
  <2>3. /\ parent' = [parent EXCEPT ![forking[p]] = p]
        /\ state' = [state EXCEPT ![forking[p]] = "RUNNABLE"]
        /\ forking' = [forking EXCEPT ![p] = None]
        /\ add_proc_to_queue(<<forking[p]>>)
    BY <1>11 DEF ForkPublish
  <2>4. state[forking[p]] = "USED"
        /\ \A q \in Procs : forking[q] = forking[p] => p = q
    BY <2>2, <1>11 DEF CpuTypes, ChildStaysUsed, ForkPublish
  <2>5. state' \in [Procs -> States] /\ parent' \in [Procs -> Procs \cup {None}]
        /\ forking' \in [Procs -> Procs \cup {None}]
        /\ \A r \in Procs : (state'[r] = "RUNNING") <=> (state[r] = "RUNNING")
    BY <1>0, <2>2, <2>3, <2>4 DEF States
  <2>6. ChildStaysUsed'
    <3> SUFFICES ASSUME NEW q \in Procs, forking'[q] # None
                 PROVE  /\ state'[forking'[q]] = "USED"
                        /\ \A r \in Procs : forking'[r] = forking'[q] => q = r
      BY DEF ChildStaysUsed
    <3>1. q # p /\ forking'[q] = forking[q] /\ forking[q] # None
      BY <1>0, <2>3
    <3>2. /\ state[forking[q]] = "USED" /\ forking[q] \in Procs
          /\ forking[q] # forking[p]
          /\ \A r \in Procs : forking[r] = forking[q] => q = r
      BY <1>0, <2>4, <3>1 DEF CpuTypes, ChildStaysUsed
    <3> QED
      BY <1>0, <2>3, <3>1, <3>2
  <2>7. <<forking[p]>> \in Seq(Procs)
    BY <2>2
  <2> QED
    BY <1>0, <2>1, <2>3, <2>5, <2>6, <2>7, CpuTypesStates, AddProcTypes
<1>12. ASSUME NEW p \in Procs, NEW q \in Procs, kill(p, q)
       PROVE  QueueTypes' /\ CpuTypes'
  <2>1. /\ forking' = forking /\ chan' = chan /\ parent' = parent /\ leaked' = leaked
        /\ UNCHANGED <<cpuVars, tickVars, panicked>>
    BY <1>12 DEF kill, failVars
  <2>2. state[q] = "SLEEPING" /\ state' = [state EXCEPT ![q] = "RUNNABLE"]
    BY <1>12 DEF kill
  <2>3. /\ state' \in [Procs -> States]
        /\ \A r \in Procs : (state'[r] = "RUNNING") <=> (state[r] = "RUNNING")
        /\ \A r \in Procs : state[r] = "USED" => state'[r] = "USED"
    BY <1>0, <2>2 DEF States
  <2>4. ChildStaysUsed'
    BY <2>1, <2>3, ChildrenKept
  <2>5. CpuTypes'
    BY <1>0, <2>1, <2>3, <2>4, CpuTypesStates
  <2>6. <<q>> \in Seq(Procs) /\ add_proc_to_queue(<<q>>)
    BY <1>12 DEF kill
  <2> QED
    BY <2>5, <2>6, AddProcTypes
<1>13. ASSUME NEW c \in IOChans, Wakeup(c)
       PROVE  QueueTypes' /\ CpuTypes'
  <2> DEFINE S == SleepingOn(c)
  <2>1. /\ forking' = forking /\ chan' = chan /\ parent' = parent /\ leaked' = leaked
        /\ UNCHANGED <<cpuVars, tickVars, panicked>>
    BY <1>13 DEF Wakeup, failVars
  <2>2. state' = [q \in Procs |-> IF q \in S THEN "RUNNABLE" ELSE state[q]]
    BY <1>13 DEF Wakeup, wakeup
  <2>3. PICK s \in TableOrder(S) : add_proc_to_queue(s)
    BY <1>13 DEF Wakeup, wakeup
  <2>4. \A q \in S : state[q] = "SLEEPING"
    BY DEF SleepingOn
  <2>5. s \in Seq(Procs)
    BY SlotSets, TableOrderEnumerates
  <2> HIDE DEF S
  <2>6. /\ state' \in [Procs -> States]
        /\ \A r \in Procs : (state'[r] = "RUNNING") <=> (state[r] = "RUNNING")
        /\ \A r \in Procs : state[r] = "USED" => state'[r] = "USED"
    BY <1>0, <2>2, <2>4 DEF States
  <2>7. ChildStaysUsed'
    BY <2>1, <2>6, ChildrenKept
  <2>8. CpuTypes'
    BY <1>0, <2>1, <2>6, <2>7, CpuTypesStates
  <2> QED
    BY <2>3, <2>5, <2>8, AddProcTypes
<1>14. ASSUME NEW p \in Procs, NEW q \in Procs, NEW n \in 0 .. MaxPriority,
              priority' = [priority EXCEPT ![q] = n],
              UNCHANGED <<level, time_quantum, queueVars>>
       PROVE  QueueTypes'
  <2>1. priority' \in [Procs -> -1 .. MaxPriority]
    BY <1>14, MaxPriorityAssumption DEF QueueTypes
  <2> QED
    BY <1>14, <2>1, MaxPriorityAssumption DEF QueueTypes, QuantumInRange, queueVars
<1>15. ASSUME NEW p \in Procs, NEW n \in 0 .. MaxPriority, SetPrioritySelf(p, n)
       PROVE  QueueTypes' /\ CpuTypes'
  <2>1. UNCHANGED <<procVars, cpuVars, tickVars, failVars>>
    BY <1>15 DEF SetPrioritySelf
  <2>2. CpuTypes'
    BY <2>1 DEF CpuTypes, OneRunning, ChildStaysUsed, procVars, cpuVars, tickVars, failVars
  <2> QED
    BY <1>14, <1>15, <2>2 DEF SetPrioritySelf
<1>16. ASSUME NEW p \in Procs, NEW q \in Procs, NEW n \in 0 .. MaxPriority,
              SetPriorityOther(p, q, n)
       PROVE  QueueTypes' /\ CpuTypes'
  <2>1. UNCHANGED <<procVars, cpuVars, tickVars, panicked>> /\ leaked' = leaked \cup {q}
    BY <1>16 DEF SetPriorityOther
  <2>2. CpuTypes'
    BY <2>1 DEF CpuTypes, OneRunning, ChildStaysUsed, procVars, cpuVars, tickVars
  <2> QED
    BY <1>14, <1>16, <2>2 DEF SetPriorityOther
<1>17. ASSUME NEW p \in Procs, sys_fcfsmode(p)
       PROVE  QueueTypes' /\ CpuTypes'
  <2>1. fcfs' \in Seq(Procs)
    BY <1>17, SlotSets, TableOrderEnumerates DEF sys_fcfsmode
  <2>2. /\ level' = [q \in Procs |-> -1]
        /\ priority' = [q \in Procs |-> -1]
        /\ time_quantum' = [q \in Procs |-> -1]
        /\ schedule_mode' = "FCFS" /\ mlfq' = mlfq
    BY <1>17 DEF sys_fcfsmode
  <2>3. QueueTypes'
    BY <2>1, <2>2, MaxPriorityAssumption DEF QueueTypes, QuantumInRange
  <2>4. ticks' = 0 /\ UNCHANGED <<procVars, cpuVars, priority_boost, failVars>>
    BY <1>17 DEF sys_fcfsmode
  <2>5. ticks' \in 0 .. BoostPeriod - 1
    BY <2>4, BoostPeriodAssumption
  <2>6. CpuTypes'
    BY <2>4, <2>5 DEF CpuTypes, OneRunning, ChildStaysUsed, procVars, cpuVars, failVars
  <2> QED
    BY <2>3, <2>6
<1>18. ASSUME NEW p \in Procs, sys_mlfqmode(p)
       PROVE  QueueTypes' /\ CpuTypes'
  <2>1. PICK s \in MovedToL0 : RefillL0(s)
    BY <1>18 DEF sys_mlfqmode
  <2>2. s \in Seq(Procs)
    BY EntriesInType DEF MovedToL0, QueueTypes
  <2>3. QueueTypes'
    BY <1>18, <2>1, <2>2, ResetTypes DEF sys_mlfqmode, QueueTypes
  <2>4. ticks' = 0 /\ UNCHANGED <<procVars, cpuVars, priority_boost, failVars>>
    BY <1>18 DEF sys_mlfqmode
  <2>5. ticks' \in 0 .. BoostPeriod - 1
    BY <2>4, BoostPeriodAssumption
  <2>6. CpuTypes'
    BY <2>4, <2>5 DEF CpuTypes, OneRunning, ChildStaysUsed, procVars, cpuVars, failVars
  <2> QED
    BY <2>3, <2>6
<1>19. ASSUME NEW why \in {"acquire schedule_lock", "acquire p->lock", "sched locks"},
              Stop(why)
       PROVE  QueueTypes' /\ CpuTypes'
  <2>1. QueueTypes'
    BY <1>19, QueueTypesUnchanged DEF Stop
  <2> QED
    BY <1>19, <2>1
    DEF Stop, CpuTypes, OneRunning, ChildStaysUsed, procVars, cpuVars, tickVars
<1>20. CASE UNCHANGED vars
  <2>1. QueueTypes'
    BY <1>20, QueueTypesUnchanged DEF vars
  <2> QED
    BY <1>20, <2>1
    DEF vars, CpuTypes, OneRunning, ChildStaysUsed, procVars, cpuVars, tickVars, failVars
<1> QED
  <2>1. SleepChans \subseteq Chans
    BY DEF SleepChans, Chans
  <2> QED
    BY <1>1, <1>2, <1>3, <1>4, <1>5, <1>6, <1>7, <1>8, <1>9, <1>10, <1>11, <1>12,
       <1>13, <1>15, <1>16, <1>17, <1>18, <1>19, <1>20, <2>1
    DEF Next, TimerPanic, ScanPanic, SchedPanic, Halted

\* TypeInv for every number of processes, queue length and boost period: the
\* bookkeeping of the CPU, of fork() and of the quanta holds together with the
\* types.  In particular a process that gives up the CPU always has a level
\* 0..2 to go to, and a timer interrupt always finds a process of the table.
THEOREM TypeInvCorrect == Spec => []TypeInv
BY TypeInit, TypeNext, PTL DEF Spec

\* In MLFQ mode no slot has left its range of levels, priorities and quanta.
THEOREM QuantaCorrect == Spec => []QuantumInRange
<1>1. TypeInv => QuantumInRange
  BY DEF TypeInv
<1> QED
  BY TypeInvCorrect, <1>1, PTL

\* Whatever interrupts the scheduler loop, fork() or a system call, c->proc is
\* the one RUNNING process, and the scheduler runs with none.
THEOREM CpuCorrect == Spec => []OneRunning
<1>1. TypeInv => OneRunning
  BY DEF TypeInv
<1> QED
  BY TypeInvCorrect, <1>1, PTL

\* Nothing that runs between the two halves of fork() (boosts, mode changes,
\* other forks, kills) makes the child RUNNABLE or hands its slot out again.
THEOREM ChildCorrect == Spec => []ChildStaysUsed
<1>1. TypeInv => ChildStaysUsed
  BY DEF TypeInv
<1> QED
  BY TypeInvCorrect, <1>1, PTL

-----------------------------------------------------------------------------
(* Every RUNNABLE process is queued exactly once.                          *)

\* The invariant is inductive together with TypeInv: that a process put in a
\* queue is not in it already rests on its state before the step (RUNNING for
\* a yield, SLEEPING for a wakeup, USED for a fork).
QueueInv == TypeInv /\ RunnableQueuedOnce

\* The processes of level l, which mlfq[l] must list.
RunnableAt(l) == {p \in Runnable : level[p] = l}

\* A step that changes no queue, level or RUNNABLE state keeps the queues exact.
LEMMA QueuedUnchanged ==
  ASSUME RunnableQueuedOnce, Runnable' = Runnable, UNCHANGED <<queueVars, level>>
  PROVE  RunnableQueuedOnce'
BY DEF RunnableQueuedOnce, queueVars

\* add_proc_to_queue() of processes that become RUNNABLE keeps the queues exact.
LEMMA AddProcQueued ==
  ASSUME QueueTypes, RunnableQueuedOnce,
         NEW S, S \subseteq Procs, S \cap Runnable = {}, Runnable' = Runnable \cup S,
         NEW s \in Seq(Procs), Enumerates(s, S), add_proc_to_queue(s)
  PROVE  RunnableQueuedOnce'
<1>0. Runnable \subseteq Procs
  BY SlotSets
<1>1. CASE schedule_mode = "FCFS"
  <2>1. fcfs' = queue_push(fcfs, s) /\ schedule_mode' = "FCFS"
    BY <1>1 DEF add_proc_to_queue
  <2>2. fcfs \in Seq(Procs) /\ Enumerates(fcfs, Runnable)
    BY <1>1 DEF QueueTypes, RunnableQueuedOnce
  <2>3. Runnable \cap S = {}
    OBVIOUS
  <2>4. /\ queue_push(fcfs, s) = fcfs \o s
        /\ Enumerates(fcfs \o s, Runnable \cup S)
    BY <1>0, <2>2, <2>3, PushEnumerates
  <2>5. Enumerates(fcfs', Runnable')
    BY <2>1, <2>4
  <2> QED
    BY <2>1, <2>5 DEF RunnableQueuedOnce
<1>2. CASE schedule_mode = "MLFQ"
  <2>1. {s[i] : i \in 1 .. Len(s)} = S
    BY DEF Enumerates
  <2>2. /\ level' = [q \in Procs |-> IF q \in S THEN 0 ELSE level[q]]
        /\ mlfq' = [mlfq EXCEPT ![0] = queue_push(@, s)]
        /\ schedule_mode' = "MLFQ"
    BY <1>2, <2>1 DEF add_proc_to_queue
  <2>3. ASSUME NEW l \in Levels
        PROVE  Enumerates(mlfq'[l], RunnableAt(l)')
    <3>1. mlfq[l] \in Seq(Procs) /\ Enumerates(mlfq[l], RunnableAt(l))
      BY <1>2 DEF QueueTypes, RunnableQueuedOnce, RunnableAt
    <3>2. CASE l = 0
      <4>1. RunnableAt(0)' = RunnableAt(0) \cup S
        BY <1>0, <2>2 DEF RunnableAt
      <4>2. RunnableAt(0) \subseteq Procs /\ RunnableAt(0) \cap S = {}
        BY <1>0 DEF RunnableAt
      <4>3. mlfq'[0] = queue_push(mlfq[0], s)
        BY <2>2 DEF QueueTypes, Levels
      <4>4. /\ queue_push(mlfq[0], s) = mlfq[0] \o s
            /\ Enumerates(mlfq[0] \o s, RunnableAt(0) \cup S)
        BY <3>1, <3>2, <4>2, PushEnumerates
      <4> QED
        BY <3>2, <4>1, <4>3, <4>4
    <3>3. CASE l # 0
      <4>1. RunnableAt(l)' = RunnableAt(l)
        BY <1>0, <2>2, <3>3 DEF RunnableAt
      <4>2. mlfq'[l] = mlfq[l]
        BY <2>2, <3>3 DEF QueueTypes
      <4> QED
        BY <3>1, <4>1, <4>2
    <3> QED
      BY <3>2, <3>3
  <2> QED
    BY <2>2, <2>3 DEF RunnableQueuedOnce, RunnableAt
<1> QED
  BY <1>1, <1>2 DEF QueueTypes

\* my_queueing() puts the process leaving the CPU in the queue of its new level.
LEMMA MyQueueingQueued ==
  ASSUME QueueTypes, RunnableQueuedOnce, NEW p \in Procs, p \notin Runnable,
         Runnable' = Runnable \cup {p}, my_queueing(p)
  PROVE  RunnableQueuedOnce'
<1>0. Runnable \subseteq Procs /\ <<p>> \in Seq(Procs) /\ Enumerates(<<p>>, {p})
  BY SlotSets, SingletonEnumerates
<1>1. CASE schedule_mode = "FCFS"
  <2>1. fcfs' = queue_push(fcfs, <<p>>) /\ schedule_mode' = "FCFS"
    BY <1>1 DEF my_queueing
  <2>2. fcfs \in Seq(Procs) /\ Enumerates(fcfs, Runnable)
    BY <1>1 DEF QueueTypes, RunnableQueuedOnce
  <2>3. Runnable \cap {p} = {} /\ {p} \subseteq Procs
    OBVIOUS
  <2>4. /\ queue_push(fcfs, <<p>>) = fcfs \o <<p>>
        /\ Enumerates(fcfs \o <<p>>, Runnable \cup {p})
    BY <1>0, <2>2, <2>3, PushEnumerates
  <2>5. Enumerates(fcfs', Runnable')
    BY <2>1, <2>4
  <2> QED
    BY <2>1, <2>5 DEF RunnableQueuedOnce
<1>2. CASE schedule_mode = "MLFQ"
  <2> DEFINE k == LevelAfter(p)
  <2>1. k \in Levels
    BY <1>2 DEF LevelAfter, Levels, QueueTypes, QuantumInRange
  <2>2. /\ level' = [level EXCEPT ![p] = k]
        /\ mlfq' = push(k, p)
        /\ schedule_mode' = "MLFQ"
    BY <1>2 DEF my_queueing
  <2> HIDE DEF k
  <2>3. ASSUME NEW l \in Levels
        PROVE  Enumerates(mlfq'[l], RunnableAt(l)')
    <3>1. mlfq[l] \in Seq(Procs) /\ Enumerates(mlfq[l], RunnableAt(l))
      BY <1>2 DEF QueueTypes, RunnableQueuedOnce, RunnableAt
    <3>2. CASE l = k
      <4>1. RunnableAt(l)' = RunnableAt(l) \cup {p}
        BY <1>0, <2>2, <3>2 DEF RunnableAt, QueueTypes
      <4>2. RunnableAt(l) \subseteq Procs /\ RunnableAt(l) \cap {p} = {}
        BY <1>0 DEF RunnableAt
      <4>3. /\ queue_push(mlfq[l], <<p>>) = mlfq[l] \o <<p>>
            /\ Enumerates(mlfq[l] \o <<p>>, RunnableAt(l) \cup {p})
        BY <1>0, <3>1, <4>2, PushEnumerates
      <4>4. Append(mlfq[l], p) = mlfq[l] \o <<p>>
        BY <3>1, AppendIsConcat
      <4>5. mlfq'[l] = mlfq[l] \o <<p>>
        BY <2>2, <3>2, <4>3, <4>4 DEF QueueTypes, push, L2_push
      <4> QED
        BY <4>1, <4>3, <4>5
    <3>3. CASE l # k
      <4>1. RunnableAt(l)' = RunnableAt(l)
        BY <1>0, <2>2, <3>3 DEF RunnableAt, QueueTypes
      <4>2. mlfq'[l] = mlfq[l]
        BY <2>2, <3>3 DEF QueueTypes, push
      <4> QED
        BY <3>1, <4>1, <4>2
    <3> QED
      BY <3>2, <3>3
  <2> QED
    BY <2>2, <2>3 DEF RunnableQueuedOnce, RunnableAt
<1> QED
  BY <1>1, <1>2 DEF QueueTypes

\* Refilling L0 with a list of the RUNNABLE processes.
LEMMA ResetQueued ==
  ASSUME NEW s \in Seq(Procs), Enumerates(s, Runnable), Runnable' = Runnable,
         RefillL0(s), ResetFields
  PROVE  \A l \in Levels : Enumerates(mlfq'[l], RunnableAt(l)')
<1> SUFFICES ASSUME NEW l \in Levels
             PROVE  Enumerates(mlfq'[l], RunnableAt(l)')
  OBVIOUS
<1>0. \A p \in Procs : level'[p] = 0
  BY DEF ResetFields
<1>1. CASE l = 0
  <2>1. mlfq'[l] = s
    BY <1>1 DEF RefillL0
  <2>2. RunnableAt(l)' = Runnable
    BY <1>0, <1>1, SlotSets DEF RunnableAt
  <2> QED
    BY <2>1, <2>2
<1>2. CASE l # 0
  <2>1. mlfq'[l] = <<>>
    BY <1>2 DEF RefillL0
  <2>2. RunnableAt(l)' = {}
    BY <1>0, <1>2, SlotSets DEF RunnableAt
  <2>3. Enumerates(<<>>, {})
    BY EmptySeq DEF Enumerates
  <2> QED
    BY <2>1, <2>2, <2>3
<1> QED
  BY <1>1, <1>2

\* yield() queues a process that was not queued.
LEMMA YieldQueued ==
  ASSUME QueueTypes, CpuTypes, RunnableQueuedOnce, NEW p \in Procs, curr = p, yield(p)
  PROVE  RunnableQueuedOnce'
<1>1. state[p] = "RUNNING" /\ state \in [Procs -> States]
  BY DEF CpuTypes, OneRunning
<1>2. p \notin Runnable /\ Runnable' = Runnable \cup {p}
  BY <1>1 DEF Runnable, yield
<1> QED
  BY <1>2, MyQueueingQueued DEF yield

\* Every action keeps the queues exact: one step per action.
THEOREM QueueNext == QueueInv /\ [Next]_vars => QueueInv'
<1> SUFFICES ASSUME TypeInv, RunnableQueuedOnce, [Next]_vars PROVE RunnableQueuedOnce'
  BY TypeNext DEF QueueInv
<1> QueueTypes /\ CpuTypes
  BY TypeInvParts
<1>0. /\ state \in [Procs -> States]
      /\ forking \in [Procs -> Procs \cup {None}]
      /\ \A q \in Procs : (state[q] = "RUNNING") <=> (curr = q)
      /\ Runnable \subseteq Procs
  BY SlotSets DEF CpuTypes, OneRunning
<1>1. CASE my_scheduler
  <2>1. UNCHANGED level /\ UNCHANGED schedule_mode
    BY <1>1 DEF my_scheduler, fieldVars
  <2>2. CASE select_with_fcfs
    <3>1. fcfs \in Seq(Procs) /\ Enumerates(fcfs, Runnable) /\ schedule_mode = "FCFS"
      BY <2>2 DEF select_with_fcfs, QueueTypes, RunnableQueuedOnce
    <3>2. 1 \in 1 .. Len(fcfs)
      BY <2>2, <3>1, EmptySeq, LenProperties DEF select_with_fcfs
    <3>3. fcfs[1] \in Runnable
      BY <3>1, <3>2 DEF Enumerates
    <3>4. state' = [state EXCEPT ![fcfs[1]] = "RUNNING"]
      BY <2>2, <3>3 DEF select_with_fcfs, my_switching, Runnable
    <3>5. Runnable' = Runnable \ {fcfs[1]}
      BY <1>0, <3>3, <3>4 DEF Runnable
    <3>6. Enumerates(fcfs', Runnable \ {fcfs[1]})
      BY <1>0, <2>2, <3>1, <3>2, RemoveEnumerates DEF select_with_fcfs
    <3> QED
      BY <2>1, <3>1, <3>5, <3>6 DEF RunnableQueuedOnce
  <2>3. CASE select_with_mlfq
    <3>1. PICK k \in Levels : \E i \in 1 .. Len(mlfq[k]) :
            /\ my_switching(mlfq[k][i])
            /\ mlfq' = [mlfq EXCEPT ![k] = RemoveAt(@, i)]
      BY <2>3 DEF select_with_mlfq
    <3>2. PICK i \in 1 .. Len(mlfq[k]) :
            /\ my_switching(mlfq[k][i])
            /\ mlfq' = [mlfq EXCEPT ![k] = RemoveAt(@, i)]
      BY <3>1
    <3>3. \A l \in Levels : mlfq[l] \in Seq(Procs) /\ Enumerates(mlfq[l], RunnableAt(l))
      BY <2>3 DEF select_with_mlfq, QueueTypes, RunnableQueuedOnce, RunnableAt
    <3> DEFINE t == mlfq[k][i]
    <3>4. t \in Runnable /\ level[t] = k
      BY <3>3 DEF Enumerates, RunnableAt
    <3>5. state' = [state EXCEPT ![t] = "RUNNING"]
      BY <3>2, <3>4 DEF my_switching, Runnable
    <3>6. Runnable' = Runnable \ {t}
      BY <1>0, <3>4, <3>5 DEF Runnable
    <3>7. ASSUME NEW l \in Levels
          PROVE  Enumerates(mlfq'[l], RunnableAt(l)')
      <4>1. CASE l = k
        <5>1. RunnableAt(l)' = RunnableAt(l) \ {t}
          BY <2>1, <3>6 DEF RunnableAt
        <5>2. mlfq'[l] = RemoveAt(mlfq[l], i)
          BY <3>2, <4>1 DEF QueueTypes
        <5>3. RunnableAt(l) \subseteq Procs
          BY <1>0 DEF RunnableAt
        <5> QED
          BY <3>2, <3>3, <4>1, <5>1, <5>2, <5>3, RemoveEnumerates
      <4>2. CASE l # k
        <5>1. RunnableAt(l)' = RunnableAt(l)
          BY <2>1, <3>4, <3>6, <4>2 DEF RunnableAt
        <5>2. mlfq'[l] = mlfq[l]
          BY <3>2, <4>2 DEF QueueTypes
        <5> QED
          BY <3>3, <5>1, <5>2
      <4> QED
        BY <4>1, <4>2
    <3> QED
      BY <2>1, <2>3, <3>7 DEF RunnableQueuedOnce, RunnableAt, select_with_mlfq
  <2> QED
    BY <1>1, <2>2, <2>3 DEF my_scheduler
<1>2. CASE BoostCheck
  <2>1. fcfs' = fcfs /\ schedule_mode' = schedule_mode /\ Runnable' = Runnable
    BY <1>2 DEF BoostCheck, procVars, Runnable
  <2>2. CASE priority_boosting
    <3>1. PICK s \in TableOrder(Runnable) : RefillL0(s)
      BY <2>2 DEF priority_boosting
    <3>2. s \in Seq(Procs) /\ Enumerates(s, Runnable)
      BY <1>0, TableOrderEnumerates
    <3>3. \A l \in Levels : Enumerates(mlfq'[l], RunnableAt(l)')
      BY <2>1, <2>2, <3>1, <3>2, ResetQueued DEF priority_boosting
    <3> QED
      BY <2>1, <3>3 DEF RunnableQueuedOnce, RunnableAt
  <2>3. CASE UNCHANGED <<mlfq, fieldVars>>
    BY <2>1, <2>3, QueuedUnchanged DEF queueVars, fieldVars
  <2> QED
    BY <1>2, <2>2, <2>3 DEF BoostCheck
<1>3. CASE TimerRun
  <2>1. curr \in Procs
    BY <1>3 DEF TimerRun, CpuTypes, OneRunning
  <2>2. CASE schedule_mode = "MLFQ"
    BY <1>3, <2>1, <2>2, YieldQueued DEF TimerRun
  <2>3. CASE schedule_mode # "MLFQ"
    <3>1. UNCHANGED <<procVars, fieldVars, queueVars>>
      BY <1>3, <2>3 DEF TimerRun
    <3> QED
      BY <3>1, QueuedUnchanged DEF procVars, fieldVars, Runnable
  <2> QED
    BY <2>2, <2>3
<1>4. CASE TimerScheduler
  BY <1>4, QueuedUnchanged DEF TimerScheduler, procVars, fieldVars, Runnable
<1>5. ASSUME NEW p \in Procs, sys_yield(p)
      PROVE  RunnableQueuedOnce'
  BY <1>5, YieldQueued DEF sys_yield, Running
<1>6. ASSUME NEW p \in Procs, NEW c \in Chans, sleep(p, c)
      PROVE  RunnableQueuedOnce'
  <2>1. state[p] = "RUNNING" /\ state' = [state EXCEPT ![p] = "SLEEPING"]
    BY <1>0, <1>6 DEF sleep, Running
  <2>2. Runnable' = Runnable
    BY <1>0, <2>1 DEF Runnable
  <2> QED
    BY <1>6, <2>2, QueuedUnchanged DEF sleep, fieldVars
<1>7. ASSUME NEW p \in Procs, WaitReap(p)
      PROVE  RunnableQueuedOnce'
  <2>1. PICK q \in Procs : state[q] = "ZOMBIE" /\ state' = [state EXCEPT ![q] = "UNUSED"]
    BY <1>7 DEF WaitReap, Children
  <2>2. Runnable' = Runnable
    BY <1>0, <2>1 DEF Runnable
  <2> QED
    BY <1>7, <2>2, QueuedUnchanged DEF WaitReap, fieldVars
<1>8. ASSUME NEW p \in Procs, WaitSleep(p)
      PROVE  RunnableQueuedOnce'
  BY <1>6, <1>8 DEF WaitSleep, Chans
<1>9. ASSUME NEW p \in Procs, exit(p)
      PROVE  RunnableQueuedOnce'
  <2> DEFINE S == WokenByExit(p)
  <2>1. state[p] = "RUNNING"
        /\ state' = [q \in Procs |-> IF q \in S THEN "RUNNABLE"
                                     ELSE IF q = p THEN "ZOMBIE" ELSE state[q]]
    BY <1>0, <1>9 DEF exit, Running
  <2>2. S \subseteq Procs /\ \A q \in S : state[q] = "SLEEPING"
    BY DEF WokenByExit, SleepingOn
  <2>3. PICK s \in TableOrder(S) : add_proc_to_queue(s)
    BY <1>9 DEF exit
  <2> HIDE DEF S
  <2>4. S \cap Runnable = {} /\ Runnable' = Runnable \cup S
    BY <1>0, <2>1, <2>2 DEF Runnable
  <2> QED
    BY <2>2, <2>3, <2>4, TableOrderEnumerates, AddProcQueued
<1>10. ASSUME NEW p \in Procs, ForkAlloc(p)
       PROVE  RunnableQueuedOnce'
  <2>1. PICK np \in Procs : state[np] = "UNUSED" /\ state' = [state EXCEPT ![np] = "USED"]
    BY <1>10 DEF ForkAlloc
  <2>2. Runnable' = Runnable
    BY <1>0, <2>1 DEF Runnable
  <2> QED
    BY <1>10, <2>2, QueuedUnchanged DEF ForkAlloc, fieldVars
<1>11. ASSUME NEW p \in Procs, NEW np \in Procs, state[np] \in {"USED", "SLEEPING"},
              state' = [state EXCEPT ![np] = "RUNNABLE"],
              add_proc_to_queue(<<np>>)
       PROVE  RunnableQueuedOnce'
  <2>1. {np} \cap Runnable = {} /\ Runnable' = Runnable \cup {np}
    BY <1>0, <1>11 DEF Runnable
  <2> QED
    BY <1>11, <2>1, SingletonEnumerates, AddProcQueued
<1>12. ASSUME NEW p \in Procs, ForkPublish(p)
       PROVE  RunnableQueuedOnce'
  <2>1. forking[p] \in Procs /\ state[forking[p]] = "USED"
    BY <1>0, <1>12 DEF ForkPublish, CpuTypes, ChildStaysUsed
  <2> QED
    BY <1>11, <1>12, <2>1 DEF ForkPublish
<1>13. ASSUME NEW p \in Procs, NEW q \in Procs, kill(p, q)
       PROVE  RunnableQueuedOnce'
  BY <1>11, <1>13 DEF kill
<1>14. ASSUME NEW c \in IOChans, Wakeup(c)
       PROVE  RunnableQueuedOnce'
  <2> DEFINE S == SleepingOn(c)
  <2>1. state' = [q \in Procs |-> IF q \in S THEN "RUNNABLE" ELSE state[q]]
    BY <1>14 DEF Wakeup, wakeup
  <2>2. S \subseteq Procs /\ \A q \in S : state[q] = "SLEEPING"
    BY DEF SleepingOn
  <2>3. PICK s \in TableOrder(S) : add_proc_to_queue(s)
    BY <1>14 DEF Wakeup, wakeup
  <2> HIDE DEF S
  <2>4. S \cap Runnable = {} /\ Runnable' = Runnable \cup S
    BY <1>0, <2>1, <2>2 DEF Runnable
  <2> QED
    BY <2>2, <2>3, <2>4, TableOrderEnumerates, AddProcQueued
<1>15. ASSUME NEW p \in Procs, NEW n \in 0 .. MaxPriority, SetPrioritySelf(p, n)
       PROVE  RunnableQueuedOnce'
  BY <1>15, QueuedUnchanged DEF SetPrioritySelf, procVars, Runnable
<1>16. ASSUME NEW p \in Procs, NEW q \in Procs, NEW n \in 0 .. MaxPriority,
              SetPriorityOther(p, q, n)
       PROVE  RunnableQueuedOnce'
  BY <1>16, QueuedUnchanged DEF SetPriorityOther, procVars, Runnable
<1>17. ASSUME NEW p \in Procs, sys_fcfsmode(p)
       PROVE  RunnableQueuedOnce'
  <2>1. Runnable' = Runnable /\ schedule_mode' = "FCFS" /\ fcfs' \in TableOrder(Runnable)
    BY <1>17 DEF sys_fcfsmode, procVars, Runnable
  <2>2. Enumerates(fcfs', Runnable)
    BY <1>0, <2>1, TableOrderEnumerates
  <2> QED
    BY <2>1, <2>2 DEF RunnableQueuedOnce
<1>18. ASSUME NEW p \in Procs, sys_mlfqmode(p)
       PROVE  RunnableQueuedOnce'
  <2>1. PICK s \in MovedToL0 : RefillL0(s)
    BY <1>18 DEF sys_mlfqmode
  <2>2. Runnable' = Runnable /\ schedule_mode' = "MLFQ" /\ ResetFields
    BY <1>18 DEF sys_mlfqmode, procVars, Runnable
  <2>3. fcfs \in Seq(Procs) /\ Enumerates(fcfs, Runnable)
    BY <1>18 DEF sys_mlfqmode, QueueTypes, RunnableQueuedOnce
  <2>4. s \in Seq(Procs) /\ Enumerates(s, Runnable)
    BY <1>0, <2>3, EntriesEnumerate DEF MovedToL0
  <2>5. \A l \in Levels : Enumerates(mlfq'[l], RunnableAt(l)')
    BY <2>1, <2>2, <2>4, ResetQueued
  <2> QED
    BY <2>2, <2>5 DEF RunnableQueuedOnce, RunnableAt
<1>19. ASSUME NEW why, Stop(why)
       PROVE  RunnableQueuedOnce'
  BY <1>19, QueuedUnchanged DEF Stop, procVars, fieldVars, Runnable
<1>20. CASE UNCHANGED vars
  BY <1>20, QueuedUnchanged DEF vars, procVars, fieldVars, Runnable
<1> QED
  <2>1. SleepChans \subseteq Chans
    BY DEF SleepChans, Chans
  <2> QED
    BY <1>1, <1>2, <1>3, <1>4, <1>5, <1>6, <1>7, <1>8, <1>9, <1>10, <1>12,
       <1>13, <1>14, <1>15, <1>16, <1>17, <1>18, <1>19, <1>20, <2>1
    DEF Next, TimerPanic, ScanPanic, SchedPanic, Halted

\* For any number of processes and any interleaving of timer, devices, system
\* calls and mode changes: no RUNNABLE process is lost from the queues, none is
\* queued twice or in the wrong level, and no queue overflows its array.
THEOREM QueuesCorrect == Spec => []RunnableQueuedOnce
<1>1. Init => QueueInv
  <2>1. Init => RunnableQueuedOnce
    <3> SUFFICES ASSUME Init PROVE RunnableQueuedOnce
      OBVIOUS
    <3>1. Runnable = {initproc} /\ fcfs = <<initproc>> /\ schedule_mode = "FCFS"
      BY SlotSets DEF Init, Runnable
    <3> QED
      BY <3>1, SlotSets, SingletonEnumerates DEF RunnableQueuedOnce
  <2> QED
    BY <2>1, TypeInit DEF QueueInv
<1>2. QueueInv => RunnableQueuedOnce
  BY DEF QueueInv
<1> QED
  BY <1>1, <1>2, QueueNext, PTL DEF Spec

-----------------------------------------------------------------------------
(* Parents and wait().                                                     *)

Live == {"RUNNABLE", "RUNNING", "SLEEPING"}

\* ParentAlive alone is not inductive: exit() hands children to init, which must
\* never have exited.
FamilyInv == TypeInv /\ state[initproc] \in Live /\ ParentAlive /\ NoMissedExit

\* A step in which nobody is born or dies, no parent changes and nobody falls
\* asleep in wait() keeps FamilyInv.
LEMMA LiveStep ==
  ASSUME FamilyInv, TypeInv', parent' = parent,
         \A q \in Procs : state'[q] = state[q] \/ (state[q] \in Live /\ state'[q] \in Live),
         \A q \in Procs : state'[q] = "SLEEPING" /\ chan'[q] = q
                            => state[q] = "SLEEPING" /\ chan[q] = q
  PROVE  FamilyInv'
<1>1. initproc \in Procs
  BY SlotSets
<1>2. state'[initproc] \in Live
  BY <1>1 DEF FamilyInv
<1>3. ParentAlive'
  BY DEF FamilyInv, ParentAlive, Live
<1>4. NoMissedExit'
  BY DEF FamilyInv, NoMissedExit, Live
<1> QED
  BY <1>2, <1>3, <1>4 DEF FamilyInv

\* The step of a process that yields is a LiveStep.
LEMMA YieldFamily ==
  ASSUME FamilyInv, TypeInv', NEW p \in Procs, curr = p, yield(p)
  PROVE  FamilyInv'
<1>1. /\ state \in [Procs -> States] /\ state[p] = "RUNNING"
      /\ state' = [state EXCEPT ![p] = "RUNNABLE"]
      /\ UNCHANGED <<chan, parent>>
  BY DEF FamilyInv, TypeInv, TypeOK, OneRunning, yield
<1>2. /\ \A q \in Procs : state'[q] = state[q] \/ (state[q] \in Live /\ state'[q] \in Live)
      /\ \A q \in Procs : state'[q] = "SLEEPING" /\ chan'[q] = q
                            => state[q] = "SLEEPING" /\ chan[q] = q
  BY <1>1 DEF Live
<1> QED
  BY <1>1, <1>2, LiveStep

\* Every action keeps FamilyInv: one step per action.
THEOREM FamilyNext == FamilyInv /\ [Next]_vars => FamilyInv'
<1> SUFFICES ASSUME FamilyInv, [Next]_vars PROVE FamilyInv'
  OBVIOUS
<1>0. /\ state \in [Procs -> States] /\ chan \in [Procs -> Chans]
      /\ parent \in [Procs -> Procs \cup {None}]
      /\ forking \in [Procs -> Procs \cup {None}]
      /\ \A q \in Procs : (state[q] = "RUNNING") <=> (curr = q)
      /\ TypeInv'
      /\ initproc \in Procs /\ None \notin Procs
  <2>1. TypeInv /\ TypeInv'
    BY TypeNext DEF FamilyInv
  <2>2. initproc \in Procs /\ None \notin Procs
    BY SlotSets DEF None, Procs
  <2> QED
    BY <2>1, <2>2 DEF TypeInv, TypeOK, OneRunning
<1>a. /\ state[initproc] \in Live
      /\ \A q \in Procs \ {initproc} : state[q] \notin {"UNUSED", "USED"} =>
           parent[q] \in Procs /\ state[parent[q]] \notin {"UNUSED", "USED", "ZOMBIE"}
      /\ \A p, q \in Procs :
           state[p] = "SLEEPING" /\ chan[p] = p /\ parent[q] = p => state[q] # "ZOMBIE"
  BY DEF FamilyInv, ParentAlive, NoMissedExit
<1>b. ASSUME UNCHANGED <<state, chan, parent>>
      PROVE  FamilyInv'
  BY <1>0, <1>b, LiveStep
<1>1. CASE my_scheduler
  <2>1. ASSUME NEW t, my_switching(t)
        PROVE  /\ \A q \in Procs : state'[q] = state[q] \/ (state[q] \in Live /\ state'[q] \in Live)
               /\ \A q \in Procs : state'[q] = "SLEEPING" /\ chan'[q] = q
                                     => state[q] = "SLEEPING" /\ chan[q] = q
    BY <1>0, <2>1 DEF my_switching, Live
  <2>2. parent' = parent /\ \E t : my_switching(t)
    BY <1>1 DEF my_scheduler, select_with_fcfs, select_with_mlfq
  <2> QED
    BY <1>0, <2>1, <2>2, LiveStep
<1>2. CASE BoostCheck
  BY <1>2, <1>b DEF BoostCheck, procVars
<1>3. CASE TimerRun
  <2>1. curr \in Procs
    BY <1>3 DEF TimerRun, FamilyInv, TypeInv, TypeOK, OneRunning
  <2>2. CASE schedule_mode = "MLFQ"
    BY <1>0, <1>3, <2>1, <2>2, YieldFamily DEF TimerRun
  <2>3. CASE schedule_mode # "MLFQ"
    BY <1>3, <2>3, <1>b DEF TimerRun, procVars
  <2> QED
    BY <2>2, <2>3
<1>4. CASE TimerScheduler
  BY <1>4, <1>b DEF TimerScheduler, procVars
<1>5. ASSUME NEW p \in Procs, sys_yield(p)
      PROVE  FamilyInv'
  BY <1>0, <1>5, YieldFamily DEF sys_yield, Running
<1>6. ASSUME NEW p \in Procs, NEW c \in SleepChans, sleep(p, c)
      PROVE  FamilyInv'
  <2>1. state[p] = "RUNNING" /\ state' = [state EXCEPT ![p] = "SLEEPING"]
        /\ chan' = [chan EXCEPT ![p] = c] /\ parent' = parent
    BY <1>0, <1>6 DEF sleep, Running
  <2>2. c # p
    BY ChansAssumption, NPROCAssumption DEF SleepChans, Procs
  <2>3. /\ \A q \in Procs : state'[q] = state[q] \/ (state[q] \in Live /\ state'[q] \in Live)
        /\ \A q \in Procs : state'[q] = "SLEEPING" /\ chan'[q] = q
                              => state[q] = "SLEEPING" /\ chan[q] = q
    BY <1>0, <2>1, <2>2 DEF Live
  <2> QED
    BY <1>0, <2>1, <2>3, LiveStep
<1>7. ASSUME NEW p \in Procs, WaitReap(p)
      PROVE  FamilyInv'
  <2>1. PICK q \in Procs : /\ state[q] = "ZOMBIE"
                           /\ state' = [state EXCEPT ![q] = "UNUSED"]
                           /\ chan' = [chan EXCEPT ![q] = None]
                           /\ parent' = [parent EXCEPT ![q] = None]
    BY <1>7 DEF WaitReap, Children
  <2>2. state'[initproc] \in Live
    BY <1>0, <1>a, <2>1 DEF Live
  <2>3. ParentAlive'
    BY <1>0, <1>a, <2>1 DEF ParentAlive
  <2>4. NoMissedExit'
    BY <1>0, <1>a, <2>1 DEF NoMissedExit
  <2> QED
    BY <1>0, <2>2, <2>3, <2>4 DEF FamilyInv
<1>8. ASSUME NEW p \in Procs, WaitSleep(p)
      PROVE  FamilyInv'
  <2>1. /\ state[p] = "RUNNING" /\ state' = [state EXCEPT ![p] = "SLEEPING"]
        /\ chan' = [chan EXCEPT ![p] = p] /\ parent' = parent
        /\ \A q \in Procs : parent[q] = p => state[q] # "ZOMBIE"
    BY <1>0, <1>8 DEF WaitSleep, sleep, Running, Children
  <2>2. state'[initproc] \in Live
    BY <1>0, <1>a, <2>1 DEF Live
  <2>3. ParentAlive'
    BY <1>0, <1>a, <2>1 DEF ParentAlive
  <2>4. NoMissedExit'
    BY <1>0, <1>a, <2>1 DEF NoMissedExit
  <2> QED
    BY <1>0, <2>2, <2>3, <2>4 DEF FamilyInv
<1>9. ASSUME NEW p \in Procs, exit(p)
      PROVE  FamilyInv'
  <2>1. /\ state[p] = "RUNNING" /\ p # initproc /\ chan' = chan
        /\ parent' = [q \in Procs |-> IF parent[q] = p THEN initproc ELSE parent[q]]
        /\ state' = [q \in Procs |-> IF q \in WokenByExit(p) THEN "RUNNABLE"
                                     ELSE IF q = p THEN "ZOMBIE" ELSE state[q]]
    BY <1>0, <1>9 DEF exit, Running, reparent
  <2>2. \A q \in WokenByExit(p) : q \in Procs /\ state[q] = "SLEEPING"
    BY DEF WokenByExit, SleepingOn
  <2>3. \A r \in Procs : state[r] = "SLEEPING" /\ chan[r] = r
          /\ (r = parent[p] \/ (r = initproc /\ \E q \in Procs : parent[q] = p))
          => r \in WokenByExit(p)
    BY DEF WokenByExit, SleepingOn, Children
  <2>4. state'[initproc] \in Live
    BY <1>0, <1>a, <2>1 DEF Live
  <2>5. ParentAlive'
    <3> SUFFICES ASSUME NEW q \in Procs \ {initproc}, state'[q] \notin {"UNUSED", "USED"}
                 PROVE  parent'[q] \in Procs
                        /\ state'[parent'[q]] \notin {"UNUSED", "USED", "ZOMBIE"}
      BY DEF ParentAlive
    <3>1. state[q] \notin {"UNUSED", "USED"}
      BY <2>1, <2>2
    <3>2. CASE parent[q] = p
      BY <1>0, <2>1, <2>4, <3>2 DEF Live
    <3>3. CASE parent[q] # p
      <4>1. parent[q] \in Procs /\ state[parent[q]] \notin {"UNUSED", "USED", "ZOMBIE"}
        BY <1>a, <3>1
      <4>2. parent'[q] = parent[q]
        BY <2>1, <3>3
      <4>3. state'[parent[q]] \in {"RUNNABLE", state[parent[q]]}
        BY <2>1, <3>3, <4>1
      <4> QED
        BY <4>1, <4>2, <4>3
    <3> QED
      BY <3>2, <3>3
  <2>6. NoMissedExit'
    <3> SUFFICES ASSUME NEW r \in Procs, NEW q \in Procs,
                        state'[r] = "SLEEPING", chan[r] = r, parent'[q] = r,
                        state'[q] = "ZOMBIE"
                 PROVE  FALSE
      BY <2>1 DEF NoMissedExit
    <3>1. state[r] = "SLEEPING" /\ r \notin WokenByExit(p) /\ r # p
      BY <2>1, <2>2
    <3>2. CASE parent[q] = p
      BY <2>1, <2>3, <3>1, <3>2
    <3>3. CASE parent[q] # p
      <4>1. parent[q] = r
        BY <2>1, <3>3
      <4>2. q = p \/ state[q] = "ZOMBIE"
        BY <2>1
      <4> QED
        BY <1>a, <2>3, <3>1, <4>1, <4>2
    <3> QED
      BY <3>2, <3>3
  <2> QED
    BY <1>0, <2>4, <2>5, <2>6 DEF FamilyInv
<1>10. ASSUME NEW p \in Procs, ForkAlloc(p)
       PROVE  FamilyInv'
  <2>1. PICK np \in Procs : state[np] = "UNUSED" /\ state' = [state EXCEPT ![np] = "USED"]
    BY <1>10 DEF ForkAlloc
  <2>2. UNCHANGED <<chan, parent>>
    BY <1>10 DEF ForkAlloc
  <2>3. state'[initproc] \in Live
    BY <1>0, <1>a, <2>1 DEF Live
  <2>4. ParentAlive'
    BY <1>0, <1>a, <2>1, <2>2 DEF ParentAlive
  <2>5. NoMissedExit'
    BY <1>0, <1>a, <2>1, <2>2 DEF NoMissedExit
  <2> QED
    BY <1>0, <2>3, <2>4, <2>5 DEF FamilyInv
<1>11. ASSUME NEW p \in Procs, ForkPublish(p)
       PROVE  FamilyInv'
  <2>1. /\ forking[p] \in Procs /\ state[forking[p]] = "USED" /\ state[p] = "RUNNING"
        /\ parent' = [parent EXCEPT ![forking[p]] = p]
        /\ state' = [state EXCEPT ![forking[p]] = "RUNNABLE"]
        /\ chan' = chan
    BY <1>0, <1>11 DEF ForkPublish, FamilyInv, TypeInv, ChildStaysUsed
  <2>2. state'[initproc] \in Live
    BY <1>0, <1>a, <2>1 DEF Live
  <2>3. ParentAlive'
    BY <1>0, <1>a, <2>1 DEF ParentAlive
  <2>4. NoMissedExit'
    BY <1>0, <1>a, <2>1 DEF NoMissedExit
  <2> QED
    BY <1>0, <2>2, <2>3, <2>4 DEF FamilyInv
<1>12. ASSUME NEW S, \A q \in S : state[q] = "SLEEPING",
              state' = [q \in Procs |-> IF q \in S THEN "RUNNABLE" ELSE state[q]],
              UNCHANGED <<chan, parent>>
       PROVE  FamilyInv'
  <2>1. /\ \A q \in Procs : state'[q] = state[q] \/ (state[q] \in Live /\ state'[q] \in Live)
        /\ \A q \in Procs : state'[q] = "SLEEPING" /\ chan'[q] = q
                              => state[q] = "SLEEPING" /\ chan[q] = q
    BY <1>0, <1>12 DEF Live
  <2> QED
    BY <1>0, <1>12, <2>1, LiveStep
<1>13. ASSUME NEW p \in Procs, NEW q \in Procs, kill(p, q)
       PROVE  FamilyInv'
  <2>1. state' = [r \in Procs |-> IF r \in {q} THEN "RUNNABLE" ELSE state[r]]
    BY <1>0, <1>13 DEF kill
  <2> QED
    BY <1>12, <1>13, <2>1 DEF kill
<1>14. ASSUME NEW c \in IOChans, Wakeup(c)
       PROVE  FamilyInv'
  <2>1. \A q \in SleepingOn(c) : state[q] = "SLEEPING"
    BY DEF SleepingOn
  <2> QED
    BY <1>12, <1>14, <2>1 DEF Wakeup, wakeup
<1>15. ASSUME NEW p \in Procs, NEW n, SetPrioritySelf(p, n)
       PROVE  FamilyInv'
  BY <1>15, <1>b DEF SetPrioritySelf, procVars
<1>16. ASSUME NEW p \in Procs, NEW q, NEW n, SetPriorityOther(p, q, n)
       PROVE  FamilyInv'
  BY <1>16, <1>b DEF SetPriorityOther, procVars
<1>17. ASSUME NEW p \in Procs, sys_fcfsmode(p) \/ sys_mlfqmode(p)
       PROVE  FamilyInv'
  BY <1>17, <1>b DEF sys_fcfsmode, sys_mlfqmode, procVars
<1>18. ASSUME NEW why, Stop(why)
       PROVE  FamilyInv'
  BY <1>18, <1>b DEF Stop, procVars
<1>19. CASE UNCHANGED vars
  BY <1>19, <1>b DEF vars, procVars
<1> QED
  BY <1>1, <1>2, <1>3, <1>4, <1>5, <1>6, <1>7, <1>8, <1>9, <1>10, <1>11, <1>13,
     <1>14, <1>15, <1>16, <1>17, <1>18, <1>19
  DEF Next, TimerPanic, ScanPanic, SchedPanic, Halted

\* FamilyInv holds always.
THEOREM FamilyCorrect == Spec => []FamilyInv
<1>1. Init => FamilyInv
  <2> SUFFICES ASSUME Init PROVE state[initproc] \in Live /\ ParentAlive /\ NoMissedExit
    BY TypeInit DEF FamilyInv
  <2> QED
    BY SlotSets DEF Init, Live, ParentAlive, NoMissedExit, None, Procs
<1> QED
  BY <1>1, FamilyNext, PTL DEF Spec

\* wait() never sleeps through the exit of a child, its own or one inherited
\* through reparent(), for any number of processes exiting and waiting.
THEOREM NoMissedExitCorrect == Spec => []NoMissedExit
<1>1. FamilyInv => NoMissedExit
  BY DEF FamilyInv
<1> QED
  BY FamilyCorrect, <1>1, PTL

\* Every process but init has a parent that can still reap it, whichever parents
\* exit while it runs, sleeps or is being forked.
THEOREM ParentAliveCorrect == Spec => []ParentAlive
<1>1. FamilyInv => ParentAlive
  BY DEF FamilyInv
<1> QED
  BY FamilyCorrect, <1>1, PTL

-----------------------------------------------------------------------------
(* Levels.                                                                 *)

\* In FCFS mode no slot keeps a level above 0 that mlfqmode() could take away: a
\* boost that a tick asked for before the mode changed sets 0, fcfsmode() -1.
FcfsLevels == schedule_mode = "FCFS" => \A p \in Procs : level[p] <= 0

LevelInv == TypeInv /\ FcfsLevels

\* What LevelRegained says of one step.
RegainStep ==
  \A p \in Procs :
    level'[p] < level[p] =>
      \/ schedule_mode' = "FCFS"
      \/ cpu = "switched" /\ priority_boost
      \/ state[p] \in {"SLEEPING", "USED"} /\ state'[p] = "RUNNABLE"

\* Levels can be compared.
LEMMA LevelsAreInts == TypeInv => level \in [Procs -> Int]
<1>1. TypeInv => level \in [Procs -> Levels \cup {-1}]
  BY DEF TypeInv, TypeOK
<1>2. \A l \in Levels \cup {-1} : l \in Int
  BY DEF Levels
<1> QED
  BY <1>1, <1>2

\* Processes that become RUNNABLE start at L0, the others keep their level.
LEMMA AddProcLevels ==
  ASSUME LevelInv, NEW S, \A q \in S : state[q] \in {"SLEEPING", "USED"},
         NEW s, \A i \in 1 .. Len(s) : s[i] \in S, add_proc_to_queue(s),
         \A q \in S : state'[q] = "RUNNABLE"
  PROVE  RegainStep /\ FcfsLevels'
<1>1. level \in [Procs -> Int]
  BY LevelsAreInts DEF LevelInv
<1>2. CASE schedule_mode = "FCFS"
  BY <1>1, <1>2 DEF add_proc_to_queue, fieldVars, RegainStep, LevelInv, FcfsLevels
<1>3. CASE schedule_mode # "FCFS"
  <2> DEFINE T == {s[i] : i \in 1 .. Len(s)}
  <2>1. schedule_mode' = schedule_mode
        /\ level' = [q \in Procs |-> IF q \in T THEN 0 ELSE level[q]]
    BY <1>3 DEF add_proc_to_queue
  <2>2. T \subseteq S
    OBVIOUS
  <2> HIDE DEF T
  <2> QED
    BY <1>1, <1>3, <2>1, <2>2 DEF RegainStep, FcfsLevels
<1> QED
  BY <1>2, <1>3

\* my_queueing() never lowers the level of the process that gave up the CPU.
LEMMA MyQueueingLevels ==
  ASSUME LevelInv, NEW p \in Procs, my_queueing(p)
  PROVE  RegainStep /\ FcfsLevels'
<1>1. level \in [Procs -> Int]
  BY LevelsAreInts DEF LevelInv
<1>2. CASE schedule_mode = "FCFS"
  BY <1>1, <1>2 DEF my_queueing, fieldVars, RegainStep, LevelInv, FcfsLevels
<1>3. CASE schedule_mode # "FCFS"
  <2>1. schedule_mode' = schedule_mode /\ level' = [level EXCEPT ![p] = LevelAfter(p)]
    BY <1>3 DEF my_queueing
  <2>2. LevelAfter(p) \in Int /\ LevelAfter(p) >= level[p]
    BY <1>1 DEF LevelAfter
  <2> QED
    BY <1>1, <1>3, <2>1, <2>2 DEF RegainStep, FcfsLevels
<1> QED
  BY <1>2, <1>3

\* Which steps lower a level: one step per action.
THEOREM LevelNext == LevelInv /\ [Next]_vars => RegainStep /\ LevelInv'
<1> SUFFICES ASSUME LevelInv, [Next]_vars PROVE RegainStep /\ FcfsLevels'
  BY TypeNext DEF LevelInv
<1>0. /\ level \in [Procs -> Int]
      /\ state \in [Procs -> States]
      /\ forking \in [Procs -> Procs \cup {None}]
  BY LevelsAreInts DEF LevelInv, TypeInv, TypeOK
<1>b. ASSUME UNCHANGED <<level, schedule_mode>>
      PROVE  RegainStep /\ FcfsLevels'
  BY <1>0, <1>b DEF RegainStep, FcfsLevels, LevelInv
<1>1. CASE my_scheduler
  BY <1>1, <1>b DEF my_scheduler, fieldVars
<1>2. CASE BoostCheck
  <2>1. CASE priority_boost
    <3>1. schedule_mode' = schedule_mode /\ cpu = "switched"
      BY <1>2 DEF BoostCheck
    <3>2. \A q \in Procs : level'[q] = 0
      BY <1>2, <2>1 DEF BoostCheck, priority_boosting, ResetFields
    <3> QED
      BY <2>1, <3>1, <3>2 DEF RegainStep, FcfsLevels
  <2>2. CASE ~priority_boost
    BY <1>2, <2>2, <1>b DEF BoostCheck, fieldVars
  <2> QED
    BY <2>1, <2>2
<1>3. CASE TimerRun
  <2>1. curr \in Procs
    BY <1>3 DEF TimerRun, LevelInv, TypeInv, TypeOK, OneRunning
  <2>2. CASE schedule_mode = "MLFQ"
    BY <1>3, <2>1, <2>2, MyQueueingLevels DEF TimerRun, yield
  <2>3. CASE schedule_mode # "MLFQ"
    BY <1>3, <2>3, <1>b DEF TimerRun, fieldVars, queueVars
  <2> QED
    BY <2>2, <2>3
<1>4. CASE TimerScheduler
  BY <1>4, <1>b DEF TimerScheduler, fieldVars, queueVars
<1>5. ASSUME NEW p \in Procs, sys_yield(p)
      PROVE  RegainStep /\ FcfsLevels'
  BY <1>5, MyQueueingLevels DEF sys_yield, yield
<1>6. ASSUME NEW p \in Procs, NEW c, sleep(p, c)
      PROVE  RegainStep /\ FcfsLevels'
  BY <1>6, <1>b DEF sleep, fieldVars, queueVars
<1>7. ASSUME NEW p \in Procs, WaitReap(p) \/ WaitSleep(p) \/ ForkAlloc(p)
      PROVE  RegainStep /\ FcfsLevels'
  BY <1>6, <1>7, <1>b DEF WaitReap, WaitSleep, ForkAlloc, fieldVars, queueVars
<1>8. ASSUME NEW S, S \subseteq Procs, \A q \in S : state[q] = "SLEEPING",
             \A q \in S : state'[q] = "RUNNABLE",
             NEW s \in TableOrder(S), add_proc_to_queue(s)
      PROVE  RegainStep /\ FcfsLevels'
  <2>1. \A i \in 1 .. Len(s) : s[i] \in S
    BY <1>8, TableOrderEnumerates DEF Enumerates
  <2> QED
    BY <1>8, <2>1, AddProcLevels
<1>9. ASSUME NEW p \in Procs, exit(p)
      PROVE  RegainStep /\ FcfsLevels'
  <2>1. PICK s \in TableOrder(WokenByExit(p)) : add_proc_to_queue(s)
    BY <1>9 DEF exit
  <2>2. \A q \in WokenByExit(p) : q \in Procs /\ state[q] = "SLEEPING"
    BY DEF WokenByExit, SleepingOn
  <2>3. \A q \in WokenByExit(p) : state'[q] = "RUNNABLE"
    BY <1>9, <2>2 DEF exit
  <2> QED
    BY <1>8, <2>1, <2>2, <2>3
<1>10. ASSUME NEW q \in Procs, state[q] \in {"SLEEPING", "USED"},
              state' = [state EXCEPT ![q] = "RUNNABLE"], add_proc_to_queue(<<q>>)
       PROVE  RegainStep /\ FcfsLevels'
  <2>1. \A i \in 1 .. Len(<<q>>) : <<q>>[i] \in {q}
    OBVIOUS
  <2>2. \A r \in {q} : state[r] \in {"SLEEPING", "USED"} /\ state'[r] = "RUNNABLE"
    BY <1>0, <1>10
  <2> QED
    BY <1>10, <2>1, <2>2, AddProcLevels
<1>11. ASSUME NEW p \in Procs, ForkPublish(p)
       PROVE  RegainStep /\ FcfsLevels'
  <2>1. forking[p] \in Procs /\ state[forking[p]] = "USED"
    BY <1>0, <1>11 DEF ForkPublish, LevelInv, TypeInv, ChildStaysUsed
  <2> QED
    BY <1>10, <1>11, <2>1 DEF ForkPublish
<1>12. ASSUME NEW p \in Procs, NEW q \in Procs, kill(p, q)
       PROVE  RegainStep /\ FcfsLevels'
  BY <1>10, <1>12 DEF kill
<1>13. ASSUME NEW c \in IOChans, Wakeup(c)
       PROVE  RegainStep /\ FcfsLevels'
  <2>1. PICK s \in TableOrder(SleepingOn(c)) : add_proc_to_queue(s)
    BY <1>13 DEF Wakeup, wakeup
  <2>2. \A q \in SleepingOn(c) : q \in Procs /\ state[q] = "SLEEPING"
    BY DEF SleepingOn
  <2>3. \A q \in SleepingOn(c) : state'[q] = "RUNNABLE"
    BY <1>13, <2>2 DEF Wakeup, wakeup
  <2> QED
    BY <1>8, <2>1, <2>2, <2>3
<1>14. ASSUME NEW p \in Procs, NEW n, SetPrioritySelf(p, n)
       PROVE  RegainStep /\ FcfsLevels'
  BY <1>14, <1>b DEF SetPrioritySelf, queueVars
<1>15. ASSUME NEW p \in Procs, NEW q, NEW n, SetPriorityOther(p, q, n)
       PROVE  RegainStep /\ FcfsLevels'
  BY <1>15, <1>b DEF SetPriorityOther, queueVars
<1>16. ASSUME NEW p \in Procs, sys_fcfsmode(p)
       PROVE  RegainStep /\ FcfsLevels'
  BY <1>16 DEF sys_fcfsmode, RegainStep, FcfsLevels
<1>17. ASSUME NEW p \in Procs, sys_mlfqmode(p)
       PROVE  RegainStep /\ FcfsLevels'
  <2>1. \A q \in Procs : level[q] <= 0 /\ level'[q] = 0
    BY <1>17 DEF sys_mlfqmode, ResetFields, LevelInv, FcfsLevels
  <2>2. schedule_mode' = "MLFQ"
    BY <1>17 DEF sys_mlfqmode
  <2> QED
    BY <1>0, <2>1, <2>2 DEF RegainStep, FcfsLevels
<1>18. ASSUME NEW why, Stop(why)
       PROVE  RegainStep /\ FcfsLevels'
  BY <1>18, <1>b DEF Stop, fieldVars, queueVars
<1>19. CASE UNCHANGED vars
  BY <1>19, <1>b DEF vars, fieldVars, queueVars
<1> QED
  BY <1>1, <1>2, <1>3, <1>4, <1>5, <1>6, <1>7, <1>9, <1>11, <1>12, <1>13,
     <1>14, <1>15, <1>16, <1>17, <1>18, <1>19
  DEF Next, TimerPanic, ScanPanic, SchedPanic, Halted

\* Between boosts and within MLFQ mode, only a process that slept or is new gets
\* back to a lower level, for any number of processes and any boost period.
THEOREM LevelRegainedCorrect == Spec => LevelRegained
<1>1. Init => LevelInv
  BY TypeInit DEF LevelInv, FcfsLevels, Init
<1>2. LevelInv /\ [Next]_vars => [RegainStep]_vars
  BY LevelNext
<1> QED
  BY <1>1, <1>2, LevelNext, PTL DEF Spec, LevelRegained, RegainStep

-----------------------------------------------------------------------------
(* Which process is dispatched.                                            *)

\* What DispatchesBest says of one step.
DispatchStep ==
  cpu = "loop" /\ cpu' = "run" /\ schedule_mode = "MLFQ" =>
    \A q \in Runnable :
      \/ level[q] > level[curr']
      \/ level[q] = level[curr'] /\ (level[q] = 2 => priority[q] <= priority[curr'])

\* A round of the scheduler: the levels below the one served are empty, so every
\* RUNNABLE process is queued at that level or above it.
LEMMA DispatchNext == QueueInv /\ [Next]_vars => DispatchStep
<1> SUFFICES ASSUME QueueInv, [Next]_vars,
                    cpu = "loop", cpu' = "run", schedule_mode = "MLFQ",
                    NEW q \in Runnable
             PROVE  \/ level[q] > level[curr']
                    \/ /\ level[q] = level[curr']
                       /\ level[q] = 2 => priority[q] <= priority[curr']
  BY DEF DispatchStep
<1>1. my_scheduler
  BY DEF Next, vars, cpuVars, BoostCheck, TimerRun, TimerScheduler, sys_yield, Running, sleep,
         WaitReap, WaitSleep, exit, ForkAlloc, ForkPublish, kill, SetPrioritySelf,
         SetPriorityOther, sys_fcfsmode, sys_mlfqmode, SchedPanic, Wakeup, TimerPanic,
         ScanPanic, Halted, Stop
<1>2. select_with_mlfq
  BY <1>1 DEF my_scheduler, select_with_fcfs
<1>3. PICK l \in Levels : /\ \A k \in Levels : k < l => mlfq[k] = <<>>
                          /\ \E i \in 1 .. Len(mlfq[l]) :
                               pop(l, i) /\ my_switching(mlfq[l][i])
  BY <1>2 DEF select_with_mlfq
<1>4. PICK i \in 1 .. Len(mlfq[l]) : pop(l, i) /\ my_switching(mlfq[l][i])
  BY <1>3
<1>5. \A k \in Levels : Enumerates(mlfq[k], RunnableAt(k))
  BY DEF QueueInv, RunnableQueuedOnce, RunnableAt
<1>6. mlfq[l][i] \in RunnableAt(l)
  BY <1>5 DEF Enumerates
<1>7. curr' = mlfq[l][i] /\ level[curr'] = l
  BY <1>4, <1>6 DEF my_switching, RunnableAt, Runnable
<1>8. level[q] \in Levels
  BY SlotSets DEF QueueInv, TypeInv, QuantumInRange
<1>9. PICK j \in 1 .. Len(mlfq[level[q]]) : mlfq[level[q]][j] = q
  BY <1>5, <1>8 DEF Enumerates, RunnableAt
<1>10. ~(level[q] < l)
  BY <1>3, <1>8, <1>9, EmptySeq
<1>11. level[q] > l \/ level[q] = l
  BY <1>8, <1>10 DEF Levels
<1>12. ASSUME level[q] = l, l = 2 PROVE priority[q] <= priority[curr']
  BY <1>4, <1>7, <1>9, <1>12 DEF pop, L2_pop
<1> QED
  BY <1>7, <1>11, <1>12

\* In MLFQ mode the CPU always goes to a RUNNABLE process of the lowest level
\* and, in L2, of the highest priority, whatever setpriority(), boosts, wakeups
\* and mode changes did since it was queued.
THEOREM DispatchesBestCorrect == Spec => DispatchesBest
<1>1. Spec => []QueueInv
  <2>1. TypeInv /\ RunnableQueuedOnce => QueueInv
    BY DEF QueueInv
  <2> QED
    BY <2>1, TypeInvCorrect, QueuesCorrect, PTL
<1>2. QueueInv /\ [Next]_vars => [DispatchStep]_vars
  BY DispatchNext
<1> QED
  BY <1>1, <1>2, PTL DEF Spec, DispatchesBest, DispatchStep

-----------------------------------------------------------------------------
(* FCFS order.                                                             *)

\* What NeverOvertaken says of one step.
OrderStep ==
  schedule_mode = "FCFS" =>
    \A p, q \in Procs :
      Ahead(fcfs, p, q) =>
        \/ curr' = p
        \/ Ahead(IF schedule_mode' = "FCFS" THEN fcfs' ELSE mlfq'[0], p, q)

\* Pushing keeps the order of what is in the queue.
LEMMA PushKeepsOrder ==
  ASSUME NEW f \in Seq(Procs), NEW s \in Seq(Procs), NEW p, NEW q, Ahead(f, p, q)
  PROVE  Ahead(f \o s, p, q)
<1>1. /\ Len(f) \in Nat /\ Len(s) \in Nat
      /\ Len(f \o s) = Len(f) + Len(s)
      /\ \A i \in 1 .. Len(f) + Len(s) :
           (f \o s)[i] = IF i <= Len(f) THEN f[i] ELSE s[i - Len(f)]
  BY ConcatProperties, LenProperties
<1>2. PICK i \in 1 .. Len(f), j \in 1 .. Len(f) : i < j /\ f[i] = p /\ f[j] = q
  BY DEF Ahead
<1>3. i \in 1 .. Len(f \o s) /\ j \in 1 .. Len(f \o s)
      /\ (f \o s)[i] = p /\ (f \o s)[j] = q
  BY <1>1, <1>2
<1> QED
  BY <1>2, <1>3 DEF Ahead

\* So does taking the first entry, for those behind it.
LEMMA PopKeepsOrder ==
  ASSUME NEW f \in Seq(Procs), NEW p, NEW q, Ahead(f, p, q)
  PROVE  f[1] = p \/ Ahead(RemoveAt(f, 1), p, q)
<1>1. PICK i \in 1 .. Len(f), j \in 1 .. Len(f) : i < j /\ f[i] = p /\ f[j] = q
  BY DEF Ahead
<1>2. CASE i = 1
  BY <1>1, <1>2
<1>3. CASE i # 1
  <2> DEFINE r == RemoveAt(f, 1)
  <2>1. Len(f) \in Nat /\ Len(f) - 1 \in Nat
    BY <1>1, LenProperties
  <2>2. Len(r) = Len(f) - 1 /\ \A k \in 1 .. Len(f) - 1 : r[k] = f[k + 1]
    BY <2>1 DEF RemoveAt
  <2> HIDE DEF r
  <2>3. /\ i - 1 \in 1 .. Len(r) /\ j - 1 \in 1 .. Len(r) /\ i - 1 < j - 1
        /\ r[i - 1] = p /\ r[j - 1] = q
    BY <1>1, <1>3, <2>1, <2>2
  <2> QED
    BY <2>3 DEF Ahead, r
<1> QED
  BY <1>2, <1>3

\* And so does the copy that mlfqmode() makes of all of fcfs.
LEMMA CopyKeepsOrder ==
  ASSUME NEW f \in Seq(Procs), NEW S, \A i \in 1 .. Len(f) : f[i] \in S,
         NEW s \in EntriesIn(f, S), NEW p, NEW q, Ahead(f, p, q)
  PROVE  Ahead(s, p, q)
<1> DEFINE I == {i \in 1 .. Len(f) : f[i] \in S}
<1>1. PICK g \in TableOrder(I) : s = [k \in 1 .. Cardinality(I) |-> f[g[k]]]
  BY DEF EntriesIn
<1>2. I = 1 .. Len(f) /\ Len(f) \in Nat
  BY LenProperties
<1>3. Cardinality(I) \in Nat
  <2>1. IsFiniteSet(1 .. Len(f))
    BY <1>2, FS_Interval
  <2>2. Cardinality(1 .. Len(f)) \in Nat
    BY <2>1, FS_CardinalityType
  <2> QED
    BY <1>2, <2>2
<1> DEFINE n == Cardinality(I)
<1>4. /\ g \in [1 .. n -> 1 .. Len(f)]
      /\ \A a, b \in 1 .. n : a < b => g[a] < g[b]
      /\ \A x \in 1 .. Len(f) : \E k \in 1 .. n : g[k] = x
  BY <1>2 DEF TableOrder
<1>5. n \in Nat /\ Len(s) = n /\ \A k \in 1 .. n : s[k] = f[g[k]]
  BY <1>1, <1>3
<1> HIDE DEF n, I
<1>6. PICK i \in 1 .. Len(f), j \in 1 .. Len(f) : i < j /\ f[i] = p /\ f[j] = q
  BY DEF Ahead
<1>7. PICK a \in 1 .. n : g[a] = i
  BY <1>4
<1>8. PICK b \in 1 .. n : g[b] = j
  BY <1>4
<1>9. a < b
  <2>1. ~(b < a) /\ a # b
    BY <1>2, <1>4, <1>6, <1>7, <1>8
  <2> QED
    BY <1>5, <2>1
<1> QED
  BY <1>5, <1>6, <1>7, <1>8, <1>9 DEF Ahead

\* One step per way to change fcfs while it is in use.
LEMMA OrderNext == QueueInv /\ [Next]_vars => OrderStep
<1> SUFFICES ASSUME QueueInv, [Next]_vars, schedule_mode = "FCFS",
                    NEW p \in Procs, NEW q \in Procs, Ahead(fcfs, p, q)
             PROVE  \/ curr' = p
                    \/ Ahead(IF schedule_mode' = "FCFS" THEN fcfs' ELSE mlfq'[0], p, q)
  BY DEF OrderStep
<1>0. /\ fcfs \in Seq(Procs) /\ Enumerates(fcfs, Runnable)
      /\ state \in [Procs -> States] /\ forking \in [Procs -> Procs \cup {None}]
      /\ \A r \in Procs : (state[r] = "RUNNING") <=> (curr = r)
      /\ \A r \in Procs : forking[r] # None => state[forking[r]] = "USED"
      /\ Runnable \subseteq Procs
  BY SlotSets DEF QueueInv, TypeInv, TypeOK, OneRunning, ChildStaysUsed, RunnableQueuedOnce
<1> DEFINE Goal == \/ curr' = p
                   \/ Ahead(IF schedule_mode' = "FCFS" THEN fcfs' ELSE mlfq'[0], p, q)
<1>a. ASSUME UNCHANGED <<schedule_mode, fcfs>> PROVE Goal
  BY <1>a
<1>b. ASSUME NEW S, S \subseteq Procs, S \cap Runnable = {},
             NEW s \in Seq(Procs), Enumerates(s, S),
             schedule_mode' = schedule_mode, fcfs' = queue_push(fcfs, s)
      PROVE  Goal
  <2>1. fcfs' = fcfs \o s
    BY <1>0, <1>b, PushEnumerates, ZenonT(60)
  <2> QED
    BY <1>0, <1>b, <2>1, PushKeepsOrder
<1> HIDE DEF Goal
<1>c. ASSUME NEW r \in Procs, r \notin Runnable, my_queueing(r)
      PROVE  Goal
  <2>1. schedule_mode' = schedule_mode /\ fcfs' = queue_push(fcfs, <<r>>)
    BY <1>c DEF my_queueing
  <2>2. {r} \subseteq Procs /\ {r} \cap Runnable = {} /\ <<r>> \in Seq(Procs)
        /\ Enumerates(<<r>>, {r})
    BY <1>c, SingletonEnumerates
  <2> QED
    BY <2>1, <2>2, <1>b
<1>d. ASSUME NEW S, S \subseteq Procs, S \cap Runnable = {},
             NEW s \in Seq(Procs), Enumerates(s, S), add_proc_to_queue(s)
      PROVE  Goal
  BY <1>b, <1>d DEF add_proc_to_queue
<1>1. CASE my_scheduler
  <2>1. /\ schedule_mode' = "FCFS" /\ fcfs # <<>> /\ my_switching(fcfs[1])
        /\ fcfs' = RemoveAt(fcfs, 1)
    BY <1>1 DEF my_scheduler, select_with_fcfs, select_with_mlfq
  <2>2. fcfs[1] \in Runnable
    BY <1>0, <2>1, EmptySeq, LenProperties DEF Enumerates
  <2>3. curr' = fcfs[1]
    BY <2>1, <2>2 DEF my_switching, Runnable
  <2> QED
    BY <1>0, <2>1, <2>3, PopKeepsOrder DEF Goal
<1>2. CASE BoostCheck
  BY <1>2, <1>a DEF BoostCheck
<1>3. CASE TimerRun \/ TimerScheduler
  BY <1>3, <1>a DEF TimerRun, TimerScheduler, queueVars
<1>4. ASSUME NEW r \in Procs, sys_yield(r)
      PROVE  Goal
  <2>1. r \notin Runnable
    BY <1>0, <1>4 DEF sys_yield, Running, Runnable
  <2> QED
    BY <1>4, <1>c, <2>1 DEF sys_yield, yield
<1>5. ASSUME NEW r \in Procs, NEW c, sleep(r, c)
      PROVE  Goal
  BY <1>5, <1>a DEF sleep, queueVars
<1>6. ASSUME NEW r \in Procs, WaitReap(r) \/ WaitSleep(r) \/ ForkAlloc(r)
      PROVE  Goal
  BY <1>5, <1>6, <1>a DEF WaitReap, WaitSleep, ForkAlloc, queueVars
<1>7. ASSUME NEW r \in Procs, exit(r)
      PROVE  Goal
  <2>1. PICK s \in TableOrder(WokenByExit(r)) : add_proc_to_queue(s)
    BY <1>7 DEF exit
  <2>2. WokenByExit(r) \cap Runnable = {} /\ WokenByExit(r) \subseteq Procs
    BY SlotSets DEF WokenByExit, SleepingOn, Runnable
  <2> QED
    BY <1>d, <2>1, <2>2, TableOrderEnumerates
<1>8. ASSUME NEW r \in Procs, r \notin Runnable, add_proc_to_queue(<<r>>)
      PROVE  Goal
  <2>1. {r} \subseteq Procs /\ {r} \cap Runnable = {} /\ <<r>> \in Seq(Procs)
        /\ Enumerates(<<r>>, {r})
    BY <1>8, SingletonEnumerates
  <2> QED
    BY <1>8, <1>d, <2>1
<1>9. ASSUME NEW r \in Procs, ForkPublish(r)
      PROVE  Goal
  <2>1. forking[r] \in Procs /\ forking[r] \notin Runnable
    BY <1>0, <1>9 DEF ForkPublish, Runnable
  <2> QED
    BY <1>8, <1>9, <2>1 DEF ForkPublish
<1>10. ASSUME NEW r \in Procs, NEW v \in Procs, kill(r, v)
       PROVE  Goal
  BY <1>8, <1>10 DEF kill, Runnable
<1>11. ASSUME NEW c \in IOChans, Wakeup(c)
       PROVE  Goal
  <2>1. PICK s \in TableOrder(SleepingOn(c)) : add_proc_to_queue(s)
    BY <1>11 DEF Wakeup, wakeup
  <2>2. SleepingOn(c) \cap Runnable = {} /\ SleepingOn(c) \subseteq Procs
    BY DEF SleepingOn, Runnable
  <2> QED
    BY <1>d, <2>1, <2>2, TableOrderEnumerates
<1>12. ASSUME NEW r \in Procs, NEW n, SetPrioritySelf(r, n)
       PROVE  Goal
  BY <1>12, <1>a DEF SetPrioritySelf, queueVars
<1>13. ASSUME NEW r \in Procs, NEW v, NEW n, SetPriorityOther(r, v, n)
       PROVE  Goal
  BY <1>13, <1>a DEF SetPriorityOther, queueVars
<1>14. ASSUME NEW r \in Procs, sys_fcfsmode(r)
       PROVE  Goal
  BY <1>14 DEF sys_fcfsmode
<1>15. ASSUME NEW r \in Procs, sys_mlfqmode(r)
       PROVE  Goal
  <2>1. PICK s \in EntriesIn(fcfs, Runnable) : RefillL0(s)
    BY <1>15 DEF sys_mlfqmode, MovedToL0
  <2>2. mlfq'[0] = s /\ schedule_mode' # "FCFS"
    BY <1>15, <2>1 DEF RefillL0, Levels, sys_mlfqmode
  <2>3. \A i \in 1 .. Len(fcfs) : fcfs[i] \in Runnable
    BY <1>0 DEF Enumerates
  <2> QED
    <3>1. Ahead(s, p, q)
      BY <1>0, <2>1, <2>3, CopyKeepsOrder
    <3> QED
      BY <2>2, <3>1 DEF Goal
<1>16. ASSUME NEW why, Stop(why)
       PROVE  Goal
  BY <1>16, <1>a DEF Stop, queueVars
<1>17. CASE UNCHANGED vars
  BY <1>17, <1>a DEF vars, queueVars
<1> QED
  BY <1>1, <1>2, <1>3, <1>4, <1>5, <1>6, <1>7, <1>9, <1>10, <1>11, <1>12,
     <1>13, <1>14, <1>15, <1>16, <1>17
  DEF Goal, Next, TimerPanic, ScanPanic, SchedPanic, Halted

\* First come, first served: who waits ahead of q in FCFS mode is dispatched
\* before q or is still ahead of it, also across the change to MLFQ mode.
THEOREM NeverOvertakenCorrect == Spec => NeverOvertaken
<1>1. Spec => []QueueInv
  <2>1. TypeInv /\ RunnableQueuedOnce => QueueInv
    BY DEF QueueInv
  <2> QED
    BY <2>1, TypeInvCorrect, QueuesCorrect, PTL
<1>2. QueueInv /\ [Next]_vars => [OrderStep]_vars
  BY OrderNext
<1> QED
  BY <1>1, <1>2, PTL DEF Spec, NeverOvertaken, OrderStep

-----------------------------------------------------------------------------
(* The arrays of the queues, one of them as RingQueue with the slots of    *)
(* the process table as its elements.                                      *)

VARIABLES ring_p, ring_s, ring_e, ring_L2

Ring == INSTANCE RingQueue
          WITH Elems <- Procs, Null <- None, p <- ring_p, s <- ring_s, e <- ring_e, IsL2 <- ring_L2

\* The assumptions of RingQueue.
LEMMA RingLength == QNUM \in Nat /\ 1 < QNUM
BY NPROCAssumption, QNUMAssumption

LEMMA NoneIsNoSlot == None \notin Procs
BY NPROCAssumption DEF None, Procs

\* Indices and array keep their types.
LEMMA RingTypeNext == Ring!TypeOK /\ [Ring!Next]_(Ring!vars) => Ring!TypeOK'
<1> SUFFICES ASSUME Ring!TypeOK, [Ring!Next]_(Ring!vars) PROVE Ring!TypeOK'
  OBVIOUS
<1> USE RingLength
<1>1. CASE Ring!init_my_mlfq
  BY <1>1 DEF Ring!TypeOK, Ring!init_my_mlfq, Ring!Index
<1>2. ASSUME NEW x \in Procs, Ring!queue_push(x) PROVE Ring!TypeOK'
  BY <1>2 DEF Ring!TypeOK, Ring!queue_push, Ring!Index, Ring!Masked
<1>3. ASSUME NEW x \in Procs, Ring!L2_push(x) PROVE Ring!TypeOK'
  BY <1>3 DEF Ring!TypeOK, Ring!L2_push, Ring!Index
<1>4. CASE Ring!queue_pop
  BY <1>4 DEF Ring!TypeOK, Ring!queue_pop, Ring!Index, Ring!Masked
<1>5. ASSUME NEW i \in Ring!Index, Ring!L2_pop(i) PROVE Ring!TypeOK'
  <2>1. Ring!Shifted(i) \in [Ring!Index -> Procs \cup {None}]
    BY <1>5 DEF Ring!TypeOK, Ring!L2_pop, Ring!Index, Ring!Shifted
  <2>2. ring_e - 1 \in Ring!Index
    BY <1>5 DEF Ring!TypeOK, Ring!L2_pop, Ring!Index
  <2> QED
    BY <1>5, <2>1, <2>2 DEF Ring!TypeOK, Ring!L2_pop
<1>6. CASE UNCHANGED Ring!vars
  BY <1>6 DEF Ring!TypeOK, Ring!vars
<1> QED
  BY <1>1, <1>2, <1>3, <1>4, <1>5, <1>6 DEF Ring!Next

\* s and e never leave the array, whatever is pushed and popped.
THEOREM RingTypes == Ring!Spec => []Ring!TypeOK
<1>1. Ring!Init => Ring!TypeOK
  BY RingLength, NoneIsNoSlot DEF Ring!Init, Ring!TypeOK, Ring!Index
<1> QED
  BY <1>1, RingTypeNext, PTL DEF Ring!Spec

\* The entries of a queue form a sequence shorter than the array.
LEMMA ContentsType ==
  ASSUME Ring!TypeOK
  PROVE  /\ Ring!Count \in 0 .. QNUM - 1
         /\ Len(Ring!Contents) = Ring!Count
         /\ \A i \in 1 .. Ring!Count : Ring!At(i) \in Ring!Index
<1> USE RingLength
<1>1. Ring!Count \in 0 .. QNUM - 1
  BY DEF Ring!TypeOK, Ring!Count, Ring!Index
<1>2. Len(Ring!Contents) = Ring!Count
  BY <1>1 DEF Ring!Contents
<1>3. \A i \in 1 .. Ring!Count : Ring!At(i) \in Ring!Index
  BY <1>1 DEF Ring!TypeOK, Ring!Count, Ring!Index, Ring!At
<1> QED
  BY <1>1, <1>2, <1>3

\* A push of either kind appends, unless it fills the array.
LEMMA PushRefines ==
  ASSUME Ring!TypeOK, NEW x \in Procs, Ring!queue_push(x) \/ Ring!L2_push(x)
  PROVE  Ring!F!Push(x)
<1> USE RingLength
<1>1. /\ ring_p' = [ring_p EXCEPT ![ring_e] = x]
      /\ ring_e' = Ring!Masked(ring_e + 1)
      /\ ring_s' = ring_s
  BY DEF Ring!queue_push, Ring!L2_push, Ring!Masked, Ring!TypeOK, Ring!Index
<1>2. ring_e \in Ring!Index /\ ring_s \in Ring!Index
  BY DEF Ring!TypeOK
<1>3. CASE Ring!Count + 1 < QNUM
  <2>1. Ring!Count' = Ring!Count + 1
    BY <1>1, <1>2, <1>3 DEF Ring!Count, Ring!Masked, Ring!Index
  <2>2. Ring!At(Ring!Count + 1) = ring_e
    BY <1>2, <1>3 DEF Ring!Count, Ring!At, Ring!Index
  <2>3. \A i \in 1 .. Ring!Count : Ring!At(i) # ring_e
    BY <1>2, <1>3 DEF Ring!Count, Ring!At, Ring!Index
  <2>4. \A i \in 1 .. Ring!Count + 1 : Ring!At(i)' = Ring!At(i)
    BY <1>1 DEF Ring!At
  <2>5. \A i \in 1 .. Ring!Count : ring_p'[Ring!At(i)] = ring_p[Ring!At(i)]
    BY <1>1, <2>3, ContentsType DEF Ring!TypeOK
  <2>6. ring_p'[ring_e] = x
    BY <1>1, <1>2 DEF Ring!TypeOK
  <2>7. Ring!Contents' = [i \in 1 .. Ring!Count + 1 |-> ring_p'[Ring!At(i)]]
    BY <2>1, <2>4 DEF Ring!Contents
  <2>8. Append(Ring!Contents, x) =
          [i \in 1 .. Ring!Count + 1 |-> IF i = Ring!Count + 1 THEN x ELSE ring_p[Ring!At(i)]]
    BY ContentsType DEF Ring!Contents
  <2>9. \A i \in 1 .. Ring!Count + 1 :
          ring_p'[Ring!At(i)] = IF i = Ring!Count + 1 THEN x ELSE ring_p[Ring!At(i)]
    BY <2>2, <2>5, <2>6, ContentsType
  <2>10. Ring!Contents' = Append(Ring!Contents, x)
    BY <2>7, <2>8, <2>9
  <2> QED
    BY <1>3, <2>10, ContentsType DEF Ring!F!Push
<1>4. CASE ~ (Ring!Count + 1 < QNUM)
  <2>1. Ring!Count' = 0
    BY <1>1, <1>2, <1>4, ContentsType DEF Ring!Count, Ring!Masked, Ring!Index
  <2>2. Ring!Contents' = <<>>
    BY <2>1 DEF Ring!Contents
  <2> QED
    BY <1>4, <2>2, ContentsType DEF Ring!F!Push
<1> QED
  BY <1>3, <1>4

\* queue_pop() takes the oldest entry.
LEMMA PopRefines ==
  ASSUME Ring!TypeOK, Ring!queue_pop
  PROVE  1 \in 1 .. Len(Ring!Contents) /\ Ring!F!PopAt(1)
<1> USE RingLength
<1>1. /\ ring_p' = ring_p
      /\ ring_e' = ring_e
      /\ ring_s' = Ring!Masked(ring_s + 1)
      /\ ring_s # ring_e
  BY DEF Ring!queue_pop
<1>2. ring_e \in Ring!Index /\ ring_s \in Ring!Index
  BY DEF Ring!TypeOK
<1>3. Ring!Count > 0 /\ Ring!Count' = Ring!Count - 1
  BY <1>1, <1>2 DEF Ring!Count, Ring!Masked, Ring!Index
<1>4. \A j \in 1 .. Ring!Count - 1 : Ring!At(j)' = Ring!At(j + 1)
  BY <1>1, <1>2 DEF Ring!Count, Ring!Masked, Ring!Index, Ring!At
<1>5. \A j \in 1 .. Ring!Count - 1 : ~ (j < 1) /\ j + 1 \in 1 .. Ring!Count
  BY ContentsType
<1>6. \A j \in 1 .. Ring!Count - 1 : Ring!Contents[j + 1] = ring_p[Ring!At(j + 1)]
  BY <1>5 DEF Ring!Contents
<1>7. Ring!Contents' = [j \in 1 .. Ring!Count - 1 |-> ring_p[Ring!At(j + 1)]]
  BY <1>1, <1>3, <1>4 DEF Ring!Contents
<1>8. Ring!Contents' = [j \in 1 .. Ring!Count - 1 |->
                     IF j < 1 THEN Ring!Contents[j] ELSE Ring!Contents[j + 1]]
  BY <1>5, <1>6, <1>7
<1> QED
  BY <1>3, <1>8, ContentsType DEF Ring!F!PopAt

\* The swaps of L2_pop() close the gap.
LEMMA L2PopRefines ==
  ASSUME Ring!TypeOK, NEW i \in Ring!Index, Ring!L2_pop(i)
  PROVE  i + 1 \in 1 .. Len(Ring!Contents) /\ Ring!F!PopAt(i + 1)
<1> USE RingLength
<1>1. /\ ring_p' = Ring!Shifted(i)
      /\ ring_e' = ring_e - 1
      /\ ring_s' = 0
      /\ ring_s = 0
      /\ i < ring_e
  BY DEF Ring!L2_pop, Ring!TypeOK
<1>2. ring_e \in Ring!Index
  BY DEF Ring!TypeOK
<1>3. Ring!Count = ring_e /\ Ring!Count' = ring_e - 1
  BY <1>1, <1>2 DEF Ring!Count, Ring!Index
<1>4. \A j \in 1 .. ring_e : Ring!At(j) = j - 1 /\ Ring!At(j)' = j - 1
  BY <1>1, <1>2 DEF Ring!At, Ring!Index
<1>5. \A j \in 1 .. ring_e - 1 : Ring!Shifted(i)[j - 1] = IF j < i + 1 THEN ring_p[j - 1] ELSE ring_p[j]
  BY <1>1, <1>2 DEF Ring!Shifted, Ring!Index
<1>6. Ring!Contents = [j \in 1 .. ring_e |-> ring_p[j - 1]]
  BY <1>3, <1>4 DEF Ring!Contents
<1>7. Ring!Contents' = [j \in 1 .. ring_e - 1 |-> Ring!Shifted(i)[j - 1]]
  <2>1. \A j \in 1 .. ring_e - 1 : Ring!At(j)' = j - 1
    BY <1>2, <1>4 DEF Ring!Index
  <2> QED
    BY <1>1, <1>3, <2>1 DEF Ring!Contents
<1>8. \A j \in 1 .. ring_e - 1 : Ring!Contents[j] = ring_p[j - 1] /\ Ring!Contents[j + 1] = ring_p[j]
  BY <1>2, <1>6 DEF Ring!Index
<1>9. Ring!Contents' = [j \in 1 .. ring_e - 1 |->
                     IF j < i + 1 THEN Ring!Contents[j] ELSE Ring!Contents[j + 1]]
  BY <1>5, <1>7, <1>8
<1> QED
  BY <1>1, <1>2, <1>3, <1>9, ContentsType DEF Ring!F!PopAt, Ring!Index

\* The ring and the L2 array implement the sequence of processes that the
\* scheduler's model works with, for every QNUM and every number of processes.
THEOREM RingImplementsFifo == Ring!Spec => Ring!ImplementsFifo
<1>1. Ring!Init => Ring!F!Init
  <2>1. Ring!Init => Ring!Count = 0
    BY DEF Ring!Init, Ring!Count
  <2> QED
    BY <2>1 DEF Ring!F!Init, Ring!Contents
<1>2. Ring!TypeOK /\ [Ring!Next]_(Ring!vars) => [Ring!F!Next]_(Ring!Contents)
  <2> SUFFICES ASSUME Ring!TypeOK, [Ring!Next]_(Ring!vars) PROVE [Ring!F!Next]_(Ring!Contents)
    OBVIOUS
  <2>1. CASE Ring!init_my_mlfq
    <3>1. Ring!Contents' = <<>>
      <4>1. Ring!Count' = 0
        BY <2>1 DEF Ring!init_my_mlfq, Ring!Count
      <4> QED
        BY <4>1 DEF Ring!Contents
    <3> QED
      BY <3>1 DEF Ring!F!Next, Ring!F!Clear
  <2>2. ASSUME NEW x \in Procs, Ring!queue_push(x) \/ Ring!L2_push(x) PROVE Ring!F!Next
    BY <2>2, PushRefines DEF Ring!F!Next
  <2>3. CASE Ring!queue_pop
    BY <2>3, PopRefines DEF Ring!F!Next
  <2>4. ASSUME NEW i \in Ring!Index, Ring!L2_pop(i) PROVE Ring!F!Next
    BY <2>4, L2PopRefines DEF Ring!F!Next
  <2>5. CASE UNCHANGED Ring!vars
    <3>1. Ring!Count' = Ring!Count /\ ring_p' = ring_p /\ ring_s' = ring_s
      BY <2>5 DEF Ring!vars, Ring!Count
    <3>2. \A i : Ring!At(i)' = Ring!At(i)
      BY <3>1 DEF Ring!At
    <3> QED
      BY <3>1, <3>2 DEF Ring!Contents
  <2> QED
    BY <2>1, <2>2, <2>3, <2>4, <2>5 DEF Ring!Next
<1> QED
  BY <1>1, <1>2, RingTypes, PTL DEF Ring!Spec, Ring!ImplementsFifo, Ring!F!Spec
=============================================================================
