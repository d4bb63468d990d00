-------------------------------- MODULE MLFQ --------------------------------
(***************************************************************************)
(* The process scheduler of src/scheduler/kernel: my_proc.c (FCFS and      *)
(* three-level feedback queues), with the parts of proc.c and trap.c that  *)
(* move processes between states and queues.                               *)
(*                                                                         *)
(* The kernel runs on one CPU (CPUS := 1 in the Makefile).  A CPU holding  *)
(* a spinlock has its interrupts off, so a stretch of code that holds some *)
(* spinlock throughout is one atomic step; between two such stretches the  *)
(* timer or a device may interrupt.  Queues are sequences of slots of      *)
(* proc[]; RingQueue shows that the arrays with s and e behave like that.  *)
(***************************************************************************)
EXTENDS Integers, Sequences, FiniteSets

CONSTANTS
  NPROC,           \* slots of the process table (64)
  QNUM,            \* length of a queue's array (128)
  MaxPriority,     \* highest L2 priority (3)
  BoostPeriod,     \* ticks between two priority boosts (50)
  IOChans,         \* channels a process sleeps on until a device or a
                   \* process calls wakeup: buffers, pipes, the log, ...
  Ticks,           \* &ticks, the channel sys_sleep() sleeps on
  Workloads,       \* what happens: sets of the system calls that programs make, of
                   \* "fcfsfork" (also in FCFS mode) and of "latetick" (see below)
  MaxWindowTicks   \* bound: timer interrupts between two dispatches while some
                   \* process is RUNNABLE, if there are such late ones at all

Procs  == 1 .. NPROC
Levels == 0 .. 2
None   == 0
initproc == 1      \* userinit() takes the first slot of the table

ASSUME NPROCAssumption == NPROC \in Nat \ {0}
ASSUME QNUMAssumption == QNUM \in Nat /\ NPROC < QNUM
ASSUME MaxPriorityAssumption == MaxPriority \in Nat
ASSUME BoostPeriodAssumption == BoostPeriod \in Nat \ {0}
ASSUME ChansAssumption == Ticks \notin IOChans /\ (IOChans \cup {Ticks}) \cap Int = {}
ASSUME MaxWindowTicksAssumption == MaxWindowTicks \in Nat

States == {"UNUSED", "USED", "SLEEPING", "RUNNABLE", "RUNNING", "ZOMBIE"}
Chans  == {None} \cup Procs \cup IOChans \cup {Ticks}

VARIABLES
  state, chan, parent,             \* struct proc, per slot
  level, priority, time_quantum,   \* struct proc, per slot
  forking,         \* np in p's activation of fork(), between its two halves
  schedule_mode, fcfs, mlfq,       \* the queues
  curr,            \* c->proc
  cpu,             \* where the CPU is: "run" a process, "switched" back to
                   \* my_switching(), at the top of my_scheduler()'s "loop"
  ticks,           \* the tick counter modulo BoostPeriod
  priority_boost,
  windowTicks,     \* ticks since the CPU left the last process
  leaked,          \* processes whose p->lock was never released
  panicked,        \* "none", or the argument of panic()
  calls            \* the element of Workloads this behaviour is about

procVars  == <<state, chan, parent, forking>>
fieldVars == <<level, priority, time_quantum>>
queueVars == <<schedule_mode, fcfs, mlfq>>
cpuVars   == <<curr, cpu, windowTicks>>
tickVars  == <<ticks, priority_boost>>
failVars  == <<leaked, panicked, calls>>
vars == <<procVars, fieldVars, queueVars, cpuVars, tickVars, failVars>>

-----------------------------------------------------------------------------
(* Queues.                                                                 *)

\* The slots in S in the order in which a loop over proc[] meets them.
TableOrder(S) ==
  {s \in [1 .. Cardinality(S) -> S] :
     /\ \A i, j \in 1 .. Cardinality(S) : i < j => s[i] < s[j]
     /\ \A x \in S : \E i \in 1 .. Cardinality(S) : s[i] = x}

\* The entries of q that lie in S, in the order of q.
EntriesIn(q, S) ==
  LET I == {i \in 1 .. Len(q) : q[i] \in S}
  IN  {[k \in 1 .. Cardinality(I) |-> q[f[k]]] : f \in TableOrder(I)}

\* queue_push() of every element of s.  Once QNUM entries are in, e meets s
\* and the ring counts as empty: the first QNUM entries are lost.
queue_push(q, s) ==
  LET t == q \o s
  IN  IF Len(t) < QNUM THEN t ELSE SubSeq(t, QNUM + 1, Len(t))

\* L2_push(): the array grows, it is no ring.
L2_push(q, p) == Append(q, p)

\* push(mlfq + l, p).
push(l, p) ==
  [mlfq EXCEPT ![l] = IF l = 2 THEN L2_push(@, p) ELSE queue_push(@, <<p>>)]

\* queue_pop() removes entry 1; L2_pop() shifts the entries behind i down.
RemoveAt(q, i) ==
  [j \in 1 .. Len(q) - 1 |-> IF j < i THEN q[j] ELSE q[j + 1]]

\* Fault: priorities ignored.
L2_pop_First(q, i) == i = 1

\* The entry L2_pop() takes: the first one among those of highest priority.
L2_pop(q, i) ==
  \A j \in 1 .. Len(q) :
    /\ priority[q[j]] <= priority[q[i]]
    /\ j < i => priority[q[j]] < priority[q[i]]

\* The entry pop(mlfq + l) takes.
pop(l, i) == IF l = 2 THEN L2_pop(mlfq[2], i) ELSE i = 1

-----------------------------------------------------------------------------
(* Moving processes.                                                       *)

Runnable == {p \in Procs : state[p] = "RUNNABLE"}

SleepingOn(c) == {q \in Procs : state[q] = "SLEEPING" /\ chan[q] = c}

\* add_proc_to_queue(s[1]), add_proc_to_queue(s[2]), ...
add_proc_to_queue(s) ==
  LET S == {s[i] : i \in 1 .. Len(s)}
  IN  IF schedule_mode = "FCFS"
      THEN /\ fcfs' = queue_push(fcfs, s)
           /\ UNCHANGED <<schedule_mode, mlfq, fieldVars>>
      ELSE /\ level' = [q \in Procs |-> IF q \in S THEN 0 ELSE level[q]]
           /\ priority' = [q \in Procs |->
                             IF q \in S THEN MaxPriority ELSE priority[q]]
           /\ time_quantum' = [q \in Procs |->
                                 IF q \in S THEN 1 ELSE time_quantum[q]]
           /\ mlfq' = [mlfq EXCEPT ![0] = queue_push(@, s)]
           /\ UNCHANGED <<schedule_mode, fcfs>>

\* my_queueing()'s --p->time_quantum == 0.
Expired(p) == time_quantum[p] - 1 = 0

\* Faults: no test for level 2; the level wraps from 2 to 0.
LevelAfter_NoLast(p) == IF Expired(p) THEN level[p] + 1 ELSE level[p]
LevelAfter_Wraps(p) == IF Expired(p) THEN (level[p] + 1) % 3 ELSE level[p]

\* The level p is queued at when it gives up the CPU.
LevelAfter(p) == IF Expired(p) /\ level[p] # 2 THEN level[p] + 1 ELSE level[p]

\* Fault: the quantum is never renewed.
QuantumAfter_NoReset(p) == time_quantum[p] - 1

\* The ticks it has left there.
QuantumAfter(p) ==
  IF Expired(p) THEN LevelAfter(p) * 2 + 1 ELSE time_quantum[p] - 1

\* my_queueing(p): p gave the CPU up and is RUNNABLE.
my_queueing(p) ==
  IF schedule_mode = "FCFS"
  THEN /\ fcfs' = queue_push(fcfs, <<p>>)
       /\ UNCHANGED <<schedule_mode, mlfq, fieldVars>>
  ELSE /\ level' = [level EXCEPT ![p] = LevelAfter(p)]
       /\ priority' = [priority EXCEPT ![p] =
            IF Expired(p) /\ level[p] = 2 /\ @ > 0 THEN @ - 1 ELSE @]
       /\ time_quantum' = [time_quantum EXCEPT ![p] = QuantumAfter(p)]
       /\ mlfq' = push(LevelAfter(p), p)
       /\ UNCHANGED <<schedule_mode, fcfs>>

\* Fault: c->proc not cleared.
sched_KeepsProc ==
  /\ leaked = {}
  /\ cpu' = "switched"
  /\ windowTicks' = 0
  /\ UNCHANGED curr

\* sched() and the first half of my_switching()'s return: the CPU is back in
\* the scheduler, p->lock released, the boost not looked at yet.
sched ==
  /\ leaked = {}
  /\ curr' = None
  /\ cpu' = "switched"
  /\ windowTicks' = 0

\* yield(): p's state is RUNNABLE and my_switching() queues it.
yield(p) ==
  /\ state' = [state EXCEPT ![p] = "RUNNABLE"]
  /\ sched
  /\ my_queueing(p)
  /\ UNCHANGED <<chan, parent, forking, failVars>>

\* wakeup(): S are the sleepers found, made RUNNABLE in table order.  Every
\* caller holds a spinlock, so the loop is not interrupted.
wakeup(S) ==
  /\ leaked = {}
  /\ state' = [q \in Procs |-> IF q \in S THEN "RUNNABLE" ELSE state[q]]
  /\ \E s \in TableOrder(S) : add_proc_to_queue(s)

\* The process that executes, outside the two halves of fork().
Running(p) == panicked = "none" /\ cpu = "run" /\ curr = p /\ forking[p] = None

-----------------------------------------------------------------------------
(* The scheduler loop.                                                     *)

\* my_switching(t) up to swtch(), after the pop: a process that is not
\* RUNNABLE is dropped and the selection goes on.  A sleeper clears p->chan
\* first thing after it is switched to, still holding p->lock.
my_switching(t) ==
  IF state[t] = "RUNNABLE"
  THEN /\ state' = [state EXCEPT ![t] = "RUNNING"]
       /\ chan' = [chan EXCEPT ![t] = None]
       /\ curr' = t
       /\ cpu' = "run"
       /\ windowTicks' = 0
  ELSE UNCHANGED <<state, chan, cpuVars>>

select_with_fcfs ==
  /\ schedule_mode = "FCFS"
  /\ fcfs # <<>>
  /\ my_switching(fcfs[1])
  /\ fcfs' = RemoveAt(fcfs, 1)
  /\ UNCHANGED mlfq

select_with_mlfq ==
  /\ schedule_mode = "MLFQ"
  /\ \E l \in Levels :
       /\ \A k \in Levels : k < l => mlfq[k] = <<>>
       /\ \E i \in 1 .. Len(mlfq[l]) :
            /\ pop(l, i)
            /\ my_switching(mlfq[l][i])
            /\ mlfq' = [mlfq EXCEPT ![l] = RemoveAt(@, i)]
  /\ UNCHANGED fcfs

\* One round of my_scheduler().  With all queues empty it waits (wfi).
my_scheduler ==
  /\ panicked = "none"
  /\ cpu = "loop"
  /\ select_with_fcfs \/ select_with_mlfq
  /\ UNCHANGED <<parent, forking, fieldVars, schedule_mode, tickVars, failVars>>

\* Every slot at level 0 with full priority and a fresh quantum.
ResetFields ==
  /\ level' = [q \in Procs |-> 0]
  /\ priority' = [q \in Procs |-> MaxPriority]
  /\ time_quantum' = [q \in Procs |-> 1]

\* L0 alone holds s.
RefillL0(s) == mlfq' = [l \in Levels |-> IF l = 0 THEN s ELSE <<>>]

\* Faults: L1 and L2 keep their entries; nothing is boosted.
priority_boosting_OnlyL0 ==
  /\ \E s \in TableOrder(Runnable) : mlfq' = [mlfq EXCEPT ![0] = s]
  /\ ResetFields
priority_boosting_Nothing == UNCHANGED <<mlfq, fieldVars>>

\* priority_boosting(): the RUNNABLE processes go to L0 in table order.
priority_boosting == (\E s \in TableOrder(Runnable) : RefillL0(s)) /\ ResetFields

\* The end of my_switching(): the boost a tick asked for, in either mode.
BoostCheck ==
  /\ panicked = "none"
  /\ cpu = "switched"
  /\ IF priority_boost THEN priority_boosting ELSE UNCHANGED <<mlfq, fieldVars>>
  /\ priority_boost' = FALSE
  /\ cpu' = "loop"
  /\ UNCHANGED <<procVars, schedule_mode, fcfs, curr, windowTicks, ticks, failVars>>

\* clockintr() as far as wakeup(&ticks).
CountTick ==
  /\ ticks' = IF ticks + 1 = BoostPeriod THEN 0 ELSE ticks + 1
  /\ priority_boost' = (priority_boost \/ (ticks' = 0 /\ schedule_mode = "MLFQ"))

\* Timer interrupt while a process executes: clockintr(), then usertrap() or
\* kerneltrap() yields in MLFQ mode.
TimerRun ==
  /\ panicked = "none"
  /\ cpu = "run"
  /\ leaked = {} /\ SleepingOn(Ticks) = {}
  /\ CountTick
  /\ IF schedule_mode = "MLFQ"
     THEN yield(curr)
     ELSE UNCHANGED <<procVars, fieldVars, queueVars, cpuVars, failVars>>

\* Timer interrupt in the scheduler (myproc() == 0): nothing to preempt.
TimerScheduler ==
  /\ panicked = "none"
  /\ cpu # "run"
  /\ SleepingOn(Ticks) = {}
  /\ IF Runnable # {}
     THEN "latetick" \in calls /\ windowTicks < MaxWindowTicks /\ windowTicks' = windowTicks + 1
     ELSE UNCHANGED windowTicks
  /\ CountTick
  /\ UNCHANGED <<procVars, fieldVars, queueVars, curr, cpu, failVars>>

-----------------------------------------------------------------------------
(* What the executing process does.                                        *)

sys_yield(p) ==
  /\ "yield" \in calls
  /\ Running(p)
  /\ yield(p)
  /\ UNCHANGED tickVars

\* sleep(c, lk), for a channel that is not p itself.
sleep(p, c) ==
  /\ Running(p)
  /\ state' = [state EXCEPT ![p] = "SLEEPING"]
  /\ chan' = [chan EXCEPT ![p] = c]
  /\ sched
  /\ UNCHANGED <<parent, forking, fieldVars, queueVars, tickVars, failVars>>

Children(p) == {q \in Procs : parent[q] = p}

\* wait() finds an exited child: freeproc() of the first one in the table.
\* The scheduling fields keep their old values.
WaitReap(p) ==
  /\ "wait" \in calls
  /\ Running(p)
  /\ \E q \in Children(p) :
       /\ state[q] = "ZOMBIE"
       /\ \A r \in Children(p) : r < q => state[r] # "ZOMBIE" /\ r \notin leaked
       /\ q \notin leaked
       /\ state' = [state EXCEPT ![q] = "UNUSED"]
       /\ chan' = [chan EXCEPT ![q] = None]
       /\ parent' = [parent EXCEPT ![q] = None]
  /\ UNCHANGED <<forking, fieldVars, queueVars, cpuVars, tickVars, failVars>>

\* wait() with children, none of them exited: sleep(p, &wait_lock).
WaitSleep(p) ==
  /\ "wait" \in calls
  /\ Children(p) # {}
  /\ \A q \in Children(p) : state[q] # "ZOMBIE"
  /\ sleep(p, p)

\* Faults: no reparent(); only reparent() wakes somebody.
reparent_Nothing(p) == parent
WokenByExit_OnlyInit(p) == IF Children(p) = {} THEN {} ELSE SleepingOn(initproc)

\* reparent(): p's children are handed to init.
reparent(p) == [q \in Procs |-> IF parent[q] = p THEN initproc ELSE parent[q]]

\* The sleepers exit() wakes: init if it inherits a child, and p's parent.
WokenByExit(p) ==
  (IF Children(p) = {} THEN {} ELSE SleepingOn(initproc)) \cup SleepingOn(parent[p])

\* exit(), once files and directory are closed: wakeups, ZOMBIE, sched().
exit(p) ==
  /\ "exit" \in calls
  /\ Running(p)
  /\ p # initproc
  /\ parent' = reparent(p)
  /\ state' = [q \in Procs |-> IF q \in WokenByExit(p) THEN "RUNNABLE"
                               ELSE IF q = p THEN "ZOMBIE" ELSE state[q]]
  /\ \E s \in TableOrder(WokenByExit(p)) : add_proc_to_queue(s)
  /\ sched
  /\ UNCHANGED <<chan, forking, tickVars, failVars>>

\* The scan of a loop that locks every slot in turn reaches slot q.
Reaches(q) == \A r \in leaked : q < r

\* Fault: the slot is not marked USED.
ForkAlloc_NotMarked(p) ==
  /\ "fork" \in calls /\ (schedule_mode = "FCFS" => "fcfsfork" \in calls)
  /\ Running(p)
  /\ \E np \in Procs : state[np] = "UNUSED" /\ forking' = [forking EXCEPT ![p] = np]
  /\ UNCHANGED <<state, chan, parent, fieldVars, queueVars, cpuVars, tickVars, failVars>>

\* fork(), first half: allocproc() and the copies, up to release(&np->lock).
\* A preempted scan may miss a lower slot that became free behind it.
ForkAlloc(p) ==
  /\ "fork" \in calls /\ (schedule_mode = "FCFS" => "fcfsfork" \in calls)
  /\ Running(p)
  /\ \E np \in Procs :
       /\ state[np] = "UNUSED"
       /\ Reaches(np)
       /\ state' = [state EXCEPT ![np] = "USED"]
       /\ forking' = [forking EXCEPT ![p] = np]
  /\ UNCHANGED <<chan, parent, fieldVars, queueVars, cpuVars, tickVars, failVars>>

\* fork(), second half, from acquire(&wait_lock).  The parent may have been
\* preempted in between, and the schedule mode changed.
ForkPublish(p) ==
  /\ panicked = "none" /\ cpu = "run" /\ curr = p
  /\ forking[p] # None
  /\ parent' = [parent EXCEPT ![forking[p]] = p]
  /\ state' = [state EXCEPT ![forking[p]] = "RUNNABLE"]
  /\ add_proc_to_queue(<<forking[p]>>)
  /\ forking' = [forking EXCEPT ![p] = None]
  /\ UNCHANGED <<chan, cpuVars, tickVars, failVars>>

\* kill() of a sleeping process.  p->killed only makes the victim call exit()
\* on its way to user space, and exit(p) is possible whenever p executes.
kill(p, q) ==
  /\ "kill" \in calls
  /\ Running(p)
  /\ Reaches(q)
  /\ state[q] = "SLEEPING"
  /\ state' = [state EXCEPT ![q] = "RUNNABLE"]
  /\ add_proc_to_queue(<<q>>)
  /\ UNCHANGED <<chan, parent, forking, cpuVars, tickVars, failVars>>

\* wakeup(c) by a device interrupt, wherever the CPU is, or by the process
\* that executes.
Wakeup(c) ==
  /\ panicked = "none"
  /\ SleepingOn(c) # {}
  /\ wakeup(SleepingOn(c))
  /\ UNCHANGED <<chan, parent, forking, cpuVars, tickVars, failVars>>

\* sys_setpriority() for the caller itself.
SetPrioritySelf(p, n) ==
  /\ "setpriority" \in calls
  /\ Running(p)
  /\ priority' = [priority EXCEPT ![p] = n]
  /\ UNCHANGED <<procVars, level, time_quantum, queueVars, cpuVars, tickVars, failVars>>

\* sys_setpriority() for another slot: it returns with q->lock held.  (The
\* pid 0 finds an UNUSED slot.)
SetPriorityOther(p, q, n) ==
  /\ "setpriority_other" \in calls
  /\ Running(p)
  /\ q # p
  /\ Reaches(q)
  /\ priority' = [priority EXCEPT ![q] = n]
  /\ leaked' = leaked \cup {q}
  /\ UNCHANGED <<procVars, level, time_quantum, queueVars, cpuVars, tickVars, panicked, calls>>

\* sys_fcfsmode(): the fields of every slot to -1, the RUNNABLE processes
\* queued in table order, the ticks restarted.
sys_fcfsmode(p) ==
  /\ "fcfsmode" \in calls
  /\ Running(p)
  /\ leaked = {}
  /\ schedule_mode = "MLFQ"
  /\ fcfs' \in TableOrder(Runnable)
  /\ level' = [q \in Procs |-> -1]
  /\ priority' = [q \in Procs |-> -1]
  /\ time_quantum' = [q \in Procs |-> -1]
  /\ ticks' = 0
  /\ schedule_mode' = "FCFS"
  /\ UNCHANGED <<procVars, mlfq, cpuVars, priority_boost, failVars>>

\* Fault: table order instead of the order of fcfs.
MovedToL0_TableOrder == TableOrder(Runnable)

\* What mlfqmode() copies to L0: the RUNNABLE entries of fcfs, in their order.
MovedToL0 == EntriesIn(fcfs, Runnable)

\* sys_mlfqmode().
sys_mlfqmode(p) ==
  /\ "mlfqmode" \in calls
  /\ Running(p)
  /\ leaked = {}
  /\ schedule_mode = "FCFS"
  /\ \E s \in MovedToL0 : RefillL0(s)
  /\ ResetFields
  /\ ticks' = 0
  /\ schedule_mode' = "MLFQ"
  /\ UNCHANGED <<procVars, fcfs, cpuVars, priority_boost, failVars>>

-----------------------------------------------------------------------------
(* Panics.  The machine stops: the other variables are left as they were   *)
(* when the handler that panics was entered, nothing reads them any more.  *)

Stop(why) ==
  /\ panicked' = why
  /\ UNCHANGED <<procVars, fieldVars, queueVars, cpuVars, tickVars, leaked, calls>>

\* clockintr() holds schedule_lock when wakeup(&ticks) finds a sleeper and
\* add_proc_to_queue() acquires schedule_lock again.
TimerPanic ==
  /\ panicked = "none"
  /\ SleepingOn(Ticks) # {}
  /\ Stop("acquire schedule_lock")

\* With q->lock still held: the next loop over the whole table (timer,
\* wakeup, exit, a mode change) acquires it again ...
ScanPanic ==
  /\ panicked = "none"
  /\ leaked # {}
  /\ Stop("acquire p->lock")

\* ... and giving up the CPU finds noff # 1 in sched().
SchedPanic(p) ==
  /\ Running(p)
  /\ leaked # {}
  /\ Stop("sched locks")

Halted == panicked # "none" /\ UNCHANGED vars

-----------------------------------------------------------------------------
\* procinit() and userinit(): init RUNNABLE in slot 1, queued in FCFS mode.
Init ==
  /\ state = [q \in Procs |-> IF q = initproc THEN "RUNNABLE" ELSE "UNUSED"]
  /\ chan = [q \in Procs |-> None]
  /\ parent = [q \in Procs |-> None]
  /\ forking = [q \in Procs |-> None]
  /\ level = [q \in Procs |-> 0]
  /\ priority = [q \in Procs |-> 0]
  /\ time_quantum = [q \in Procs |-> 0]
  /\ schedule_mode = "FCFS"
  /\ fcfs = <<initproc>>
  /\ mlfq = [l \in Levels |-> <<>>]
  /\ curr = None
  /\ cpu = "loop"
  /\ windowTicks = 0
  /\ ticks = 0
  /\ priority_boost = FALSE
  /\ leaked = {}
  /\ panicked = "none"
  /\ calls \in Workloads

SleepChans == IF "sleep" \in calls THEN IOChans \cup {Ticks} ELSE IOChans

Next ==
  \/ my_scheduler
  \/ BoostCheck
  \/ TimerRun
  \/ TimerScheduler
  \/ \E p \in Procs :
       \/ sys_yield(p)
       \/ \E c \in SleepChans : sleep(p, c)
       \/ WaitReap(p)
       \/ WaitSleep(p)
       \/ exit(p)
       \/ ForkAlloc(p)
       \/ ForkPublish(p)
       \/ \E q \in Procs : kill(p, q)
       \/ \E n \in 0 .. MaxPriority : SetPrioritySelf(p, n)
       \/ \E q \in Procs, n \in 0 .. MaxPriority : SetPriorityOther(p, q, n)
       \/ sys_fcfsmode(p)
       \/ sys_mlfqmode(p)
       \/ SchedPanic(p)
  \/ \E c \in IOChans : Wakeup(c)
  \/ TimerPanic
  \/ ScanPanic
  \/ Halted

Spec == Init /\ [][Next]_vars

\* The scheduler loop is never stopped for good and the timer keeps ticking.
\* Nothing is assumed of the programs: they may run for ever.
Fairness ==
  /\ WF_vars(my_scheduler)
  /\ WF_vars(BoostCheck)
  /\ SF_vars(TimerRun \/ TimerScheduler)

FairSpec == Spec /\ Fairness

-----------------------------------------------------------------------------
(* Properties.                                                             *)

\* Every variable has its type.
TypeOK ==
  /\ state \in [Procs -> States]
  /\ chan \in [Procs -> Chans]
  /\ parent \in [Procs -> Procs \cup {None}]
  /\ forking \in [Procs -> Procs \cup {None}]
  /\ level \in [Procs -> Levels \cup {-1}]
  /\ priority \in [Procs -> -1 .. MaxPriority]
  /\ time_quantum \in [Procs -> -1 .. 5]
  /\ schedule_mode \in {"FCFS", "MLFQ"}
  /\ fcfs \in Seq(Procs)
  /\ mlfq \in [Levels -> Seq(Procs)]
  /\ curr \in Procs \cup {None}
  /\ cpu \in {"run", "switched", "loop"}
  /\ windowTicks \in Nat
  /\ ticks \in 0 .. BoostPeriod - 1
  /\ priority_boost \in BOOLEAN
  /\ leaked \subseteq Procs
  /\ panicked \in {"none", "acquire schedule_lock", "acquire p->lock", "sched locks"}

\* q holds each element of S once and nothing else.
Enumerates(q, S) ==
  /\ \A i \in 1 .. Len(q) : q[i] \in S
  /\ \A x \in S : \E i \in 1 .. Len(q) : q[i] = x
  /\ \A i, j \in 1 .. Len(q) : q[i] = q[j] => i = j

\* Whatever the interleaving of wakeups, forks, kills, boosts and mode
\* changes, each RUNNABLE process is in the queues of the active mode exactly
\* once, in MLFQ mode in the queue of its own level, and nothing else is: no
\* process is lost, none runs twice, no ring wraps over its own entries.
RunnableQueuedOnce ==
  /\ schedule_mode = "FCFS" => Enumerates(fcfs, Runnable)
  /\ schedule_mode = "MLFQ" =>
       \A l \in Levels : Enumerates(mlfq[l], {p \in Runnable : level[p] = l})

\* In MLFQ mode every slot, used or not, has a legal level and priority and
\* between 1 and 2*level+1 ticks left, so the decrement in my_queueing() never
\* steps over 0 and leaves a process with an endless quantum.
QuantumInRange ==
  schedule_mode = "MLFQ" =>
    \A p \in Procs : /\ level[p] \in Levels
                      /\ priority[p] \in 0 .. MaxPriority
                      /\ time_quantum[p] \in 1 .. 2 * level[p] + 1

\* c->proc is the one RUNNING process, and there is none in the scheduler.
OneRunning ==
  /\ (cpu = "run") <=> (curr # None)
  /\ \A p \in Procs : (state[p] = "RUNNING") <=> (curr = p)

\* A child between the two halves of fork() stays USED, out of every queue, and
\* belongs to one fork() only, whoever runs in between.
ChildStaysUsed ==
  \A p \in Procs : forking[p] # None =>
    /\ state[forking[p]] = "USED"
    /\ \A q \in Procs : forking[q] = forking[p] => p = q

\* The bookkeeping of the CPU, of fork() and of the quanta.  Types alone are not
\* inductive: that level and quantum stay in range when a process gives up the
\* CPU needs QuantumInRange, that it is a process at all needs OneRunning, and
\* that fork() does not make a running process RUNNABLE needs ChildStaysUsed.
TypeInv == TypeOK /\ OneRunning /\ ChildStaysUsed /\ QuantumInRange

\* No lost wakeup: nobody is asleep in wait() with an exited child, also when
\* the child became its own by reparent().
NoMissedExit ==
  \A p, q \in Procs :
    state[p] = "SLEEPING" /\ chan[p] = p /\ parent[q] = p => state[q] # "ZOMBIE"

\* Every process but init has a parent that can still wait for it.
ParentAlive ==
  \A q \in Procs \ {initproc} :
    state[q] \notin {"UNUSED", "USED"} =>
      parent[q] \in Procs /\ state[parent[q]] \notin {"UNUSED", "USED", "ZOMBIE"}

\* In MLFQ mode the process dispatched is of the lowest level and, in L2, of
\* the highest priority among all RUNNABLE processes, with the levels and
\* priorities of the moment (after setpriority, boosts and wakeups).
DispatchesBest ==
  [][ cpu = "loop" /\ cpu' = "run" /\ schedule_mode = "MLFQ" =>
        \A q \in Runnable :
          \/ level[q] > level[curr']
          \/ level[q] = level[curr'] /\ (level[q] = 2 => priority[q] <= priority[curr'])
    ]_vars

\* p is ahead of q in the sequence s.
Ahead(s, p, q) == \E i, j \in 1 .. Len(s) : i < j /\ s[i] = p /\ s[j] = q

\* A process waiting in FCFS order is never overtaken: who is ahead of q is
\* dispatched first or stays ahead, also in L0 when mlfqmode() moves the queue.
NeverOvertaken ==
  [][ schedule_mode = "FCFS" =>
        \A p, q \in Procs :
          Ahead(fcfs, p, q) =>
            \/ curr' = p
            \/ Ahead(IF schedule_mode' = "FCFS" THEN fcfs' ELSE mlfq'[0], p, q)
    ]_vars

\* Between boosts only a process that slept, or is new, gets back to L0: one
\* that keeps computing cannot regain a level by yielding early.
LevelRegained ==
  [][ \A p \in Procs :
        level'[p] < level[p] =>
          \/ schedule_mode' = "FCFS"
          \/ cpu = "switched" /\ priority_boost
          \/ state[p] \in {"SLEEPING", "USED"} /\ state'[p] = "RUNNABLE"
    ]_vars

\* In MLFQ mode a RUNNABLE process is dispatched in the end, whatever the
\* others do.
NoStarvation ==
  \A p \in Procs :
    (schedule_mode = "MLFQ" /\ state[p] = "RUNNABLE") ~> (state[p] = "RUNNING")
=============================================================================
