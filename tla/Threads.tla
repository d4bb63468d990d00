------------------------------ MODULE Threads -------------------------------
(***************************************************************************)
(* Threads of src/thread/kernel: clone and join (paull04_thread.c) and the *)
(* process functions changed for them (fork, exit, wait, kill and growproc *)
(* in proc.c, exec in exec.c).                                             *)
(*                                                                         *)
(* One CPU (CPUS := 1 in the Makefile): code that holds a spinlock is not  *)
(* interrupted, so a step is a stretch of code under wait_lock or a        *)
(* p->lock, or of code nobody else can observe.  Which RUNNABLE process    *)
(* executes is left open, so a process that sleeps for the disk is one     *)
(* that does not execute for a while.  Slots of proc[] stand for struct    *)
(* proc pointers.                                                          *)
(***************************************************************************)
EXTENDS Integers, FiniteSets

CONSTANTS
  NPROC,      \* slots of the process table
  Loads       \* what programs may do, and bounds: the system calls they make
              \* and the failures they meet, slots in use, pids handed out,
              \* pages of an address space

Procs    == 1 .. NPROC
None     == 0
initproc == 1
Tables   == 1 .. 2 * NPROC            \* bound: page tables at a time

ASSUME NPROCAssumption == NPROC \in Nat \ {0}
ASSUME BoundsAssumption ==
  \A l \in Loads : l.slots \in 1 .. NPROC /\ l.pids \in Nat \ {0} /\ l.size \in Nat \ {0}

VARIABLES
  load,         \* the element of Loads this behaviour is about
  state, pid, parent, killed,
  isThread, main_pid, main_thread, cnt,
  table,        \* p->pagetable
  tf,           \* p->trapframe_va: how many pages below TRAPFRAME
  sz,           \* p->sz
  pages,        \* of each page table, the user pages mapped; 0: freed
  maps,         \* of each page table, the trapframe addresses mapped
  op,           \* where p is in the kernel, and its local variables there
  nextpid,
  outstanding,  \* log.outstanding
  panicked

procVars == <<state, pid, parent, killed>>
groupVars == <<isThread, main_pid, main_thread, cnt>>
memVars == <<table, tf, sz, pages, maps>>
sysVars == <<nextpid, outstanding, panicked>>
vars == <<load, procVars, groupVars, memVars, op, sysVars>>

MaxPid == load.pids
MaxSize == load.size

\* Local variables: a process, a page table and its size.
At(pc, q) == [pc |-> pc, arg |-> q, tbl |-> None, sz |-> 0]

User == At("user", None)

\* p executes in the kernel at pc.
Is(p, pc) == panicked = "none" /\ state[p] = "RUNNABLE" /\ op[p].pc = pc

\* p executes a program, which makes a system call.  usertrap() turns a killed
\* process away; init only forks and waits (user/init.c).
InUser(p, call) ==
  /\ Is(p, "user")
  /\ ~killed[p]
  /\ call \in load.calls
  /\ p = initproc => call \in {"fork", "wait"}

Goto(p, o) == op' = [op EXCEPT ![p] = o]

Used(p) == state[p] # "UNUSED"

\* The threads of the group whose main thread has pid m, main thread excluded.
ThreadsOf(m) == {q \in Procs : main_pid[q] = m /\ isThread[q]}

Children(p) == {q \in Procs : parent[q] = p}

Zombies(S) == {q \in S : state[q] = "ZOMBIE"}

First(S) == CHOOSE x \in S : \A y \in S : x <= y

FreeTables == {t \in Tables : pages[t] = 0}

NewTable == First(FreeTables)

Unused == {q \in 1 .. load.slots : state[q] = "UNUSED"}

\* f with the value x for the slots in S.
Reset(f, S, x) == [q \in Procs |-> IF q \in S THEN x ELSE f[q]]

-----------------------------------------------------------------------------
(* Freeing slots and page tables.                                          *)

\* The fields that both freeproc() and freethread() clear.
ClearFields(S) ==
  /\ state' = Reset(state, S, "UNUSED")
  /\ pid' = Reset(pid, S, 0)
  /\ table' = Reset(table, S, None)
  /\ tf' = Reset(tf, S, 0)
  /\ sz' = Reset(sz, S, 0)
  /\ isThread' = Reset(isThread, S, FALSE)
  /\ main_pid' = Reset(main_pid, S, 0)
  /\ main_thread' = Reset(main_thread, S, None)

\* Fault: freethread() leaves the trapframe mapped.
Unmapped_Not(S) == maps

\* uvmunmap() of a thread's trapframe: the table keeps the others.
Unmapped(S) == [t \in Tables |-> maps[t] \ {tf[q] : q \in {r \in S : table[r] = t}}]

\* freethread(np) reparents np's children with np->lock held, and wakeup()
\* acquires it again; uvmunmap() panics if the trapframe is not mapped.
FreeingPanics(S) ==
  IF \E q \in S : Children(q) # {} THEN "acquire"
  ELSE IF \E q \in S : tf[q] \notin maps[table[q]] THEN "uvmunmap"
  ELSE "none"

\* Fault: a main thread leaves its threads behind.
cleanAllThreads_Nobody(m) == {}

\* cleanAllThreads(p): the slots it frees, in whatever state they are.
cleanAllThreads(m) == ThreadsOf(m)

\* freethread() of each of S, in an action that sets killed, maps and panicked.
FreeThreads(S) ==
  /\ ClearFields(S)
  /\ parent' = [q \in Procs |-> IF q \in S THEN None
                                ELSE IF parent[q] \in S THEN initproc ELSE parent[q]]

\* proc_freepagetable(t, n), with the trapframes m mapped: uvmunmap() and
\* freewalk() panic unless m is TRAPFRAME and n the number of user pages.
FreeTablePanics(m, t, n) == m # {0} \/ pages[t] # n

-----------------------------------------------------------------------------
(* fork() and clone().                                                     *)

\* allocproc() and the copies, up to release(&np->lock).
ForkAlloc(p) ==
  LET np == First(Unused)
  IN  /\ InUser(p, IF isThread[p] THEN "threadfork" ELSE "fork")
      /\ Unused # {}
      /\ nextpid <= MaxPid
      /\ FreeTables # {}
      /\ state' = [state EXCEPT ![np] = "USED"]
      /\ pid' = [pid EXCEPT ![np] = nextpid]
      /\ nextpid' = nextpid + 1
      /\ table' = [table EXCEPT ![np] = NewTable]
      /\ pages' = [pages EXCEPT ![NewTable] = sz[p]]
      /\ maps' = [maps EXCEPT ![NewTable] = {0}]
      /\ tf' = [tf EXCEPT ![np] = 0]
      /\ sz' = [sz EXCEPT ![np] = sz[p]]
      /\ Goto(p, At("fork", np))
      /\ UNCHANGED <<load, parent, killed, groupVars, outstanding, panicked>>

\* np->parent = p under wait_lock.
ForkParent(p) ==
  /\ Is(p, "fork")
  /\ parent' = [parent EXCEPT ![op[p].arg] = p]
  /\ Goto(p, At("forked", op[p].arg))
  /\ UNCHANGED <<load, state, pid, killed, groupVars, memVars, sysVars>>

\* The last part of fork(), under np->lock.
ForkDone(p) ==
  LET np == op[p].arg
  IN  /\ Is(p, "forked")
      /\ state' = [state EXCEPT ![np] = "RUNNABLE"]
      /\ isThread' = [isThread EXCEPT ![np] = FALSE]
      /\ main_pid' = [main_pid EXCEPT ![np] = pid[np]]
      /\ main_thread' = [main_thread EXCEPT ![np] = np]
      /\ cnt' = [cnt EXCEPT ![np] = 0]
      /\ Goto(p, User)
      /\ UNCHANGED <<load, pid, parent, killed, memVars, sysVars>>

\* Fault: the address of the trapframe depends on the threads alive.
TrapframeVa_Alive(m) == Cardinality(ThreadsOf(pid[m])) + 1

\* TRAPFRAME - cnt * PGSIZE, with the incremented cnt.
TrapframeVa(m) == cnt[m] + 1

\* paull04_clone(), under np->lock.  mappages() panics if the address is taken.
paull04_clone(p) ==
  LET m == main_thread[p]
      np == First(Unused)
      va == TrapframeVa(m)
  IN  /\ InUser(p, IF isThread[p] THEN "threadclone" ELSE "clone")
      /\ Unused # {}
      /\ nextpid <= MaxPid
      /\ panicked' = IF va \in maps[table[p]] THEN "remap" ELSE "none"
      /\ cnt' = [cnt EXCEPT ![m] = @ + 1]
      /\ tf' = [tf EXCEPT ![np] = va]
      /\ maps' = [maps EXCEPT ![table[p]] = @ \cup {va}]
      /\ state' = [state EXCEPT ![np] = "RUNNABLE"]
      /\ pid' = [pid EXCEPT ![np] = nextpid]
      /\ nextpid' = nextpid + 1
      /\ killed' = [killed EXCEPT ![np] = FALSE]
      /\ parent' = [parent EXCEPT ![np] = m]
      /\ table' = [table EXCEPT ![np] = table[p]]
      /\ sz' = [sz EXCEPT ![np] = sz[p]]
      /\ isThread' = [isThread EXCEPT ![np] = TRUE]
      /\ main_pid' = [main_pid EXCEPT ![np] = main_pid[p]]
      /\ main_thread' = [main_thread EXCEPT ![np] = m]
      /\ UNCHANGED <<load, pages, op, outstanding>>

\* allocthread() finds no page for the trapframe: the slot keeps the pid.
CloneFails(p) ==
  /\ InUser(p, "clonefails")
  /\ Unused # {}
  /\ nextpid <= MaxPid
  /\ pid' = [pid EXCEPT ![First(Unused)] = nextpid]
  /\ killed' = [killed EXCEPT ![First(Unused)] = FALSE]
  /\ nextpid' = nextpid + 1
  /\ UNCHANGED <<load, state, parent, groupVars, memVars, op, outstanding, panicked>>

-----------------------------------------------------------------------------
(* exit().                                                                 *)

\* exit() of p up to begin_op(): the main thread frees the others first.
ExitStart(p) ==
  LET S == IF isThread[p] THEN {} ELSE cleanAllThreads(pid[p])
  IN  /\ Is(p, "user")
      /\ killed[p] \/ InUser(p, "exit")
      /\ FreeThreads(S)
      /\ killed' = Reset(killed, S, FALSE)
      /\ maps' = Unmapped(S)
      /\ panicked' = FreeingPanics(S)
      /\ op' = [Reset(op, S, User) EXCEPT ![p] = At("exit", None)]
      /\ outstanding' = outstanding + 1
      /\ UNCHANGED <<load, cnt, pages, nextpid>>

\* Fault: exit() wakes nobody but init.
WokenByExit_Init(p) == IF Children(p) = {} THEN {} ELSE {initproc}

\* reparent() wakes init, then exit() wakes the parent.  wait() and join() both
\* sleep on the channel of the process itself.
WokenByExit(p) == (IF Children(p) = {} THEN {} ELSE {initproc}) \cup {parent[p]}

\* The rest of exit(): end_op(), then the part under wait_lock.
ExitEnd(p) ==
  /\ Is(p, "exit")
  /\ parent' = [q \in Procs |-> IF parent[q] = p THEN initproc ELSE parent[q]]
  /\ state' = [q \in Procs |->
                 IF q = p THEN "ZOMBIE"
                 ELSE IF q \in WokenByExit(p) /\ state[q] = "SLEEPING" THEN "RUNNABLE"
                 ELSE state[q]]
  /\ outstanding' = outstanding - 1
  /\ Goto(p, User)
  /\ UNCHANGED <<load, pid, killed, groupVars, memVars, nextpid, panicked>>

-----------------------------------------------------------------------------
(* wait() and join(): the first scan of the table, and those after a sleep. *)

Sleep(p, pc) ==
  /\ state' = [state EXCEPT ![p] = "SLEEPING"]
  /\ Goto(p, At(pc, None))
  /\ UNCHANGED <<load, pid, parent, killed, groupVars, memVars, sysVars>>

Return(p) ==
  /\ Goto(p, User)
  /\ UNCHANGED <<load, procVars, groupVars, memVars, sysVars>>

\* The children wait() looks at.
WaitedFor(p) == {q \in Children(p) : ~isThread[q]}

Waiting(p) == InUser(p, "wait") \/ Is(p, "wait")

\* wait() frees an exited child, and its page table.
WaitReap(p) ==
  LET q == First(Zombies(WaitedFor(p)))
  IN  /\ Waiting(p)
      /\ Zombies(WaitedFor(p)) # {}
      /\ ClearFields({q})
      /\ parent' = [parent EXCEPT ![q] = None]
      /\ killed' = [killed EXCEPT ![q] = FALSE]
      /\ pages' = [pages EXCEPT ![table[q]] = 0]
      /\ maps' = [maps EXCEPT ![table[q]] = {}]
      /\ panicked' = IF FreeTablePanics(maps[table[q]], table[q], sz[q]) THEN "freewalk" ELSE "none"
      /\ Goto(p, User)
      /\ UNCHANGED <<load, cnt, nextpid, outstanding>>

WaitSleep(p) ==
  /\ Waiting(p)
  /\ WaitedFor(p) # {} /\ Zombies(WaitedFor(p)) = {} /\ ~killed[p]
  /\ Sleep(p, "wait")

WaitReturn(p) ==
  /\ Is(p, "wait")
  /\ Zombies(WaitedFor(p)) = {} /\ (WaitedFor(p) = {} \/ killed[p])
  /\ Return(p)

Joining(p) == InUser(p, IF isThread[p] THEN "threadjoin" ELSE "join") \/ Is(p, "join")

\* paull04_join() finds an exited thread of the caller's group.
JoinReap(p) ==
  LET S == {First(Zombies(ThreadsOf(main_pid[p])))}
  IN  /\ Joining(p)
      /\ Zombies(ThreadsOf(main_pid[p])) # {}
      /\ FreeThreads(S)
      /\ killed' = Reset(killed, S, FALSE)
      /\ maps' = Unmapped(S)
      /\ panicked' = FreeingPanics(S)
      /\ Goto(p, User)
      /\ UNCHANGED <<load, cnt, pages, nextpid, outstanding>>

\* copyout() of the stack's address fails: both locks are released twice.
JoinBadPointer(p) ==
  /\ InUser(p, "badjoin")
  /\ Zombies(ThreadsOf(main_pid[p])) # {}
  /\ panicked' = "release"
  /\ UNCHANGED <<load, procVars, groupVars, memVars, op, nextpid, outstanding>>

JoinSleep(p) ==
  /\ Joining(p)
  /\ ThreadsOf(main_pid[p]) # {} /\ Zombies(ThreadsOf(main_pid[p])) = {} /\ ~killed[p]
  /\ Sleep(p, "join")

JoinReturn(p) ==
  /\ Is(p, "join")
  /\ Zombies(ThreadsOf(main_pid[p])) = {} /\ (ThreadsOf(main_pid[p]) = {} \/ killed[p])
  /\ Return(p)

-----------------------------------------------------------------------------
(* kill() and sbrk().                                                      *)

\* kill(k) finds the slot with pid k and releases its lock.  Nobody kills init.
KillFind(p, k) ==
  LET Q == {q \in Procs : pid[q] = k}
  IN  /\ InUser(p, "kill")
      /\ Q # {}
      /\ First(Q) # initproc
      /\ Goto(p, At("kill", First(Q)))
      /\ UNCHANGED <<load, procVars, groupVars, memVars, sysVars>>

\* It follows main_thread, which is 0 if the slot is not in use by now.
KillRead(p) ==
  LET m == main_thread[op[p].arg]
  IN  /\ Is(p, "kill")
      /\ panicked' = IF m = None THEN "null" ELSE "none"
      /\ Goto(p, At("mark", m))
      /\ UNCHANGED <<load, procVars, groupVars, memVars, nextpid, outstanding>>

\* Fault: a sleeping victim is not woken.
KillWakes_Not(m) == FALSE

KillWakes(m) == state[m] = "SLEEPING"

\* Under the lock of the main thread, whatever that slot holds by now.
KillMark(p) ==
  LET m == op[p].arg
  IN  /\ Is(p, "mark")
      /\ killed' = [killed EXCEPT ![m] = TRUE]
      /\ state' = [state EXCEPT ![m] = IF KillWakes(m) THEN "RUNNABLE" ELSE @]
      /\ Goto(p, User)
      /\ UNCHANGED <<load, pid, parent, groupVars, memVars, sysVars>>

\* Fault: only the sizes of the caller and of the main thread are updated.
Resized_Caller(p, n) == [sz EXCEPT ![p] = n, ![main_thread[p]] = n]

\* The slots growproc() updates: the whole group.
Resized(p, n) ==
  [q \in Procs |-> IF main_pid[q] = pid[main_thread[p]] THEN n ELSE sz[q]]

growproc(p, n) ==
  /\ InUser(p, "sbrk")
  /\ pages' = [pages EXCEPT ![table[main_thread[p]]] = n]
  /\ sz' = Resized(p, n)
  /\ UNCHANGED <<load, procVars, groupVars, table, tf, maps, op, sysVars>>

\* uvmalloc() fails and growproc() returns with wait_lock held: the yield() of
\* the next timer interrupt, if nothing else before it, panics.
GrowprocFails(p) ==
  /\ InUser(p, "sbrkfails")
  /\ panicked' = "sched locks"
  /\ UNCHANGED <<load, procVars, groupVars, memVars, op, nextpid, outstanding>>

-----------------------------------------------------------------------------
(* exec().                                                                 *)

\* A thread first unmaps its trapframe; begin_op().
ExecStart(p) ==
  /\ InUser(p, IF isThread[p] THEN "threadexec" ELSE "exec")
  /\ maps' = IF isThread[p] THEN Unmapped({p}) ELSE maps
  /\ outstanding' = outstanding + 1
  /\ Goto(p, At("exec", None))
  /\ UNCHANGED <<load, procVars, groupVars, table, tf, sz, pages, nextpid, panicked>>

\* Fault: end_op() both at the failing test and at bad.
ExecNoFile_Twice(p) ==
  /\ Is(p, "exec")
  /\ "execfails" \in load.calls
  /\ outstanding' = outstanding - 2
  /\ Goto(p, User)
  /\ UNCHANGED <<load, procVars, groupVars, memVars, nextpid, panicked>>

\* No such file, or none that can be executed.
ExecNoFile(p) ==
  /\ Is(p, "exec")
  /\ "execfails" \in load.calls
  /\ outstanding' = outstanding - 1
  /\ Goto(p, User)
  /\ UNCHANGED <<load, procVars, groupVars, memVars, nextpid, panicked>>

\* proc_pagetable() sets p->trapframe_va; the program is loaded.
ExecTable(p) ==
  /\ Is(p, "exec")
  /\ FreeTables # {}
  /\ pages' = [pages EXCEPT ![NewTable] = 1]
  /\ maps' = [maps EXCEPT ![NewTable] = {0}]
  /\ tf' = [tf EXCEPT ![p] = 0]
  /\ Goto(p, [At("load", None) EXCEPT !.tbl = NewTable])
  /\ UNCHANGED <<load, procVars, groupVars, table, sz, sysVars>>

\* Loading fails.
ExecBad(p) ==
  /\ Is(p, "load")
  /\ "execfails" \in load.calls
  /\ pages' = [pages EXCEPT ![op[p].tbl] = 0]
  /\ maps' = [maps EXCEPT ![op[p].tbl] = {}]
  /\ outstanding' = outstanding - 1
  /\ Goto(p, User)
  /\ UNCHANGED <<load, procVars, groupVars, table, tf, sz, nextpid, panicked>>

\* end_op(); oldsz = p->sz.
ExecLoaded(p) ==
  /\ Is(p, "load")
  /\ outstanding' = outstanding - 1
  /\ Goto(p, [op[p] EXCEPT !.pc = "loaded", !.sz = sz[p]])
  /\ UNCHANGED <<load, procVars, groupVars, memVars, nextpid, panicked>>

\* The new image: p becomes a main thread.
ExecCommit(p) ==
  /\ Is(p, "loaded")
  /\ table' = [table EXCEPT ![p] = op[p].tbl]
  /\ sz' = [sz EXCEPT ![p] = 1]
  /\ main_pid' = [main_pid EXCEPT ![p] = pid[p]]
  /\ main_thread' = [main_thread EXCEPT ![p] = p]
  /\ isThread' = [isThread EXCEPT ![p] = FALSE]
  /\ cnt' = [cnt EXCEPT ![p] = 0]
  /\ Goto(p, [pc |-> "commit", arg |-> main_thread[p], tbl |-> table[p], sz |-> op[p].sz])
  /\ UNCHANGED <<load, procVars, tf, pages, maps, sysVars>>

\* exec() of the main thread: the others go, then the old page table.
ExecCleanMain(p) ==
  LET t == op[p].tbl
      S == cleanAllThreads(pid[p])
      kept == Unmapped(S)
  IN  /\ Is(p, "commit")
      /\ op[p].arg = p
      /\ FreeThreads(S)
      /\ killed' = Reset(killed, S, FALSE)
      /\ op' = [Reset(op, S, User) EXCEPT ![p] = User]
      /\ pages' = [pages EXCEPT ![t] = 0]
      /\ maps' = [kept EXCEPT ![t] = {}]
      /\ panicked' = IF FreeingPanics(S) # "none" THEN FreeingPanics(S)
                     ELSE IF FreeTablePanics(kept[t], t, op[p].sz) THEN "freewalk" ELSE "none"
      /\ UNCHANGED <<load, cnt, nextpid, outstanding>>

\* Fault: the old page table is freed as the main thread's exec() does.
ExecCleanThread_FreesTable(p) ==
  LET mt == op[p].arg
      S == cleanAllThreads(pid[mt])
  IN  /\ Is(p, "commit")
      /\ mt # p
      /\ FreeThreads(S)
      /\ killed' = [Reset(killed, S, FALSE) EXCEPT ![mt] = TRUE]
      /\ pages' = [pages EXCEPT ![op[p].tbl] = 0]
      /\ maps' = [Unmapped(S) EXCEPT ![op[p].tbl] = {}]
      /\ panicked' = FreeingPanics(S)
      /\ op' = [Reset(op, S, User) EXCEPT ![p] = User]
      /\ UNCHANGED <<load, cnt, nextpid, outstanding>>

\* exec() of another thread: the others go, and the old main thread is marked
\* killed, asleep or not.
ExecCleanThread(p) ==
  LET mt == op[p].arg
      S == cleanAllThreads(pid[mt])
  IN  /\ Is(p, "commit")
      /\ mt # p
      /\ FreeThreads(S)
      /\ killed' = [Reset(killed, S, FALSE) EXCEPT ![mt] = TRUE]
      /\ maps' = Unmapped(S)
      /\ panicked' = FreeingPanics(S)
      /\ op' = [Reset(op, S, User) EXCEPT ![p] = User]
      /\ UNCHANGED <<load, cnt, pages, nextpid, outstanding>>

-----------------------------------------------------------------------------
(* A file-system call between begin_op() and end_op().                     *)

FsBegin(p) ==
  /\ InUser(p, "fs")
  /\ outstanding' = outstanding + 1
  /\ Goto(p, At("fs", None))
  /\ UNCHANGED <<load, procVars, groupVars, memVars, nextpid, panicked>>

FsEnd(p) ==
  /\ Is(p, "fs")
  /\ outstanding' = outstanding - 1
  /\ Goto(p, User)
  /\ UNCHANGED <<load, procVars, groupVars, memVars, nextpid, panicked>>

-----------------------------------------------------------------------------
\* userinit(): init alone.
Init ==
  /\ load \in Loads
  /\ state = [q \in Procs |-> IF q = initproc THEN "RUNNABLE" ELSE "UNUSED"]
  /\ pid = [q \in Procs |-> IF q = initproc THEN 1 ELSE 0]
  /\ parent = [q \in Procs |-> None]
  /\ killed = [q \in Procs |-> FALSE]
  /\ isThread = [q \in Procs |-> FALSE]
  /\ main_pid = [q \in Procs |-> IF q = initproc THEN 1 ELSE 0]
  /\ main_thread = [q \in Procs |-> IF q = initproc THEN initproc ELSE None]
  /\ cnt = [q \in Procs |-> 0]
  /\ table = [q \in Procs |-> IF q = initproc THEN 1 ELSE None]
  /\ tf = [q \in Procs |-> 0]
  /\ sz = [q \in Procs |-> IF q = initproc THEN 1 ELSE 0]
  /\ pages = [t \in Tables |-> IF t = 1 THEN 1 ELSE 0]
  /\ maps = [t \in Tables |-> IF t = 1 THEN {0} ELSE {}]
  /\ op = [q \in Procs |-> User]
  /\ nextpid = 2
  /\ outstanding = 0
  /\ panicked = "none"

\* What a process does next in the kernel, or once it is killed.
Proceed(p) ==
  \/ ForkParent(p)
  \/ ForkDone(p)
  \/ killed[p] /\ ExitStart(p)
  \/ ExitEnd(p)
  \/ op[p].pc = "wait" /\ (WaitReap(p) \/ WaitSleep(p) \/ WaitReturn(p))
  \/ op[p].pc = "join" /\ (JoinReap(p) \/ JoinSleep(p) \/ JoinReturn(p))
  \/ KillRead(p)
  \/ KillMark(p)
  \/ ExecNoFile(p)
  \/ ExecTable(p)
  \/ ExecBad(p)
  \/ ExecLoaded(p)
  \/ ExecCommit(p)
  \/ ExecCleanMain(p)
  \/ ExecCleanThread(p)
  \/ FsEnd(p)

\* The system calls a program makes.
Syscall(p) ==
  \/ ForkAlloc(p)
  \/ paull04_clone(p)
  \/ CloneFails(p)
  \/ ~killed[p] /\ ExitStart(p)
  \/ op[p].pc = "user" /\ (WaitReap(p) \/ WaitSleep(p))
  \/ op[p].pc = "user" /\ (JoinReap(p) \/ JoinSleep(p))
  \/ JoinBadPointer(p)
  \/ \E k \in 0 .. MaxPid : KillFind(p, k)
  \/ \E n \in 1 .. MaxSize : growproc(p, n)
  \/ GrowprocFails(p)
  \/ ExecStart(p)
  \/ FsBegin(p)

Next == \E p \in Procs : Proceed(p) \/ Syscall(p)

Spec == Init /\ [][Next]_vars

\* The scheduler runs every RUNNABLE process again and again.  A program may
\* compute for ever and never make another system call.
Fairness == \A p \in Procs : WF_vars(Proceed(p))

FairSpec == Spec /\ Fairness

-----------------------------------------------------------------------------
(* Properties.                                                             *)

\* Every variable has its type.
TypeOK ==
  /\ state \in [Procs -> {"UNUSED", "USED", "RUNNABLE", "SLEEPING", "ZOMBIE"}]
  /\ pid \in [Procs -> 0 .. MaxPid] /\ main_pid \in [Procs -> 0 .. MaxPid]
  /\ parent \in [Procs -> Procs \cup {None}]
  /\ main_thread \in [Procs -> Procs \cup {None}]
  /\ killed \in [Procs -> BOOLEAN] /\ isThread \in [Procs -> BOOLEAN]
  /\ cnt \in [Procs -> 0 .. MaxPid]
  /\ tf \in [Procs -> 0 .. MaxPid]
  /\ table \in [Procs -> Tables \cup {None}]
  /\ sz \in [Procs -> 0 .. MaxSize]
  /\ pages \in [Tables -> 0 .. MaxSize]
  /\ maps \in [Tables -> SUBSET (0 .. MaxPid)]
  /\ nextpid \in 2 .. MaxPid + 1
  /\ outstanding \in Nat

\* A thread never outlives its main thread: while a thread is in use, its main
\* thread is a process with the pid the thread remembers, is the thread's
\* parent, and has not exited.
ThreadHasMain ==
  \A p \in Procs : isThread[p] =>
    LET m == main_thread[p]
    IN  /\ m \in Procs /\ ~isThread[m] /\ pid[m] = main_pid[p]
        /\ parent[p] = m
        /\ state[m] \in {"RUNNABLE", "SLEEPING"}

\* No page table is used after it was freed: those of processes and threads,
\* and the one an exec() is filling or has still to free, are live, in whatever
\* order exec(), exit(), join() and cleanAllThreads() let go of a shared one.
TablesLive ==
  \A p \in Procs :
    /\ Used(p) => pages[table[p]] # 0
    /\ op[p].tbl # None /\ op[p].arg \in {None, p} => pages[op[p].tbl] # 0

\* The threads of a process know its size, whoever calls sbrk(), as long as
\* nobody calls exec(): a thread that calls sbrk() between the new image of its
\* main thread and cleanAllThreads() resizes that image, not its own.
SizesAgree ==
  load.calls \cap {"exec", "threadexec"} = {} =>
    \A p \in Procs : Used(p) => sz[p] = pages[table[p]]

\* A program resumes only with its trapframe mapped, and no two threads have
\* theirs at the same address, also after threads were joined (report.md:
\* "without overlap"), as long as no thread but the main one calls exec().  A
\* clone() between the new image of the main thread, which starts cnt again, and
\* cleanAllThreads() may find its address taken: the kernel panics then.
TrapframesApart ==
  panicked = "none" /\ "threadexec" \notin load.calls =>
    \A p \in Procs : Used(p) =>
      /\ tf[p] \in maps[table[p]]
      /\ \A q \in Procs \ {p} : Used(q) /\ table[q] = table[p] => tf[q] # tf[p]

\* A thread group is sound: its threads have a live main thread and a live page
\* table, in which each has a trapframe of its own.
GroupInv == TypeOK /\ ThreadHasMain /\ TablesLive /\ TrapframesApart

\* fork(), clone(), exit(), wait(), join() and sbrk() never panic the kernel in
\* whatever order the processes and the threads of a group make them, as long
\* as threads do not fork or join, nobody kills and memory suffices.
Peaceful == {"fork", "clone", "threadclone", "exit", "wait", "join", "sbrk"}
NoPanic == load.calls \subseteq Peaceful => panicked = "none"

\* Nobody sleeps in wait() over an exited child, or a main thread in join()
\* over an exited thread, although both sleep on the same channel.
NoMissedExit ==
  \A p \in Procs : state[p] = "SLEEPING" /\ panicked = "none" =>
    /\ op[p].pc = "wait" => Zombies(WaitedFor(p)) = {}
    /\ op[p].pc = "join" /\ ~isThread[p] => Zombies(ThreadsOf(main_pid[p])) = {}

\* A main thread marked killed, until it and all its threads have ended.
Doomed(m) ==
  killed[m] /\ Used(m) /\ ~isThread[m] /\ ~(state[m] = "ZOMBIE" /\ ThreadsOf(pid[m]) = {})

\* kill() of a process ends it with all its threads ("all threads", report.md):
\* no marked group is left in the end, unless the kernel panics first, or exec()
\* of another thread marked it and left it asleep.
KillEndsGroup ==
  ((\E m \in Procs : Doomed(m)) /\ "threadexec" \notin load.calls) ~>
    (panicked # "none" \/ \A m \in Procs : ~Doomed(m))
=============================================================================
