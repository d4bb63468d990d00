--------------------------- MODULE Threads_proofs ---------------------------
(***************************************************************************)
(* Proofs about module Threads, for every size of the process table and    *)
(* every set of loads: thread groups are sound, their sizes agree, nobody  *)
(* misses an exit, and the calls of Peaceful never panic the kernel.       *)
(***************************************************************************)
EXTENDS Threads, FiniteSetTheorems, WellFoundedInduction, TLAPS

-----------------------------------------------------------------------------
(* The inductive invariant.                                                *)

PCs == {"user", "fork", "forked", "exit", "wait", "join", "kill", "mark", "exec", "load",
        "loaded", "commit", "fs"}

OpSet == [pc : PCs, arg : Procs \cup {None}, tbl : Tables \cup {None}, sz : 0 .. MaxSize]

Types ==
  /\ load \in Loads
  /\ state \in [Procs -> {"UNUSED", "USED", "RUNNABLE", "SLEEPING", "ZOMBIE"}]
  /\ pid \in [Procs -> 0 .. MaxPid] /\ main_pid \in [Procs -> 0 .. MaxPid]
  /\ parent \in [Procs -> Procs \cup {None}]
  /\ main_thread \in [Procs -> Procs \cup {None}]
  /\ killed \in [Procs -> BOOLEAN] /\ isThread \in [Procs -> BOOLEAN]
  /\ cnt \in [Procs -> 0 .. MaxPid]
  /\ tf \in [Procs -> 0 .. MaxPid]
  /\ table \in [Procs -> Tables \cup {None}]
  /\ sz \in [Procs -> 0 .. MaxSize]
  /\ pages \in [Tables -> 0 .. MaxSize]
  /\ maps \in [Tables -> SUBSET (0 .. MaxPid)]
  /\ nextpid \in 2 .. MaxPid + 1
  /\ op \in [Procs -> OpSet]

\* p has been made and has not exited.
Alive(p) == state[p] \in {"RUNNABLE", "SLEEPING"}

\* A pid is given once.  cnt counts pids given since the slot was made.
Pids ==
  /\ \A p \in Procs : pid[p] < nextpid /\ cnt[p] < nextpid - 1
  /\ \A p, q \in Procs : pid[p] = pid[q] /\ pid[p] # 0 => p = q

\* What a slot holds in each state.
Slot(p) ==
  /\ state[p] \in {"UNUSED", "USED"} => ~isThread[p] /\ main_pid[p] = 0 /\ main_thread[p] = None
  /\ Used(p) => pid[p] # 0 /\ sz[p] # 0 /\ table[p] # None
  /\ state[p] \notin {"UNUSED", "USED"} /\ ~isThread[p] => main_pid[p] = pid[p] /\ main_thread[p] = p
  /\ ~Alive(p) => op[p] = User
  /\ state[p] = "SLEEPING" => op[p].pc \in {"wait", "join"}

\* A thread has a main thread that is not about to exit.
Member(p) ==
  isThread[p] =>
    /\ main_thread[p] \in Procs \ {initproc} /\ ~isThread[main_thread[p]]
    /\ pid[main_thread[p]] = main_pid[p] /\ parent[p] = main_thread[p]
    /\ Alive(main_thread[p]) /\ op[main_thread[p]].pc # "exit"

\* The local variables of a system call.
Locals(p) ==
  /\ op[p].pc \in {"fork", "forked"} => op[p].arg \in Procs /\ state[op[p].arg] = "USED"
  /\ op[p].pc \in {"load", "loaded"} => op[p].arg = None
  /\ op[p].pc \in {"loaded", "commit"} => op[p].sz # 0
  /\ op[p].pc \in {"kill", "commit"} => op[p].arg \in Procs
  /\ op[p].pc = "mark" => op[p].arg \in Procs \/ panicked # "none"
  /\ op[p].pc \in {"kill", "mark", "commit"} => op[p].arg # initproc
  /\ op[p].pc \in {"load", "loaded", "commit"} <=> op[p].tbl # None
  /\ op[p].pc = "commit" => ~isThread[p]

\* A child half-way through fork() has one parent.
OneParent ==
  \A p, q \in Procs : op[p].pc \in {"fork", "forked"} /\ op[q].pc \in {"fork", "forked"}
                      /\ op[p].arg = op[q].arg => p = q

\* init neither exits nor is killed.
InitLives ==
  /\ Alive(initproc) /\ ~isThread[initproc] /\ ~killed[initproc]
  /\ op[initproc].pc \in {"user", "fork", "forked", "wait"}

ParentAlive == \A p \in Procs : parent[p] # None => Alive(parent[p])

GInv ==
  /\ Types /\ Pids /\ OneParent /\ InitLives /\ ParentAlive
  /\ \A p \in Procs : Slot(p) /\ Member(p) /\ Locals(p)

\* t is a page table of p alone, or of the group of p.
Owns(p, t) ==
  \/ Used(p) /\ ~isThread[p] /\ t = table[p]
  \/ t # None /\ t = op[p].tbl /\ op[p].arg \in {None, p}

\* The table of the threads of m.
Home(m) == IF op[m].pc = "commit" /\ op[m].arg = m THEN op[m].tbl ELSE table[m]

TableInv ==
  /\ \A p \in Procs : \A t \in Tables \cup {None} : Owns(p, t) => t \in Tables /\ pages[t] # 0
  /\ \A p, q \in Procs : \A t \in Tables \cup {None} : Owns(p, t) /\ Owns(q, t) => p = q
  /\ \A p \in Procs : Used(p) /\ ~isThread[p] /\ op[p].tbl # None /\ op[p].arg \in {None, p} =>
       table[p] # op[p].tbl
  /\ \A p \in Procs : isThread[p] => table[p] = Home(main_thread[p])

\* Trapframes, as long as no thread but the main one calls exec().
TrapInv ==
  "threadexec" \notin load.calls =>
    /\ \A p \in Procs :
         /\ Used(p) /\ ~isThread[p] => tf[p] = 0
         /\ op[p].pc \in {"exec", "load", "loaded", "commit"} => ~isThread[p]
         /\ op[p].pc \in {"load", "loaded"} => 0 \in maps[op[p].tbl]
    /\ TrapframesApart

SizeInv ==
  load.calls \cap {"exec", "threadexec"} = {} =>
    /\ \A p \in Procs : op[p].pc \notin {"exec", "load", "loaded", "commit"}
    /\ \A p \in Procs : Used(p) => sz[p] = pages[table[p]]

\* Without panics the trapframes mapped are those of the group.
PeaceInv ==
  load.calls \subseteq Peaceful =>
    /\ panicked = "none"
    /\ \A p \in Procs : op[p].pc \in {"user", "fork", "forked", "exit", "wait", "join"}
    /\ \A p \in Procs : op[p].pc \in {"fork", "forked"} => ~isThread[p]
    /\ \A p \in Procs : parent[p] # None => ~isThread[parent[p]]
    /\ \A m \in Procs : Used(m) /\ ~isThread[m] =>
         \A x \in maps[table[m]] :
           /\ x <= cnt[m]
           /\ x = 0 \/ \E q \in Procs : isThread[q] /\ main_thread[q] = m /\ tf[q] = x

\* The processes between begin_op() and end_op().
Busy == {p \in Procs : op[p].pc \in {"exit", "exec", "load", "fs"}}

BusyInv == outstanding \in Nat /\ Cardinality(Busy) <= outstanding

IInv == GInv /\ TableInv /\ TrapInv /\ SizeInv /\ PeaceInv /\ BusyInv /\ NoMissedExit

-----------------------------------------------------------------------------
(* Constants, numbers and local variables.                                 *)

LEMMA Least ==
  ASSUME NEW S \in SUBSET Nat, S # {}
  PROVE  First(S) \in S
<1> DEFINE R == OpToRel(<, Nat)
<1>1. \A x, y \in Nat : <<x, y>> \in R <=> x < y
  BY DEF OpToRel
<1>2. IsWellFoundedOn(R, Nat)
  BY NatLessThanWellFounded
<1> HIDE DEF R
<1>3. PICK x \in S : \A y \in S : ~(<<y, x>> \in R)
  BY <1>2, WFMin
<1>4. \A y \in S : x <= y
  <2> TAKE y \in S
  <2>1. x \in Nat /\ y \in Nat
    OBVIOUS
  <2>2. ~(y < x)
    BY <1>1, <1>3, <2>1
  <2> QED
    BY <2>1, <2>2
<1> QED
  BY <1>4 DEF First

LEMMA Constants ==
  /\ initproc \in Procs /\ None \notin Procs /\ None \notin Tables
  /\ Procs \subseteq Nat /\ Tables \subseteq Nat
  /\ IsFiniteSet(Procs)
<1>1. IsFiniteSet(Procs)
  BY NPROCAssumption, FS_Interval DEF Procs
<1> QED
  BY <1>1, NPROCAssumption DEF Procs, Tables, initproc, None

LEMMA Bounds ==
  ASSUME load \in Loads
  PROVE  MaxPid \in Nat \ {0} /\ MaxSize \in Nat \ {0} /\ load.slots \in 1 .. NPROC
BY BoundsAssumption DEF MaxPid, MaxSize

\* allocproc() and kvm give out a free slot and a free page table.
LEMMA FirstUnused ==
  ASSUME load \in Loads, Unused # {}
  PROVE  First(Unused) \in Procs /\ state[First(Unused)] = "UNUSED"
<1>1. Unused \subseteq Procs
  BY Bounds, NPROCAssumption DEF Unused, Procs
<1>2. Unused \in SUBSET Nat
  BY <1>1, Constants
<1>3. First(Unused) \in Unused
  BY <1>2, Least
<1> QED
  BY <1>1, <1>3 DEF Unused

LEMMA FirstTable ==
  ASSUME FreeTables # {}
  PROVE  NewTable \in Tables /\ pages[NewTable] = 0
<1>1. FreeTables \in SUBSET Nat
  BY Constants DEF FreeTables
<1>2. NewTable \in FreeTables
  BY <1>1, Least DEF NewTable
<1> QED
  BY <1>2 DEF FreeTables

LEMMA AtFields ==
  /\ \A pc, q : /\ At(pc, q).pc = pc /\ At(pc, q).arg = q /\ At(pc, q).tbl = None /\ At(pc, q).sz = 0
  /\ User.pc = "user" /\ User.arg = None /\ User.tbl = None /\ User.sz = 0
BY DEF At, User

LEMMA AtTypes ==
  ASSUME load \in Loads
  PROVE  /\ \A pc \in PCs, q \in Procs \cup {None} : At(pc, q) \in OpSet
         /\ User \in OpSet
<1>1. 0 \in 0 .. MaxSize
  BY Bounds
<1>2. \A pc \in PCs, q \in Procs \cup {None} : At(pc, q) \in OpSet
  BY <1>1 DEF At, OpSet
<1> QED
  BY <1>2 DEF User, PCs

\* Only p moves.
LEMMA OpMove ==
  ASSUME Types, NEW p \in Procs, NEW o, op' = [op EXCEPT ![p] = o]
  PROVE  /\ op'[p] = o /\ \A q \in Procs : q # p => op'[q] = op[q]
         /\ o \in OpSet => op' \in [Procs -> OpSet]
BY DEF Types

\* A step of p is a step of a live process that is not killed in mid-call.
LEMMA Runs ==
  ASSUME NEW p, NEW c, Is(p, c)
  PROVE  panicked = "none" /\ state[p] = "RUNNABLE" /\ Alive(p) /\ op[p].pc = c
BY DEF Is, Alive

LEMMA InUserRuns ==
  ASSUME NEW p, NEW c, InUser(p, c)
  PROVE  /\ panicked = "none" /\ state[p] = "RUNNABLE" /\ Alive(p) /\ op[p].pc = "user"
         /\ ~killed[p] /\ c \in load.calls /\ (p = initproc => c \in {"fork", "wait"})
BY DEF InUser, Is, Alive

-----------------------------------------------------------------------------
(* Slots, groups and system calls.                                         *)

\* A step that changes at most the memory of processes, marks, and where p is in
\* the kernel.
LEMMA GMove ==
  ASSUME GInv, Types', NEW p \in Procs, state[p] = "RUNNABLE", panicked = "none",
         UNCHANGED <<load, state, pid, parent, isThread, main_pid, main_thread, cnt, table, nextpid>>,
         \A q \in Procs : q # p => op'[q] = op[q], Locals(p)',
         op'[p].pc \notin {"fork", "forked", "exit"}, p = initproc => op'[p].pc \in {"user", "wait"},
         ~killed'[initproc], \A q \in Procs : Used(q) => sz'[q] # 0
  PROVE  GInv'
<1>0. /\ Types /\ Pids /\ OneParent /\ InitLives /\ ParentAlive
      /\ \A q \in Procs : Slot(q) /\ Member(q) /\ Locals(q)
  BY DEF GInv
<1>1. Pids' /\ OneParent' /\ InitLives' /\ ParentAlive'
  <2>1. Pids'
    BY <1>0 DEF Pids
  <2>2. OneParent'
    BY <1>0 DEF OneParent
  <2>3. InitLives'
    BY <1>0, Constants DEF InitLives, Alive
  <2>4. ParentAlive'
    BY <1>0 DEF ParentAlive, Alive
  <2> QED
    BY <2>1, <2>2, <2>3, <2>4
<1>2. ASSUME NEW q \in Procs PROVE Slot(q)' /\ Member(q)' /\ Locals(q)'
  <2>1. Slot(q)'
    BY <1>0 DEF Slot, Used, Alive
  <2>2. Member(q)'
    BY <1>0 DEF Member, Alive
  <2>3. Locals(q)'
    BY <1>0 DEF Locals
  <2> QED
    BY <2>1, <2>2, <2>3
<1> QED
  BY <1>1, <1>2 DEF GInv

\* p returns to its program, or goes on with no local variables.
LEMMA GReturn ==
  ASSUME GInv, NEW p \in Procs, state[p] = "RUNNABLE", panicked = "none",
         UNCHANGED <<load, procVars, groupVars, table, sz, nextpid>>,
         tf' \in [Procs -> 0 .. MaxPid], pages' \in [Tables -> 0 .. MaxSize], maps' \in [Tables -> SUBSET (0 .. MaxPid)],
         NEW c \in {"user", "exec", "fs", "wait", "join"}, p = initproc => c \in {"user", "wait"},
         op' = [op EXCEPT ![p] = At(c, None)]
  PROVE  GInv'
<1>0. Types /\ InitLives /\ load \in Loads /\ \A q \in Procs : Slot(q)
  BY DEF GInv, Types
<1>1. At(c, None) \in OpSet
  BY <1>0, AtTypes DEF PCs
<1>2. op'[p] = At(c, None) /\ op' \in [Procs -> OpSet] /\ \A q \in Procs : q # p => op'[q] = op[q]
  BY <1>0, <1>1, OpMove
<1>3. op'[p].pc = c /\ op'[p].arg = None /\ op'[p].tbl = None
  BY <1>2, AtFields
<1>4. Types'
  BY <1>0, <1>2 DEF Types, procVars, groupVars, OpSet, MaxPid, MaxSize
<1>5. Locals(p)'
  BY <1>3 DEF Locals
<1>6. \A q \in Procs : Used(q) => sz'[q] # 0
  BY <1>0 DEF Slot
<1>7. ~killed'[initproc]
  BY <1>0 DEF InitLives, procVars
<1> QED
  BY <1>2, <1>3, <1>4, <1>5, <1>6, <1>7, GMove DEF procVars, groupVars, memVars

LEMMA GSame ==
  ASSUME GInv, UNCHANGED <<load, procVars, groupVars, memVars, op, nextpid>>, panicked' = panicked \/ panicked' # "none"
  PROVE  GInv'
<1>0. /\ Types /\ Pids /\ OneParent /\ InitLives /\ ParentAlive
      /\ \A q \in Procs : Slot(q) /\ Member(q) /\ Locals(q)
  BY DEF GInv
<1>1. Types'
  BY <1>0 DEF Types, procVars, groupVars, memVars, OpSet, MaxPid, MaxSize
<1>2. Pids' /\ OneParent'
  BY <1>0 DEF Pids, OneParent, procVars, groupVars
<1>3. InitLives' /\ ParentAlive'
  BY <1>0 DEF InitLives, ParentAlive, Alive, procVars, groupVars
<1>4. ASSUME NEW q \in Procs PROVE Slot(q)' /\ Member(q)' /\ Locals(q)'
  <2>1. Slot(q) /\ Member(q) /\ Locals(q)
    BY <1>0
  <2>2. Slot(q)'
    BY <2>1 DEF Slot, Used, Alive, procVars, groupVars, memVars
  <2>3. Member(q)'
    BY <2>1 DEF Member, Alive, procVars, groupVars
  <2>4. Locals(q)'
    BY <2>1 DEF Locals, procVars, groupVars
  <2> QED
    BY <2>2, <2>3, <2>4
<1> QED
  BY <1>1, <1>2, <1>3, <1>4 DEF GInv

\* System calls that begin or end, and change nothing else of slots and groups.
LEMMA GCalls ==
  ASSUME GInv, NEW p \in Procs,
         \/ WaitReturn(p) \/ JoinReturn(p)
         \/ ExecStart(p) \/ ExecNoFile(p) \/ ExecBad(p) \/ FsBegin(p) \/ FsEnd(p)
  PROVE  GInv'
<1>0. Types /\ load \in Loads /\ InitLives /\ Locals(p)
  BY DEF GInv, Types
<1>1. \A S : Unmapped(S) \in [Tables -> SUBSET (0 .. MaxPid)]
  BY <1>0 DEF Types, Unmapped
<1>2. CASE WaitReturn(p) \/ JoinReturn(p) \/ ExecNoFile(p) \/ FsEnd(p)
  <2>1. /\ state[p] = "RUNNABLE" /\ panicked = "none" /\ op' = [op EXCEPT ![p] = At("user", None)]
        /\ UNCHANGED <<load, procVars, groupVars, memVars, nextpid>>
    BY <1>2 DEF WaitReturn, JoinReturn, ExecNoFile, FsEnd, Return, Goto, Is, User, sysVars
  <2> QED
    BY <1>0, <2>1, GReturn DEF memVars, Types
<1>3. CASE ExecStart(p)
  <2>1. state[p] = "RUNNABLE" /\ panicked = "none" /\ p # initproc
    BY <1>3, InUserRuns DEF ExecStart
  <2>2. /\ op' = [op EXCEPT ![p] = At("exec", None)]
        /\ UNCHANGED <<load, procVars, groupVars, table, tf, sz, pages, nextpid>>
        /\ maps' = IF isThread[p] THEN Unmapped({p}) ELSE maps
    BY <1>3 DEF ExecStart, Goto
  <2>3. maps' \in [Tables -> SUBSET (0 .. MaxPid)]
    BY <1>0, <1>1, <2>2 DEF Types
  <2> QED
    BY <1>0, <2>1, <2>2, <2>3, GReturn DEF Types
<1>4. CASE FsBegin(p)
  <2>1. state[p] = "RUNNABLE" /\ panicked = "none" /\ p # initproc
    BY <1>4, InUserRuns DEF FsBegin
  <2>2. op' = [op EXCEPT ![p] = At("fs", None)] /\ UNCHANGED <<load, procVars, groupVars, memVars, nextpid>>
    BY <1>4 DEF FsBegin, Goto
  <2> QED
    BY <1>0, <2>1, <2>2, GReturn DEF memVars, Types
<1>5. CASE ExecBad(p)
  <2>1. /\ state[p] = "RUNNABLE" /\ panicked = "none" /\ op[p].pc = "load"
        /\ op' = [op EXCEPT ![p] = At("user", None)]
        /\ pages' = [pages EXCEPT ![op[p].tbl] = 0]
        /\ maps' = [maps EXCEPT ![op[p].tbl] = {}]
        /\ UNCHANGED <<load, procVars, groupVars, table, tf, sz, nextpid>>
    BY <1>5 DEF ExecBad, Is, Goto, User
  <2>2. pages' \in [Tables -> 0 .. MaxSize] /\ maps' \in [Tables -> SUBSET (0 .. MaxPid)]
    <3>1. 0 \in 0 .. MaxSize
      BY <1>0, Bounds
    <3> QED
      BY <1>0, <2>1, <3>1 DEF Types
  <2> QED
    BY <1>0, <2>1, <2>2, GReturn DEF Types
<1> QED
  BY <1>2, <1>3, <1>4, <1>5

\* kill() goes on with a slot that is not init's.
LEMMA GKillTo ==
  ASSUME GInv, NEW p \in Procs, p # initproc, state[p] = "RUNNABLE", panicked = "none",
         UNCHANGED <<load, procVars, groupVars, memVars, nextpid>>,
         NEW c \in {"kill", "mark"}, NEW m \in Procs \cup {None}, op' = [op EXCEPT ![p] = At(c, m)],
         m # initproc, m = None => c = "mark" /\ panicked' = "null"
  PROVE  GInv'
<1>0. Types /\ InitLives /\ load \in Loads /\ \A q \in Procs : Slot(q)
  BY DEF GInv, Types
<1>1. At(c, m) \in OpSet
  BY <1>0, AtTypes DEF PCs
<1>2. op'[p] = At(c, m) /\ op' \in [Procs -> OpSet] /\ \A q \in Procs : q # p => op'[q] = op[q]
  BY <1>0, <1>1, OpMove
<1>3. op'[p].pc = c /\ op'[p].arg = m /\ op'[p].tbl = None
  BY <1>2, AtFields
<1>4. Types'
  BY <1>0, <1>2 DEF Types, procVars, groupVars, memVars, OpSet, MaxPid, MaxSize
<1>5. Locals(p)'
  BY <1>3 DEF Locals
<1>6. \A q \in Procs : Used(q) => sz'[q] # 0
  BY <1>0 DEF Slot, memVars
<1>7. ~killed'[initproc]
  BY <1>0 DEF InitLives, procVars
<1> QED
  BY <1>2, <1>3, <1>4, <1>5, <1>6, <1>7, GMove DEF procVars, groupVars, memVars

LEMMA GKillFind ==
  ASSUME GInv, NEW p \in Procs, NEW k, KillFind(p, k)
  PROVE  GInv'
<1> DEFINE Q == {q \in Procs : pid[q] = k}
<1>1. /\ InUser(p, "kill") /\ Q # {} /\ First(Q) # initproc
      /\ op' = [op EXCEPT ![p] = At("kill", First(Q))]
      /\ UNCHANGED <<load, procVars, groupVars, memVars, nextpid>>
  BY DEF KillFind, Goto, sysVars
<1>2. First(Q) \in Procs
  <2>1. Q \in SUBSET Nat
    BY Constants
  <2> QED
    BY <1>1, <2>1, Least
<1>3. state[p] = "RUNNABLE" /\ panicked = "none" /\ p # initproc
  BY <1>1, InUserRuns
<1> HIDE DEF Q
<1> QED
  BY <1>1, <1>2, <1>3, Constants, GKillTo

LEMMA GKillRead ==
  ASSUME GInv, NEW p \in Procs, KillRead(p)
  PROVE  GInv'
<1> DEFINE m == main_thread[op[p].arg]
<1>0. Types /\ InitLives /\ \A q \in Procs : Slot(q) /\ Member(q) /\ Locals(q)
  BY DEF GInv
<1>1. /\ op[p].pc = "kill" /\ op' = [op EXCEPT ![p] = At("mark", m)]
      /\ state[p] = "RUNNABLE" /\ panicked = "none"
      /\ UNCHANGED <<load, procVars, groupVars, memVars, nextpid>>
      /\ m = None => panicked' = "null"
  BY DEF KillRead, Is, Goto
<1>2. op[p].arg \in Procs \ {initproc} /\ p # initproc
  BY <1>0, <1>1 DEF Locals, InitLives
<1>3. m \in Procs \cup {None}
  BY <1>0, <1>2 DEF Types
<1>4. m # initproc
  <2>1. Slot(op[p].arg) /\ Member(op[p].arg)
    BY <1>0, <1>2
  <2> QED
    BY <1>0, <1>2, <2>1, Constants DEF Slot, Member, Types
<1> HIDE DEF m
<1> QED
  BY <1>1, <1>2, <1>3, <1>4, GKillTo

LEMMA GExecTable ==
  ASSUME GInv, NEW p \in Procs, ExecTable(p)
  PROVE  GInv'
<1> DEFINE o == [At("load", None) EXCEPT !.tbl = NewTable]
<1>0. Types /\ InitLives /\ load \in Loads /\ \A q \in Procs : Slot(q)
  BY DEF GInv, Types
<1>1. /\ op[p].pc = "exec" /\ state[p] = "RUNNABLE" /\ panicked = "none" /\ FreeTables # {}
      /\ pages' = [pages EXCEPT ![NewTable] = 1] /\ maps' = [maps EXCEPT ![NewTable] = {0}]
      /\ tf' = [tf EXCEPT ![p] = 0] /\ op' = [op EXCEPT ![p] = o]
      /\ UNCHANGED <<load, procVars, groupVars, table, sz, sysVars>>
  BY DEF ExecTable, Is, Goto
<1>2. NewTable \in Tables /\ p # initproc
  BY <1>0, <1>1, FirstTable DEF InitLives
<1>3. o.pc = "load" /\ o.arg = None /\ o.tbl = NewTable
  BY DEF At
<1>4. o \in OpSet
  <2>1. At("load", None) \in OpSet
    BY <1>0, AtTypes DEF PCs
  <2> QED
    BY <1>2, <2>1 DEF OpSet
<1> HIDE DEF o
<1>5. op'[p] = o /\ op' \in [Procs -> OpSet] /\ \A q \in Procs : q # p => op'[q] = op[q]
  BY <1>0, <1>1, <1>4, OpMove
<1>6. Types'
  <2>1. 1 \in 0 .. MaxSize /\ 0 \in 0 .. MaxPid
    BY <1>0, Bounds
  <2>2. pages' \in [Tables -> 0 .. MaxSize] /\ maps' \in [Tables -> SUBSET (0 .. MaxPid)] /\ tf' \in [Procs -> 0 .. MaxPid]
    BY <1>0, <1>1, <1>2, <2>1 DEF Types
  <2> QED
    BY <1>0, <1>1, <1>5, <2>2 DEF Types, procVars, groupVars, sysVars, OpSet, MaxPid, MaxSize
<1>7. Locals(p)'
  BY <1>2, <1>3, <1>5, Constants DEF Locals
<1>8. (\A q \in Procs : Used(q) => sz'[q] # 0) /\ ~killed'[initproc]
  BY <1>0, <1>1 DEF Slot, InitLives, procVars
<1> QED
  BY <1>1, <1>2, <1>3, <1>5, <1>6, <1>7, <1>8, GMove DEF procVars, groupVars, sysVars

LEMMA GExecLoaded ==
  ASSUME GInv, NEW p \in Procs, ExecLoaded(p)
  PROVE  GInv'
<1> DEFINE o == [op[p] EXCEPT !.pc = "loaded", !.sz = sz[p]]
<1>0. Types /\ InitLives /\ load \in Loads /\ Locals(p) /\ \A q \in Procs : Slot(q)
  BY DEF GInv, Types
<1>1. /\ op[p].pc = "load" /\ state[p] = "RUNNABLE" /\ panicked = "none"
      /\ op' = [op EXCEPT ![p] = o]
      /\ UNCHANGED <<load, procVars, groupVars, memVars, nextpid, panicked>>
  BY DEF ExecLoaded, Is, Goto
<1>2. p # initproc /\ sz[p] # 0
  <2>1. Slot(p) /\ Used(p)
    BY <1>0, <1>1 DEF Used
  <2> QED
    BY <1>0, <1>1, <2>1 DEF InitLives, Slot
<1>3. op[p] \in OpSet /\ sz[p] \in 0 .. MaxSize
  BY <1>0 DEF Types
<1>4. o.pc = "loaded" /\ o.arg = op[p].arg /\ o.tbl = op[p].tbl /\ o.sz = sz[p]
  BY <1>3 DEF OpSet
<1>5. o \in OpSet
  BY <1>3 DEF OpSet, PCs
<1> HIDE DEF o
<1>6. op'[p] = o /\ op' \in [Procs -> OpSet] /\ \A q \in Procs : q # p => op'[q] = op[q]
  BY <1>0, <1>1, <1>5, OpMove
<1>7. Types'
  BY <1>0, <1>1, <1>6 DEF Types, procVars, groupVars, memVars, OpSet, MaxPid, MaxSize
<1>8. Locals(p)'
  BY <1>0, <1>1, <1>2, <1>4, <1>6 DEF Locals
<1>9. (\A q \in Procs : Used(q) => sz'[q] # 0) /\ ~killed'[initproc]
  BY <1>0, <1>1 DEF Slot, InitLives, procVars, memVars
<1> QED
  BY <1>1, <1>2, <1>4, <1>6, <1>7, <1>8, <1>9, GMove DEF procVars, groupVars, memVars

LEMMA GGrowproc ==
  ASSUME GInv, NEW p \in Procs, NEW n \in 1 .. MaxSize, growproc(p, n)
  PROVE  GInv'
<1>0. Types /\ InitLives /\ load \in Loads /\ \A q \in Procs : Slot(q) /\ Member(q) /\ Locals(q)
  BY DEF GInv, Types
<1>1. /\ InUser(p, "sbrk") /\ pages' = [pages EXCEPT ![table[main_thread[p]]] = n]
      /\ sz' = [q \in Procs |-> IF main_pid[q] = pid[main_thread[p]] THEN n ELSE sz[q]]
      /\ UNCHANGED <<load, procVars, groupVars, table, tf, maps, op, sysVars>>
  BY DEF growproc, Resized
<1>2. state[p] = "RUNNABLE" /\ panicked = "none" /\ p # initproc /\ op[p].pc = "user"
  BY <1>1, InUserRuns
<1>3. n \in 0 .. MaxSize /\ n # 0
  BY <1>0, Bounds
<1>4. Types'
  <2>1. sz' \in [Procs -> 0 .. MaxSize] /\ pages' \in [Tables -> 0 .. MaxSize]
    BY <1>0, <1>1, <1>3 DEF Types
  <2> QED
    BY <1>0, <1>1, <2>1 DEF Types, procVars, groupVars, OpSet, MaxPid, MaxSize, sysVars
<1>5. Locals(p)'
  BY <1>0, <1>1 DEF Locals, groupVars, procVars, sysVars
<1>6. ASSUME NEW q \in Procs, Used(q) PROVE sz'[q] # 0
  BY <1>0, <1>1, <1>3, <1>6 DEF Slot
<1>7. ~killed'[initproc]
  BY <1>0, <1>1 DEF InitLives, procVars
<1> QED
  BY <1>1, <1>2, <1>4, <1>5, <1>6, <1>7, GMove DEF procVars, groupVars, sysVars

\* fork() takes a slot.
LEMMA GForkAlloc ==
  ASSUME GInv, NEW p \in Procs, ForkAlloc(p)
  PROVE  GInv'
<1>0. /\ Types /\ Pids /\ OneParent /\ InitLives /\ ParentAlive /\ load \in Loads
      /\ \A q \in Procs : Slot(q) /\ Member(q) /\ Locals(q)
  BY DEF GInv, Types
<1> DEFINE np == First(Unused)
<1>1. /\ Unused # {} /\ nextpid <= MaxPid /\ FreeTables # {}
      /\ state' = [state EXCEPT ![np] = "USED"] /\ pid' = [pid EXCEPT ![np] = nextpid]
      /\ nextpid' = nextpid + 1 /\ table' = [table EXCEPT ![np] = NewTable]
      /\ pages' = [pages EXCEPT ![NewTable] = sz[p]] /\ maps' = [maps EXCEPT ![NewTable] = {0}]
      /\ tf' = [tf EXCEPT ![np] = 0] /\ sz' = [sz EXCEPT ![np] = sz[p]]
      /\ op' = [op EXCEPT ![p] = At("fork", np)]
      /\ UNCHANGED <<load, parent, killed, groupVars, outstanding, panicked>>
  BY DEF ForkAlloc, Goto
<1>2. /\ state[p] = "RUNNABLE" /\ panicked = "none" /\ Alive(p) /\ op[p].pc = "user"
  BY InUserRuns DEF ForkAlloc
<1>3. np \in Procs /\ state[np] = "UNUSED" /\ NewTable \in Tables
  BY <1>0, <1>1, FirstUnused, FirstTable
<1> HIDE DEF np
<1>4. At("fork", np) \in OpSet
  BY <1>0, <1>3, AtTypes DEF PCs
<1>5. op'[p] = At("fork", np) /\ op' \in [Procs -> OpSet] /\ \A q \in Procs : q # p => op'[q] = op[q]
  BY <1>0, <1>1, <1>4, OpMove
<1>6. op'[p].pc = "fork" /\ op'[p].arg = np /\ op'[p].tbl = None
  BY <1>5, AtFields
<1>7. nextpid \in 0 .. MaxPid /\ nextpid + 1 \in 2 .. MaxPid + 1 /\ nextpid # 0 /\ nextpid \in Nat /\ 0 \in 0 .. MaxPid
  BY <1>0, <1>1, Bounds DEF Types
<1>8. sz[p] \in 0 .. MaxSize /\ sz[p] # 0
  BY <1>0, <1>2 DEF Types, Slot, Used
<1>9. Types'
  <2>1. /\ state' \in [Procs -> {"UNUSED", "USED", "RUNNABLE", "SLEEPING", "ZOMBIE"}]
        /\ pid' \in [Procs -> 0 .. MaxPid] /\ tf' \in [Procs -> 0 .. MaxPid]
    BY <1>0, <1>1, <1>7 DEF Types
  <2>2. /\ table' \in [Procs -> Tables \cup {None}] /\ sz' \in [Procs -> 0 .. MaxSize]
        /\ pages' \in [Tables -> 0 .. MaxSize] /\ maps' \in [Tables -> SUBSET (0 .. MaxPid)]
    BY <1>0, <1>1, <1>3, <1>7, <1>8 DEF Types
  <2> QED
    BY <1>0, <1>1, <1>5, <1>7, <2>1, <2>2 DEF Types, groupVars, OpSet, MaxPid, MaxSize
<1>10. /\ state'[np] = "USED" /\ pid'[np] = nextpid /\ sz'[np] = sz[p] /\ table'[np] = NewTable
       /\ \A q \in Procs : q # np => /\ state'[q] = state[q] /\ pid'[q] = pid[q]
                                     /\ sz'[q] = sz[q] /\ table'[q] = table[q]
  BY <1>0, <1>1, <1>3 DEF Types
<1>11. np # p /\ np # initproc
  BY <1>0, <1>2, <1>3 DEF InitLives, Alive
<1>12. Pids'
  <2>1. \A q \in Procs : pid[q] \in Nat /\ cnt[q] \in Nat
    BY <1>0 DEF Types
  <2>2. \A q \in Procs : pid'[q] < nextpid' /\ cnt'[q] < nextpid' - 1
    BY <1>0, <1>1, <1>7, <1>10, <2>1 DEF Pids, groupVars
  <2>3. \A q, r \in Procs : pid'[q] = pid'[r] /\ pid'[q] # 0 => q = r
    <3>1. \A q \in Procs : pid[q] # nextpid
      BY <1>0, <1>7, <2>1 DEF Pids
    <3> QED
      BY <1>0, <1>10, <3>1 DEF Pids
  <2> QED
    BY <2>2, <2>3 DEF Pids
<1>13. OneParent'
  <2>1. \A q \in Procs : op[q].pc \in {"fork", "forked"} => op[q].arg # np
    BY <1>0, <1>3 DEF Locals
  <2> QED
    BY <1>0, <1>5, <1>6, <2>1 DEF OneParent
<1>14. InitLives' /\ ParentAlive'
  <2>1. InitLives'
    BY <1>0, <1>1, <1>5, <1>6, <1>10, <1>11, Constants DEF InitLives, Alive, groupVars
  <2>2. ParentAlive'
    BY <1>0, <1>1, <1>3, <1>10 DEF ParentAlive, Alive, Types
  <2> QED
    BY <2>1, <2>2
<1>15. ASSUME NEW q \in Procs PROVE Slot(q)' /\ Member(q)' /\ Locals(q)'
  <2>0. Slot(q) /\ Member(q) /\ Locals(q)
    BY <1>0
  <2>1. Slot(q)'
    <3>1. CASE q = np
      BY <1>1, <1>3, <1>5, <1>7, <1>8, <1>10, <1>11, <2>0, <3>1, Constants DEF Slot, Used, Alive, groupVars
    <3>2. CASE q # np
      BY <1>1, <1>2, <1>5, <1>10, <2>0, <3>2 DEF Slot, Used, Alive, groupVars
    <3> QED
      BY <3>1, <3>2
  <2>2. Member(q)'
    BY <1>1, <1>3, <1>5, <1>6, <1>10, <2>0 DEF Member, Alive, groupVars
  <2>3. Locals(q)'
    BY <1>1, <1>2, <1>3, <1>5, <1>6, <1>10, <2>0 DEF Locals, groupVars
  <2> QED
    BY <2>1, <2>2, <2>3
<1> QED
  BY <1>9, <1>12, <1>13, <1>14, <1>15 DEF GInv

LEMMA GForkParent ==
  ASSUME GInv, NEW p \in Procs, ForkParent(p)
  PROVE  GInv'
<1>0. /\ Types /\ Pids /\ OneParent /\ InitLives /\ ParentAlive /\ load \in Loads
      /\ \A q \in Procs : Slot(q) /\ Member(q) /\ Locals(q)
  BY DEF GInv, Types
<1>1. /\ op[p].pc = "fork" /\ state[p] = "RUNNABLE" /\ panicked = "none"
      /\ parent' = [parent EXCEPT ![op[p].arg] = p] /\ op' = [op EXCEPT ![p] = At("forked", op[p].arg)]
      /\ UNCHANGED <<load, state, pid, killed, groupVars, memVars, sysVars>>
  BY DEF ForkParent, Goto, Is
<1>2. PICK np \in Procs : np = op[p].arg /\ state[np] = "USED" /\ ~isThread[np]
  BY <1>0, <1>1 DEF Locals, Slot
<1>3. At("forked", np) \in OpSet
  BY <1>0, AtTypes DEF PCs
<1>4. op'[p] = At("forked", np) /\ op' \in [Procs -> OpSet] /\ \A q \in Procs : q # p => op'[q] = op[q]
  BY <1>0, <1>1, <1>2, <1>3, OpMove, ZenonT(60)
<1>5. op'[p].pc = "forked" /\ op'[p].arg = np /\ op'[p].tbl = None
  BY <1>4, AtFields
<1>6. parent' \in [Procs -> Procs \cup {None}] /\ parent'[np] = p /\ \A q \in Procs : q # np => parent'[q] = parent[q]
  BY <1>0, <1>1, <1>2 DEF Types
<1>7. Types'
  BY <1>0, <1>1, <1>4, <1>6 DEF Types, groupVars, memVars, sysVars, OpSet, MaxPid, MaxSize
<1>8. Pids' /\ OneParent' /\ InitLives' /\ ParentAlive'
  <2>1. Pids'
    BY <1>0, <1>1 DEF Pids, groupVars, sysVars
  <2>2. OneParent'
    BY <1>0, <1>1, <1>2, <1>4, <1>5 DEF OneParent
  <2>3. InitLives'
    BY <1>0, <1>1, <1>4, <1>5, Constants DEF InitLives, Alive, groupVars
  <2>4. ParentAlive'
    BY <1>0, <1>1, <1>6 DEF ParentAlive, Alive
  <2> QED
    BY <2>1, <2>2, <2>3, <2>4
<1>9. ASSUME NEW q \in Procs PROVE Slot(q)' /\ Member(q)' /\ Locals(q)'
  <2>0. Slot(q) /\ Member(q) /\ Locals(q)
    BY <1>0
  <2>1. Slot(q)'
    BY <1>1, <1>4, <2>0 DEF Slot, Used, Alive, groupVars, memVars
  <2>2. Member(q)'
    BY <1>1, <1>2, <1>4, <1>5, <1>6, <2>0 DEF Member, Alive, groupVars
  <2>3. Locals(q)'
    BY <1>1, <1>2, <1>4, <1>5, <2>0 DEF Locals, groupVars, sysVars
  <2> QED
    BY <2>1, <2>2, <2>3
<1> QED
  BY <1>7, <1>8, <1>9 DEF GInv

LEMMA GForkDone ==
  ASSUME GInv, NEW p \in Procs, ForkDone(p)
  PROVE  GInv'
<1>0. /\ Types /\ Pids /\ OneParent /\ InitLives /\ ParentAlive /\ load \in Loads
      /\ \A q \in Procs : Slot(q) /\ Member(q) /\ Locals(q)
  BY DEF GInv, Types
<1>1. op[p].pc = "forked" /\ state[p] = "RUNNABLE" /\ panicked = "none"
  BY DEF ForkDone, Is
<1>2. PICK np \in Procs : np = op[p].arg /\ state[np] = "USED" /\ ~isThread[np]
  BY <1>0, <1>1 DEF Locals, Slot
<1>3. /\ state' = [state EXCEPT ![np] = "RUNNABLE"] /\ isThread' = [isThread EXCEPT ![np] = FALSE]
      /\ main_pid' = [main_pid EXCEPT ![np] = pid[np]] /\ main_thread' = [main_thread EXCEPT ![np] = np]
      /\ cnt' = [cnt EXCEPT ![np] = 0] /\ op' = [op EXCEPT ![p] = User]
      /\ UNCHANGED <<load, pid, parent, killed, memVars, sysVars>>
  BY <1>2 DEF ForkDone, Goto
<1>4. op'[p] = User /\ op' \in [Procs -> OpSet] /\ \A q \in Procs : q # p => op'[q] = op[q]
  BY <1>0, <1>3, AtTypes, OpMove
<1>5. op'[p].pc = "user" /\ op'[p].tbl = None
  BY <1>4, AtFields
<1>6. /\ state'[np] = "RUNNABLE" /\ ~isThread'[np] /\ main_pid'[np] = pid[np] /\ main_thread'[np] = np /\ cnt'[np] = 0
      /\ \A q \in Procs : q # np =>
           /\ state'[q] = state[q] /\ isThread'[q] = isThread[q] /\ main_pid'[q] = main_pid[q]
           /\ main_thread'[q] = main_thread[q] /\ cnt'[q] = cnt[q]
  BY <1>0, <1>3 DEF Types
<1>7. Types'
  <2>1. /\ state' \in [Procs -> {"UNUSED", "USED", "RUNNABLE", "SLEEPING", "ZOMBIE"}]
        /\ isThread' \in [Procs -> BOOLEAN] /\ main_pid' \in [Procs -> 0 .. MaxPid]
        /\ main_thread' \in [Procs -> Procs \cup {None}]
    BY <1>0, <1>3 DEF Types
  <2>2. cnt' \in [Procs -> 0 .. MaxPid]
    <3>1. 0 \in 0 .. MaxPid
      BY <1>0, Bounds
    <3> QED
      BY <1>0, <1>3, <3>1 DEF Types
  <2> QED
    BY <1>0, <1>3, <1>4, <2>1, <2>2 DEF Types, memVars, sysVars, OpSet, MaxPid, MaxSize
<1>8. np # p /\ np # initproc
  BY <1>0, <1>1, <1>2 DEF InitLives, Alive
<1>9. Pids'
  <2>1. 0 < nextpid - 1
    BY <1>0 DEF Types
  <2> QED
    BY <1>0, <1>3, <1>6, <2>1 DEF Pids, sysVars
<1>10. OneParent'
  BY <1>0, <1>4, <1>5 DEF OneParent
<1>11. InitLives'
  BY <1>0, <1>3, <1>4, <1>5, <1>6, <1>8, Constants DEF InitLives, Alive
<1>12. ParentAlive'
  BY <1>0, <1>3, <1>6 DEF ParentAlive, Alive, Types
<1>13. ASSUME NEW q \in Procs PROVE Slot(q)' /\ Member(q)' /\ Locals(q)'
  <2>0. Slot(q) /\ Member(q) /\ Locals(q)
    BY <1>0
  <2>1. Slot(q)'
    <3>1. CASE q = np
      BY <1>2, <1>3, <1>4, <1>6, <1>8, <2>0, <3>1 DEF Slot, Used, Alive, memVars
    <3>2. CASE q # np
      BY <1>1, <1>3, <1>4, <1>6, <2>0, <3>2 DEF Slot, Used, Alive, memVars
    <3> QED
      BY <3>1, <3>2
  <2>2. Member(q)'
    <3> SUFFICES ASSUME isThread'[q] PROVE Member(q)'
      BY DEF Member
    <3>1. q # np /\ isThread[q] /\ main_thread[q] # np
      BY <1>2, <1>6, <2>0 DEF Member, Alive
    <3> QED
      BY <1>3, <1>4, <1>5, <1>6, <2>0, <3>1 DEF Member, Alive
  <2>3. Locals(q)'
    <3>1. CASE q = p
      BY <1>5, <3>1 DEF Locals
    <3>2. CASE q # p
      <4>1. op[q].pc \in {"fork", "forked"} => op[q].arg # np
        BY <1>0, <1>1, <1>2, <3>2 DEF OneParent
      <4>2. op[q].pc = "commit" => q # np
        BY <1>0, <1>2, AtFields DEF Slot, Alive
      <4> QED
        BY <1>1, <1>3, <1>4, <1>6, <2>0, <3>2, <4>1, <4>2 DEF Locals, sysVars
    <3> QED
      BY <3>1, <3>2
  <2> QED
    BY <2>1, <2>2, <2>3
<1> QED
  BY <1>7, <1>9, <1>10, <1>11, <1>12, <1>13 DEF GInv

\* The main thread of a process that runs.
LEMMA MainOf ==
  ASSUME GInv, NEW p \in Procs, Alive(p)
  PROVE  /\ main_thread[p] \in Procs /\ ~isThread[main_thread[p]] /\ Alive(main_thread[p])
         /\ pid[main_thread[p]] = main_pid[p] /\ pid[main_thread[p]] # 0
         /\ ~isThread[p] => main_thread[p] = p
         /\ main_thread[p] # p => isThread[p] /\ op[main_thread[p]].pc # "exit"
         /\ p # initproc => main_thread[p] # initproc
<1>1. Slot(p) /\ Member(p)
  BY DEF GInv
<1>2. CASE isThread[p]
  <2>1. main_thread[p] \in Procs /\ Alive(main_thread[p])
    BY <1>1, <1>2 DEF Member
  <2>2. pid[main_thread[p]] # 0
    BY <2>1 DEF GInv, Slot, Used, Alive
  <2> QED
    BY <1>1, <1>2, <2>2 DEF Member
<1>3. CASE ~isThread[p]
  BY <1>1, <1>3 DEF Slot, Used, Alive
<1> QED
  BY <1>2, <1>3

LEMMA GClone ==
  ASSUME GInv, NEW p \in Procs, paull04_clone(p)
  PROVE  GInv'
<1>0. /\ Types /\ Pids /\ OneParent /\ InitLives /\ ParentAlive /\ load \in Loads
      /\ \A q \in Procs : Slot(q) /\ Member(q) /\ Locals(q)
  BY DEF GInv, Types
<1>1. /\ state[p] = "RUNNABLE" /\ panicked = "none" /\ Alive(p) /\ op[p].pc = "user" /\ p # initproc
  BY InUserRuns DEF paull04_clone
<1>2. PICK m \in Procs : m = main_thread[p]
  BY <1>1, MainOf
<1>3. /\ ~isThread[m] /\ Alive(m) /\ pid[m] = main_pid[p] /\ m # initproc /\ op[m].pc # "exit"
  BY <1>1, <1>2, MainOf
<1> DEFINE np == First(Unused)
<1>4. /\ Unused # {} /\ nextpid <= MaxPid
      /\ cnt' = [cnt EXCEPT ![m] = @ + 1] /\ tf' = [tf EXCEPT ![np] = cnt[m] + 1]
      /\ maps' = [maps EXCEPT ![table[p]] = @ \cup {cnt[m] + 1}]
      /\ state' = [state EXCEPT ![np] = "RUNNABLE"] /\ pid' = [pid EXCEPT ![np] = nextpid]
      /\ nextpid' = nextpid + 1 /\ killed' = [killed EXCEPT ![np] = FALSE]
      /\ parent' = [parent EXCEPT ![np] = m] /\ table' = [table EXCEPT ![np] = table[p]]
      /\ sz' = [sz EXCEPT ![np] = sz[p]] /\ isThread' = [isThread EXCEPT ![np] = TRUE]
      /\ main_pid' = [main_pid EXCEPT ![np] = main_pid[p]]
      /\ main_thread' = [main_thread EXCEPT ![np] = m]
      /\ UNCHANGED <<load, pages, op, outstanding>>
  BY <1>2 DEF paull04_clone, TrapframeVa
<1>5. np \in Procs /\ state[np] = "UNUSED"
  BY <1>0, <1>4, FirstUnused
<1> HIDE DEF np
<1>6. /\ nextpid \in 0 .. MaxPid /\ nextpid + 1 \in 2 .. MaxPid + 1 /\ nextpid # 0 /\ nextpid \in Nat
      /\ cnt[m] + 1 \in 0 .. MaxPid /\ cnt[m] + 1 < nextpid
  <2>1. nextpid \in 2 .. MaxPid + 1 /\ cnt[m] \in 0 .. MaxPid /\ cnt[m] < nextpid - 1 /\ MaxPid \in Nat
    BY <1>0, Bounds DEF Types, Pids
  <2> QED
    BY <1>4, <2>1
<1>7. sz[p] \in 0 .. MaxSize /\ sz[p] # 0 /\ table[p] \in Tables /\ main_pid[p] \in 0 .. MaxPid
  BY <1>0, <1>1 DEF Types, Slot, Used
<1>8. Types'
  <2>1. /\ state' \in [Procs -> {"UNUSED", "USED", "RUNNABLE", "SLEEPING", "ZOMBIE"}]
        /\ pid' \in [Procs -> 0 .. MaxPid] /\ tf' \in [Procs -> 0 .. MaxPid]
        /\ main_pid' \in [Procs -> 0 .. MaxPid]
    BY <1>0, <1>4, <1>6, <1>7 DEF Types
  <2>2. /\ table' \in [Procs -> Tables \cup {None}] /\ sz' \in [Procs -> 0 .. MaxSize]
        /\ maps' \in [Tables -> SUBSET (0 .. MaxPid)] /\ cnt' \in [Procs -> 0 .. MaxPid]
    BY <1>0, <1>4, <1>6, <1>7 DEF Types
  <2>3. /\ killed' \in [Procs -> BOOLEAN] /\ isThread' \in [Procs -> BOOLEAN]
        /\ parent' \in [Procs -> Procs \cup {None}] /\ main_thread' \in [Procs -> Procs \cup {None}]
    BY <1>0, <1>4 DEF Types
  <2> QED
    BY <1>0, <1>4, <1>6, <2>1, <2>2, <2>3 DEF Types, OpSet, MaxPid, MaxSize
<1>9. /\ state'[np] = "RUNNABLE" /\ pid'[np] = nextpid /\ sz'[np] = sz[p] /\ table'[np] = table[p]
      /\ parent'[np] = m /\ isThread'[np] /\ main_pid'[np] = main_pid[p] /\ main_thread'[np] = m
      /\ \A q \in Procs : q # np =>
           /\ state'[q] = state[q] /\ pid'[q] = pid[q] /\ sz'[q] = sz[q] /\ table'[q] = table[q]
           /\ parent'[q] = parent[q] /\ isThread'[q] = isThread[q] /\ main_pid'[q] = main_pid[q]
           /\ main_thread'[q] = main_thread[q] /\ killed'[q] = killed[q]
  BY <1>0, <1>4, <1>5 DEF Types
<1>10. cnt'[m] = cnt[m] + 1 /\ \A q \in Procs : q # m => cnt'[q] = cnt[q]
  BY <1>0, <1>4 DEF Types
<1>11. np # p /\ np # initproc /\ np # m
  BY <1>0, <1>1, <1>3, <1>5 DEF InitLives, Alive
<1>12. Pids'
  <2>1. \A q \in Procs : pid[q] \in Nat /\ cnt[q] \in Nat
    BY <1>0 DEF Types
  <2>2. \A q \in Procs : pid'[q] < nextpid' /\ cnt'[q] < nextpid' - 1
    BY <1>0, <1>4, <1>6, <1>9, <1>10, <2>1 DEF Pids
  <2>3. \A q, r \in Procs : pid'[q] = pid'[r] /\ pid'[q] # 0 => q = r
    <3>1. \A q \in Procs : pid[q] # nextpid
      BY <1>0, <1>6, <2>1 DEF Pids
    <3> QED
      BY <1>0, <1>9, <3>1 DEF Pids
  <2> QED
    BY <2>2, <2>3 DEF Pids
<1>13. OneParent' /\ InitLives'
  BY <1>0, <1>4, <1>9, <1>11, Constants DEF OneParent, InitLives, Alive
<1>14. ParentAlive'
  <2>1. \A q \in Procs : Alive(q) => Alive(q)'
    BY <1>5, <1>9 DEF Alive
  <2> QED
    BY <1>0, <1>3, <1>9, <2>1 DEF ParentAlive, Types
<1>15. ASSUME NEW q \in Procs PROVE Slot(q)' /\ Member(q)' /\ Locals(q)'
  <2>0. Slot(q) /\ Member(q) /\ Locals(q)
    BY <1>0
  <2>1. Slot(q)'
    <3>1. CASE q = np
      BY <1>6, <1>7, <1>9, <3>1, Constants DEF Slot, Used, Alive
    <3>2. CASE q # np
      BY <1>4, <1>9, <2>0, <3>2 DEF Slot, Used, Alive
    <3> QED
      BY <3>1, <3>2
  <2>2. Member(q)'
    <3>1. CASE q = np
      BY <1>3, <1>4, <1>9, <1>11, <3>1 DEF Member, Alive
    <3>2. CASE q # np
      <4>1. isThread[q] => main_thread[q] # np
        BY <1>5, <2>0 DEF Member, Alive
      <4> QED
        BY <1>4, <1>9, <2>0, <3>2, <4>1 DEF Member, Alive
    <3> QED
      BY <3>1, <3>2
  <2>3. Locals(q)'
    <3>1. op[q].pc = "commit" => q # np
      BY <1>0, <1>5, AtFields DEF Slot, Alive
    <3>2. op[q].pc \in {"fork", "forked"} => op[q].arg # np
      BY <1>5, <2>0 DEF Locals
    <3> QED
      BY <1>1, <1>4, <1>9, <2>0, <3>1, <3>2 DEF Locals
  <2> QED
    BY <2>1, <2>2, <2>3
<1> QED
  BY <1>8, <1>12, <1>13, <1>14, <1>15 DEF GInv

LEMMA GCloneFails ==
  ASSUME GInv, NEW p \in Procs, CloneFails(p)
  PROVE  GInv'
<1>0. /\ Types /\ Pids /\ OneParent /\ InitLives /\ ParentAlive /\ load \in Loads
      /\ \A q \in Procs : Slot(q) /\ Member(q) /\ Locals(q)
  BY DEF GInv, Types
<1> DEFINE np == First(Unused)
<1>1. /\ Unused # {} /\ nextpid <= MaxPid /\ pid' = [pid EXCEPT ![np] = nextpid]
      /\ killed' = [killed EXCEPT ![np] = FALSE] /\ nextpid' = nextpid + 1
      /\ UNCHANGED <<load, state, parent, groupVars, memVars, op, outstanding, panicked>>
  BY DEF CloneFails
<1>2. np \in Procs /\ state[np] = "UNUSED"
  BY <1>0, <1>1, FirstUnused
<1> HIDE DEF np
<1>3. nextpid \in 0 .. MaxPid /\ nextpid + 1 \in 2 .. MaxPid + 1 /\ nextpid \in Nat
  BY <1>0, <1>1, Bounds DEF Types
<1>4. /\ pid'[np] = nextpid /\ \A q \in Procs : q # np => pid'[q] = pid[q] /\ killed'[q] = killed[q]
      /\ pid' \in [Procs -> 0 .. MaxPid] /\ killed' \in [Procs -> BOOLEAN]
  BY <1>0, <1>1, <1>2, <1>3 DEF Types
<1>5. Types'
  BY <1>0, <1>1, <1>3, <1>4 DEF Types, groupVars, memVars, OpSet, MaxPid, MaxSize
<1>6. np # initproc
  BY <1>0, <1>2 DEF InitLives, Alive
<1>7. Pids'
  <2>1. \A q \in Procs : pid[q] \in Nat /\ cnt[q] \in Nat
    BY <1>0 DEF Types
  <2>2. \A q \in Procs : pid'[q] < nextpid' /\ cnt'[q] < nextpid' - 1
    BY <1>0, <1>1, <1>3, <1>4, <2>1 DEF Pids, groupVars
  <2>3. \A q, r \in Procs : pid'[q] = pid'[r] /\ pid'[q] # 0 => q = r
    <3>1. \A q \in Procs : pid[q] # nextpid
      BY <1>0, <1>3, <2>1 DEF Pids
    <3> QED
      BY <1>0, <1>4, <3>1 DEF Pids
  <2> QED
    BY <2>2, <2>3 DEF Pids
<1>8. OneParent' /\ InitLives' /\ ParentAlive'
  <2>1. OneParent'
    BY <1>0, <1>1 DEF OneParent
  <2>2. InitLives'
    BY <1>0, <1>1, <1>4, <1>6, Constants DEF InitLives, Alive, groupVars
  <2>3. ParentAlive'
    BY <1>0, <1>1 DEF ParentAlive, Alive
  <2> QED
    BY <2>1, <2>2, <2>3
<1>9. ASSUME NEW q \in Procs PROVE Slot(q)' /\ Member(q)' /\ Locals(q)'
  <2>0. Slot(q) /\ Member(q) /\ Locals(q)
    BY <1>0
  <2>1. Slot(q)'
    BY <1>1, <1>2, <1>4, <2>0 DEF Slot, Used, Alive, groupVars, memVars
  <2>2. Member(q)'
    BY <1>1, <1>2, <1>4, <2>0 DEF Member, Alive, groupVars
  <2>3. Locals(q)'
    BY <1>1, <2>0 DEF Locals, groupVars
  <2> QED
    BY <2>1, <2>2, <2>3
<1> QED
  BY <1>5, <1>7, <1>8, <1>9 DEF GInv

\* p sleeps in wait() or join().
LEMMA GSleep ==
  ASSUME GInv, NEW p \in Procs, WaitSleep(p) \/ JoinSleep(p)
  PROVE  GInv'
<1>0. /\ Types /\ Pids /\ OneParent /\ InitLives /\ ParentAlive /\ load \in Loads
      /\ \A q \in Procs : Slot(q) /\ Member(q) /\ Locals(q)
  BY DEF GInv, Types
<1>1. PICK c \in {"wait", "join"} :
        /\ state[p] = "RUNNABLE" /\ panicked = "none" /\ (p = initproc => c = "wait")
        /\ Sleep(p, c)
  <2>1. CASE WaitSleep(p)
    BY <2>1 DEF WaitSleep, Waiting, InUser, Is
  <2>2. CASE JoinSleep(p)
    BY <1>0, <2>2 DEF JoinSleep, Joining, InUser, Is, InitLives
  <2> QED
    BY <2>1, <2>2
<1>2. /\ state' = [state EXCEPT ![p] = "SLEEPING"] /\ op' = [op EXCEPT ![p] = At(c, None)]
      /\ UNCHANGED <<load, pid, parent, killed, groupVars, memVars, sysVars>>
  BY <1>1 DEF Sleep, Goto
<1>3. At(c, None) \in OpSet
  BY <1>0, AtTypes DEF PCs
<1>4. op'[p] = At(c, None) /\ op' \in [Procs -> OpSet] /\ \A q \in Procs : q # p => op'[q] = op[q]
  BY <1>0, <1>2, <1>3, OpMove
<1>5. op'[p].pc = c /\ op'[p].arg = None /\ op'[p].tbl = None
  BY <1>4, AtFields
<1>6. /\ state' \in [Procs -> {"UNUSED", "USED", "RUNNABLE", "SLEEPING", "ZOMBIE"}]
      /\ state'[p] = "SLEEPING" /\ \A q \in Procs : q # p => state'[q] = state[q]
  BY <1>0, <1>2 DEF Types
<1>7. \A q \in Procs : Alive(q)' <=> Alive(q)
  BY <1>1, <1>6 DEF Alive
<1>8. Types'
  BY <1>0, <1>2, <1>4, <1>6 DEF Types, groupVars, memVars, sysVars, OpSet, MaxPid, MaxSize
<1>9. Pids' /\ OneParent' /\ InitLives' /\ ParentAlive'
  <2>1. Pids'
    BY <1>0, <1>2 DEF Pids, groupVars, sysVars
  <2>2. OneParent'
    BY <1>0, <1>4, <1>5 DEF OneParent
  <2>3. InitLives'
    BY <1>0, <1>1, <1>2, <1>4, <1>5, <1>7, Constants DEF InitLives, groupVars
  <2>4. ParentAlive'
    <3>1. \A q \in Procs : parent[q] \in Procs \cup {None}
      BY <1>0 DEF Types
    <3> QED
      BY <1>0, <1>2, <1>7, <3>1 DEF ParentAlive
  <2> QED
    BY <2>1, <2>2, <2>3, <2>4
<1>10. ASSUME NEW q \in Procs PROVE Slot(q)' /\ Member(q)' /\ Locals(q)'
  <2>0. Slot(q) /\ Member(q) /\ Locals(q)
    BY <1>0
  <2>1. Slot(q)'
    <3>1. CASE q = p
      BY <1>1, <1>2, <1>5, <1>6, <1>7, <2>0, <3>1 DEF Slot, Used, Alive, groupVars, memVars
    <3>2. CASE q # p
      BY <1>2, <1>4, <1>6, <2>0, <3>2 DEF Slot, Used, Alive, groupVars, memVars
    <3> QED
      BY <3>1, <3>2
  <2>2. Member(q)'
    BY <1>2, <1>4, <1>5, <1>7, <2>0 DEF Member, groupVars
  <2>3. Locals(q)'
    <3>1. CASE q = p
      BY <1>5, <3>1 DEF Locals
    <3>2. CASE q # p
      BY <1>1, <1>2, <1>4, <1>6, <2>0, <3>2 DEF Locals, groupVars, sysVars
    <3> QED
      BY <3>1, <3>2
  <2> QED
    BY <2>1, <2>2, <2>3
<1> QED
  BY <1>8, <1>9, <1>10 DEF GInv

LEMMA GKillMark ==
  ASSUME GInv, NEW p \in Procs, KillMark(p)
  PROVE  GInv'
<1>0. /\ Types /\ Pids /\ OneParent /\ InitLives /\ ParentAlive /\ load \in Loads
      /\ \A q \in Procs : Slot(q) /\ Member(q) /\ Locals(q)
  BY DEF GInv, Types
<1>1. op[p].pc = "mark" /\ state[p] = "RUNNABLE" /\ panicked = "none"
  BY DEF KillMark, Is
<1>2. PICK m \in Procs : m = op[p].arg /\ m # initproc
  BY <1>0, <1>1 DEF Locals
<1>3. /\ state' = [state EXCEPT ![m] = IF state[m] = "SLEEPING" THEN "RUNNABLE" ELSE @]
      /\ killed' = [killed EXCEPT ![m] = TRUE] /\ op' = [op EXCEPT ![p] = User]
      /\ UNCHANGED <<load, pid, parent, groupVars, memVars, sysVars>>
  BY <1>2 DEF KillMark, KillWakes, Goto
<1>4. op'[p] = User /\ op' \in [Procs -> OpSet] /\ \A q \in Procs : q # p => op'[q] = op[q]
  BY <1>0, <1>3, AtTypes, OpMove
<1>5. op'[p].pc = "user" /\ op'[p].tbl = None
  BY <1>4, AtFields
<1>6. /\ state' \in [Procs -> {"UNUSED", "USED", "RUNNABLE", "SLEEPING", "ZOMBIE"}]
      /\ killed' \in [Procs -> BOOLEAN]
      /\ \A q \in Procs : q # m => state'[q] = state[q] /\ killed'[q] = killed[q]
      /\ state'[m] = IF state[m] = "SLEEPING" THEN "RUNNABLE" ELSE state[m]
  BY <1>0, <1>3 DEF Types
<1>7. \A q \in Procs : (Alive(q)' <=> Alive(q)) /\ (state[q] # "SLEEPING" => state'[q] = state[q])
                       /\ (state'[q] = "SLEEPING" => state[q] = "SLEEPING")
  BY <1>1, <1>6 DEF Alive
<1>8. Types'
  BY <1>0, <1>3, <1>4, <1>6 DEF Types, groupVars, memVars, sysVars, OpSet, MaxPid, MaxSize
<1>9. Pids' /\ OneParent' /\ InitLives' /\ ParentAlive'
  <2>1. Pids'
    BY <1>0, <1>3 DEF Pids, groupVars, sysVars
  <2>2. OneParent'
    BY <1>0, <1>4, <1>5 DEF OneParent
  <2>3. InitLives'
    BY <1>0, <1>2, <1>3, <1>4, <1>5, <1>6, <1>7, Constants DEF InitLives, groupVars
  <2>4. ParentAlive'
    <3>1. \A q \in Procs : parent[q] \in Procs \cup {None}
      BY <1>0 DEF Types
    <3> QED
      BY <1>0, <1>3, <1>7, <3>1 DEF ParentAlive
  <2> QED
    BY <2>1, <2>2, <2>3, <2>4
<1>10. ASSUME NEW q \in Procs PROVE Slot(q)' /\ Member(q)' /\ Locals(q)'
  <2>0. Slot(q) /\ Member(q) /\ Locals(q) /\ state[q] \in {"UNUSED", "USED", "RUNNABLE", "SLEEPING", "ZOMBIE"}
    BY <1>0 DEF Types
  <2>1. Slot(q)'
    <3>1. CASE q = p
      <4>1. state'[q] = "RUNNABLE" /\ Alive(q)'
        BY <1>1, <1>7, <3>1 DEF Alive
      <4> QED
        BY <1>1, <1>3, <2>0, <3>1, <4>1 DEF Slot, Used, groupVars, memVars
    <3>2. CASE q # p
      <4>1. UNCHANGED <<pid[q], isThread[q], main_pid[q], main_thread[q], sz[q], table[q], op[q]>>
        BY <1>3, <1>4, <3>2 DEF groupVars, memVars
      <4>2. CASE state[q] = "SLEEPING"
        BY <1>7, <2>0, <4>1, <4>2, <1>6 DEF Slot, Used, Alive
      <4>3. CASE state[q] # "SLEEPING"
        BY <1>7, <2>0, <4>1, <4>3 DEF Slot, Used, Alive
      <4> QED
        BY <4>2, <4>3
    <3> QED
      BY <3>1, <3>2
  <2>2. Member(q)'
    BY <1>3, <1>4, <1>5, <1>7, <2>0 DEF Member, groupVars
  <2>3. Locals(q)'
    <3>1. CASE q = p
      BY <1>5, <3>1 DEF Locals
    <3>2. CASE q # p
      BY <1>1, <1>3, <1>4, <1>7, <2>0, <3>2 DEF Locals, groupVars, sysVars
    <3> QED
      BY <3>1, <3>2
  <2> QED
    BY <2>1, <2>2, <2>3
<1> QED
  BY <1>8, <1>9, <1>10 DEF GInv

LEMMA GExecCommit ==
  ASSUME GInv, NEW p \in Procs, ExecCommit(p)
  PROVE  GInv'
<1>0. /\ Types /\ Pids /\ OneParent /\ InitLives /\ ParentAlive /\ load \in Loads
      /\ \A q \in Procs : Slot(q) /\ Member(q) /\ Locals(q)
  BY DEF GInv, Types
<1> DEFINE o == [pc |-> "commit", arg |-> main_thread[p], tbl |-> table[p], sz |-> op[p].sz]
<1>1. /\ op[p].pc = "loaded" /\ state[p] = "RUNNABLE" /\ panicked = "none"
      /\ table' = [table EXCEPT ![p] = op[p].tbl] /\ sz' = [sz EXCEPT ![p] = 1]
      /\ main_pid' = [main_pid EXCEPT ![p] = pid[p]] /\ main_thread' = [main_thread EXCEPT ![p] = p]
      /\ isThread' = [isThread EXCEPT ![p] = FALSE] /\ cnt' = [cnt EXCEPT ![p] = 0]
      /\ op' = [op EXCEPT ![p] = o]
      /\ UNCHANGED <<load, procVars, tf, pages, maps, sysVars>>
  BY DEF ExecCommit, Goto, Is
<1>2. p # initproc /\ Alive(p) /\ Used(p) /\ op[p].tbl \in Tables /\ op[p].sz # 0 /\ op[p].sz \in 0 .. MaxSize
  <2>1. op[p] \in OpSet
    BY <1>0 DEF Types
  <2> QED
    BY <1>0, <1>1, <2>1 DEF InitLives, Alive, Used, Locals, OpSet
<1>3. main_thread[p] \in Procs /\ main_thread[p] # initproc
  BY <1>2, MainOf
<1>4. table[p] \in Tables
  BY <1>0, <1>2 DEF Slot, Types
<1>5. o.pc = "commit" /\ o.arg = main_thread[p] /\ o.tbl = table[p] /\ o.sz = op[p].sz
  OBVIOUS
<1>6. o \in OpSet
  BY <1>2, <1>3, <1>4 DEF OpSet, PCs
<1> HIDE DEF o
<1>7. op'[p] = o /\ op' \in [Procs -> OpSet] /\ \A q \in Procs : q # p => op'[q] = op[q]
  BY <1>0, <1>1, <1>6, OpMove
<1>8. /\ table'[p] = op[p].tbl /\ sz'[p] = 1 /\ main_pid'[p] = pid[p] /\ main_thread'[p] = p /\ ~isThread'[p] /\ cnt'[p] = 0
      /\ \A q \in Procs : q # p =>
           /\ table'[q] = table[q] /\ sz'[q] = sz[q] /\ main_pid'[q] = main_pid[q]
           /\ main_thread'[q] = main_thread[q] /\ isThread'[q] = isThread[q] /\ cnt'[q] = cnt[q]
  BY <1>0, <1>1 DEF Types
<1>9. Types'
  <2>1. 0 \in 0 .. MaxPid /\ 1 \in 0 .. MaxSize
    BY <1>0, Bounds
  <2>2. /\ table' \in [Procs -> Tables \cup {None}] /\ sz' \in [Procs -> 0 .. MaxSize]
        /\ main_pid' \in [Procs -> 0 .. MaxPid] /\ main_thread' \in [Procs -> Procs \cup {None}]
    BY <1>0, <1>1, <1>2, <2>1 DEF Types
  <2>3. isThread' \in [Procs -> BOOLEAN] /\ cnt' \in [Procs -> 0 .. MaxPid]
    BY <1>0, <1>1, <2>1 DEF Types
  <2> QED
    BY <1>0, <1>1, <1>7, <2>2, <2>3 DEF Types, procVars, sysVars, OpSet, MaxPid, MaxSize
<1>10. Pids' /\ OneParent' /\ InitLives' /\ ParentAlive'
  <2>1. Pids'
    <3>1. 0 < nextpid - 1
      BY <1>0 DEF Types
    <3> QED
      BY <1>0, <1>1, <1>8, <3>1 DEF Pids, procVars, sysVars
  <2>2. OneParent'
    BY <1>0, <1>5, <1>7 DEF OneParent
  <2>3. InitLives'
    BY <1>0, <1>1, <1>2, <1>7, <1>8, Constants DEF InitLives, Alive, procVars
  <2>4. ParentAlive'
    BY <1>0, <1>1 DEF ParentAlive, Alive, procVars
  <2> QED
    BY <2>1, <2>2, <2>3, <2>4
<1>11. ASSUME NEW q \in Procs PROVE Slot(q)' /\ Member(q)' /\ Locals(q)'
  <2>0. Slot(q) /\ Member(q) /\ Locals(q)
    BY <1>0
  <2>1. Slot(q)'
    <3>1. CASE q = p
      BY <1>1, <1>2, <1>8, <2>0, <3>1, Constants DEF Slot, Used, Alive, procVars
    <3>2. CASE q # p
      BY <1>1, <1>7, <1>8, <2>0, <3>2 DEF Slot, Used, Alive, procVars
    <3> QED
      BY <3>1, <3>2
  <2>2. Member(q)'
    BY <1>1, <1>5, <1>7, <1>8, <2>0 DEF Member, Alive, procVars
  <2>3. Locals(q)'
    <3>1. CASE q = p
      BY <1>2, <1>3, <1>4, <1>5, <1>7, <1>8, <3>1, Constants DEF Locals
    <3>2. CASE q # p
      BY <1>1, <1>7, <1>8, <2>0, <3>2 DEF Locals, procVars, sysVars
    <3> QED
      BY <3>1, <3>2
  <2> QED
    BY <2>1, <2>2, <2>3
<1> QED
  BY <1>9, <1>10, <1>11 DEF GInv

\* The rest of exit().
LEMMA GExitEnd ==
  ASSUME GInv, NEW p \in Procs, ExitEnd(p)
  PROVE  GInv'
<1>0. /\ Types /\ Pids /\ OneParent /\ InitLives /\ ParentAlive /\ load \in Loads
      /\ \A q \in Procs : Slot(q) /\ Member(q) /\ Locals(q)
  BY DEF GInv, Types
<1>1. /\ op[p].pc = "exit" /\ state[p] = "RUNNABLE" /\ panicked = "none" /\ panicked' = "none"
      /\ parent' = [q \in Procs |-> IF parent[q] = p THEN initproc ELSE parent[q]]
      /\ op' = [op EXCEPT ![p] = User]
      /\ UNCHANGED <<load, pid, killed, groupVars, memVars, nextpid>>
  BY DEF ExitEnd, Goto, Is
<1>2. /\ state' \in [Procs -> {"UNUSED", "USED", "RUNNABLE", "SLEEPING", "ZOMBIE"}] /\ state'[p] = "ZOMBIE"
      /\ \A q \in Procs : q # p => state'[q] = state[q] \/ (state[q] = "SLEEPING" /\ state'[q] = "RUNNABLE")
  BY <1>0 DEF ExitEnd, Types
<1>3. p # initproc
  BY <1>0, <1>1 DEF InitLives
<1>4. op'[p] = User /\ op' \in [Procs -> OpSet] /\ \A q \in Procs : q # p => op'[q] = op[q]
  BY <1>0, <1>1, AtTypes, OpMove
<1>5. op'[p].pc = "user" /\ op'[p].tbl = None
  BY <1>4, AtFields
<1>6. /\ parent' \in [Procs -> Procs \cup {None}]
      /\ \A q \in Procs : parent'[q] = IF parent[q] = p THEN initproc ELSE parent[q]
  BY <1>0, <1>1, Constants DEF Types
<1>7. \A q \in Procs : q # p => (Alive(q)' <=> Alive(q))
  BY <1>2 DEF Alive
<1>8. Types'
  BY <1>0, <1>1, <1>2, <1>4, <1>6 DEF Types, groupVars, memVars, OpSet, MaxPid, MaxSize
<1>9. Pids' /\ OneParent' /\ InitLives' /\ ParentAlive'
  <2>1. Pids'
    BY <1>0, <1>1 DEF Pids, groupVars
  <2>2. OneParent'
    BY <1>0, <1>4, <1>5 DEF OneParent
  <2>3. InitLives'
    BY <1>0, <1>1, <1>3, <1>4, <1>7, Constants DEF InitLives, groupVars
  <2>4. ParentAlive'
    <3>1. \A q \in Procs : parent[q] \in Procs \cup {None}
      BY <1>0 DEF Types
    <3>2. Alive(initproc)
      BY <1>0 DEF InitLives
    <3> QED
      BY <1>0, <1>3, <1>6, <1>7, <3>1, <3>2, Constants DEF ParentAlive
  <2> QED
    BY <2>1, <2>2, <2>3, <2>4
<1>10. ASSUME NEW q \in Procs PROVE Slot(q)' /\ Member(q)' /\ Locals(q)'
  <2>0. Slot(q) /\ Member(q) /\ Locals(q)
    BY <1>0
  <2>1. Slot(q)'
    <3>1. CASE q = p
      BY <1>1, <1>2, <1>4, <2>0, <3>1 DEF Slot, Used, Alive, groupVars, memVars
    <3>2. CASE q # p
      <4>1. UNCHANGED <<pid[q], isThread[q], main_pid[q], main_thread[q], sz[q], table[q], op[q]>>
        BY <1>1, <1>4, <3>2 DEF groupVars, memVars
      <4>2. CASE state'[q] = state[q]
        BY <2>0, <4>1, <4>2 DEF Slot, Used, Alive
      <4>3. CASE state[q] = "SLEEPING" /\ state'[q] = "RUNNABLE"
        BY <2>0, <4>1, <4>3 DEF Slot, Used, Alive
      <4> QED
        BY <1>2, <3>2, <4>2, <4>3
    <3> QED
      BY <3>1, <3>2
  <2>2. Member(q)'
    <3>1. isThread[q] => main_thread[q] # p
      BY <1>1, <2>0 DEF Member
    <3> QED
      BY <1>1, <1>4, <1>6, <1>7, <2>0, <3>1 DEF Member, groupVars
  <2>3. Locals(q)'
    <3>1. CASE q = p
      BY <1>5, <3>1 DEF Locals
    <3>2. CASE q # p
      <4>1. \A r \in Procs : state[r] = "USED" => state'[r] = "USED"
        BY <1>1, <1>2
      <4> QED
        BY <1>1, <1>4, <2>0, <3>2, <4>1 DEF Locals, groupVars
    <3> QED
      BY <3>1, <3>2
  <2> QED
    BY <2>1, <2>2, <2>3
<1> QED
  BY <1>8, <1>9, <1>10 DEF GInv

\* What freethread() and freeproc() leave of the slots in S.
LEMMA Cleared ==
  ASSUME Types, NEW S \in SUBSET Procs, ClearFields(S)
  PROVE  /\ state' \in [Procs -> {"UNUSED", "USED", "RUNNABLE", "SLEEPING", "ZOMBIE"}]
         /\ pid' \in [Procs -> 0 .. MaxPid] /\ main_pid' \in [Procs -> 0 .. MaxPid]
         /\ main_thread' \in [Procs -> Procs \cup {None}] /\ isThread' \in [Procs -> BOOLEAN]
         /\ tf' \in [Procs -> 0 .. MaxPid] /\ table' \in [Procs -> Tables \cup {None}]
         /\ sz' \in [Procs -> 0 .. MaxSize]
         /\ \A q \in S : /\ state'[q] = "UNUSED" /\ pid'[q] = 0 /\ ~isThread'[q] /\ main_pid'[q] = 0
                         /\ main_thread'[q] = None
         /\ \A q \in Procs : q \notin S =>
              /\ state'[q] = state[q] /\ pid'[q] = pid[q] /\ isThread'[q] = isThread[q]
              /\ main_pid'[q] = main_pid[q] /\ main_thread'[q] = main_thread[q]
              /\ tf'[q] = tf[q] /\ table'[q] = table[q] /\ sz'[q] = sz[q]
<1>1. 0 \in 0 .. MaxPid /\ 0 \in 0 .. MaxSize
  BY Bounds DEF Types
<1>2. /\ state' \in [Procs -> {"UNUSED", "USED", "RUNNABLE", "SLEEPING", "ZOMBIE"}]
      /\ pid' \in [Procs -> 0 .. MaxPid] /\ main_pid' \in [Procs -> 0 .. MaxPid]
      /\ main_thread' \in [Procs -> Procs \cup {None}]
  BY <1>1 DEF ClearFields, Reset, Types
<1>3. /\ isThread' \in [Procs -> BOOLEAN] /\ tf' \in [Procs -> 0 .. MaxPid]
      /\ table' \in [Procs -> Tables \cup {None}] /\ sz' \in [Procs -> 0 .. MaxSize]
  BY <1>1 DEF ClearFields, Reset, Types
<1>4. \A q \in S : /\ state'[q] = "UNUSED" /\ pid'[q] = 0 /\ ~isThread'[q] /\ main_pid'[q] = 0
                   /\ main_thread'[q] = None
  BY DEF ClearFields, Reset
<1>5. \A q \in Procs : q \notin S =>
        /\ state'[q] = state[q] /\ pid'[q] = pid[q] /\ isThread'[q] = isThread[q]
        /\ main_pid'[q] = main_pid[q] /\ main_thread'[q] = main_thread[q]
        /\ tf'[q] = tf[q] /\ table'[q] = table[q] /\ sz'[q] = sz[q]
  BY DEF ClearFields, Reset
<1> QED
  BY <1>2, <1>3, <1>4, <1>5

\* p frees the slots in S and goes on at c: no thread that stays loses its main
\* thread.
Frees(p, S, c) ==
  /\ state[p] = "RUNNABLE" /\ panicked = "none"
  /\ S \subseteq Procs \ {p, initproc} /\ \A q \in S : state[q] # "USED"
  /\ c \in {"user", "exit"} /\ (p = initproc => c = "user")
  /\ \A q \in Procs : isThread[q] /\ q \notin S =>
       main_thread[q] \notin S /\ (c = "exit" => main_thread[q] # p)
  /\ FreeThreads(S)
  /\ op'[p] = At(c, None) /\ op' \in [Procs -> OpSet] /\ \A q \in S : op'[q] = User
  /\ \A q \in Procs : q # p /\ q \notin S => op'[q] = op[q]
  /\ killed' \in [Procs -> BOOLEAN] /\ ~killed'[initproc]
  /\ load' = load /\ cnt' = cnt /\ nextpid' = nextpid

LEMMA GFree ==
  ASSUME GInv, NEW p \in Procs, NEW S, NEW c, Frees(p, S, c),
         pages' \in [Tables -> 0 .. MaxSize], maps' \in [Tables -> SUBSET (0 .. MaxPid)]
  PROVE  GInv'
<1>f. /\ state[p] = "RUNNABLE" /\ panicked = "none"
      /\ S \in SUBSET Procs /\ p \notin S /\ initproc \notin S /\ \A q \in S : state[q] # "USED"
      /\ c \in {"user", "exit"} /\ (p = initproc => c = "user")
      /\ \A q \in Procs : isThread[q] /\ q \notin S =>
           main_thread[q] \notin S /\ (c = "exit" => main_thread[q] # p)
      /\ FreeThreads(S)
      /\ op'[p] = At(c, None) /\ op' \in [Procs -> OpSet] /\ \A q \in S : op'[q] = User
      /\ \A q \in Procs : q # p /\ q \notin S => op'[q] = op[q]
      /\ killed' \in [Procs -> BOOLEAN] /\ ~killed'[initproc]
      /\ load' = load /\ cnt' = cnt /\ nextpid' = nextpid
  BY DEF Frees
<1> USE <1>f
<1>0. /\ Types /\ Pids /\ OneParent /\ InitLives /\ ParentAlive /\ load \in Loads
      /\ \A q \in Procs : Slot(q) /\ Member(q) /\ Locals(q)
  BY DEF GInv, Types
<1>1. /\ state' \in [Procs -> {"UNUSED", "USED", "RUNNABLE", "SLEEPING", "ZOMBIE"}]
      /\ pid' \in [Procs -> 0 .. MaxPid] /\ main_pid' \in [Procs -> 0 .. MaxPid]
      /\ main_thread' \in [Procs -> Procs \cup {None}] /\ isThread' \in [Procs -> BOOLEAN]
      /\ tf' \in [Procs -> 0 .. MaxPid] /\ table' \in [Procs -> Tables \cup {None}]
      /\ sz' \in [Procs -> 0 .. MaxSize]
      /\ \A q \in S : /\ state'[q] = "UNUSED" /\ pid'[q] = 0 /\ ~isThread'[q] /\ main_pid'[q] = 0
                      /\ main_thread'[q] = None
      /\ \A q \in Procs : q \notin S =>
           /\ state'[q] = state[q] /\ pid'[q] = pid[q] /\ isThread'[q] = isThread[q]
           /\ main_pid'[q] = main_pid[q] /\ main_thread'[q] = main_thread[q]
           /\ tf'[q] = tf[q] /\ table'[q] = table[q] /\ sz'[q] = sz[q]
  BY <1>0, Cleared DEF FreeThreads
<1>2. /\ parent' \in [Procs -> Procs \cup {None}]
      /\ \A q \in Procs : parent'[q] = IF q \in S THEN None ELSE IF parent[q] \in S THEN initproc ELSE parent[q]
  BY <1>0, Constants DEF FreeThreads, Types
<1>3. op'[p].pc = c /\ op'[p].arg = None /\ op'[p].tbl = None
  BY AtFields
<1>4. Types'
  BY <1>0, <1>1, <1>2 DEF Types, OpSet, MaxPid, MaxSize
<1>5. \A q \in S : op'[q].pc = "user" /\ op'[q].tbl = None
  BY AtFields
<1>6. \A q \in Procs : q \notin S => (Alive(q)' <=> Alive(q))
  BY <1>1 DEF Alive
<1>7. Pids'
  <2>1. \A q \in Procs : pid'[q] < nextpid' /\ cnt'[q] < nextpid' - 1
    <3>1. 0 < nextpid
      BY <1>0 DEF Types
    <3> QED
      BY <1>0, <1>1, <3>1 DEF Pids
  <2>2. \A q, r \in Procs : pid'[q] = pid'[r] /\ pid'[q] # 0 => q = r
    BY <1>0, <1>1 DEF Pids
  <2> QED
    BY <2>1, <2>2 DEF Pids
<1>8. OneParent'
  BY <1>0, <1>3, <1>5 DEF OneParent
<1>9. InitLives'
  BY <1>0, <1>1, <1>3, <1>6, Constants DEF InitLives
<1>10. ParentAlive'
  <2>1. \A q \in Procs : parent[q] \in Procs \cup {None}
    BY <1>0 DEF Types
  <2>2. Alive(initproc)
    BY <1>0 DEF InitLives
  <2> QED
    BY <1>0, <1>2, <1>6, <2>1, <2>2, Constants DEF ParentAlive
<1>11. ASSUME NEW q \in Procs PROVE Slot(q)' /\ Member(q)' /\ Locals(q)'
  <2>0. Slot(q) /\ Member(q) /\ Locals(q)
    BY <1>0
  <2>1. Slot(q)'
    <3>1. CASE q \in S
      BY <1>1, <3>1 DEF Slot, Used, Alive
    <3>2. CASE q \notin S /\ q # p
      BY <1>1, <2>0, <3>2 DEF Slot, Used, Alive
    <3>3. CASE q = p
      BY <1>1, <2>0, <3>3 DEF Slot, Used, Alive
    <3> QED
      BY <3>1, <3>2, <3>3
  <2>2. Member(q)'
    <3> SUFFICES ASSUME isThread'[q] PROVE Member(q)'
      BY DEF Member
    <3>1. q \notin S /\ isThread[q] /\ main_thread[q] \notin S /\ main_thread[q] \in Procs
      BY <1>1, <2>0 DEF Member
    <3>2. parent'[q] = main_thread[q]
      BY <1>2, <2>0, <3>1 DEF Member
    <3>3. op'[main_thread[q]].pc # "exit"
      BY <1>3, <2>0, <3>1 DEF Member
    <3> QED
      BY <1>1, <1>6, <2>0, <3>1, <3>2, <3>3 DEF Member
  <2>3. Locals(q)'
    <3>1. CASE q \in S
      BY <1>5, <3>1 DEF Locals
    <3>2. CASE q = p
      BY <1>3, <3>2 DEF Locals
    <3>3. CASE q \notin S /\ q # p
      BY <1>1, <2>0, <3>3 DEF Locals
    <3> QED
      BY <3>1, <3>2, <3>3
  <2> QED
    BY <2>1, <2>2, <2>3
<1> QED
  BY <1>4, <1>7, <1>8, <1>9, <1>10, <1>11 DEF GInv

\* The threads of m's group are those whose main thread is m.
LEMMA Group ==
  ASSUME GInv, NEW m \in Procs, NEW q \in Procs
  PROVE  q \in ThreadsOf(pid[m]) <=> isThread[q] /\ main_thread[q] = m
<1>0. Pids /\ \A r \in Procs : Slot(r) /\ Member(r)
  BY DEF GInv
<1>1. ASSUME isThread[q] PROVE main_thread[q] \in Procs /\ pid[main_thread[q]] = main_pid[q] /\ main_pid[q] # 0
  <2>1. Member(q)
    BY <1>0
  <2>2. main_thread[q] \in Procs /\ pid[main_thread[q]] = main_pid[q] /\ Alive(main_thread[q])
    BY <1>1, <2>1 DEF Member
  <2>3. Slot(main_thread[q])
    BY <1>0, <2>2
  <2> QED
    BY <2>2, <2>3 DEF Slot, Used, Alive
<1> QED
  BY <1>0, <1>1 DEF ThreadsOf, Pids

\* What the steps that free slots have in common.
LEMMA ExitFrees ==
  ASSUME GInv, NEW p \in Procs, ExitStart(p)
  PROVE  \E S \in SUBSET Procs :
           /\ Frees(p, S, "exit") /\ killed' = Reset(killed, S, FALSE)
           /\ S = IF isThread[p] THEN {} ELSE ThreadsOf(pid[p])
           /\ \A q \in S : isThread[q] /\ main_thread[q] = p /\ ~isThread[p]
           /\ maps' = Unmapped(S) /\ panicked' = FreeingPanics(S) /\ pages' = pages
           /\ outstanding' = outstanding + 1
<1>0. Types /\ InitLives /\ load \in Loads /\ \A q \in Procs : Slot(q) /\ Member(q)
  BY DEF GInv, Types
<1> DEFINE S == IF isThread[p] THEN {} ELSE ThreadsOf(pid[p])
<1>1. /\ Is(p, "user") /\ (killed[p] \/ InUser(p, "exit")) /\ FreeThreads(S)
      /\ killed' = Reset(killed, S, FALSE) /\ maps' = Unmapped(S) /\ panicked' = FreeingPanics(S)
      /\ op' = [Reset(op, S, User) EXCEPT ![p] = At("exit", None)]
      /\ outstanding' = outstanding + 1 /\ UNCHANGED <<load, cnt, pages, nextpid>>
  BY DEF ExitStart, cleanAllThreads
<1>2. S \subseteq Procs /\ \A q \in Procs : q \in S => isThread[q] /\ main_thread[q] = p /\ ~isThread[p]
  BY Group DEF ThreadsOf
<1>3. \A q \in Procs : isThread[q] /\ q \notin S => main_thread[q] \notin S /\ main_thread[q] # p
  <2>1. \A q \in Procs : isThread[q] => ~isThread[main_thread[q]] /\ main_thread[q] \in Procs
    BY <1>0 DEF Member
  <2> QED
    BY <1>2, <2>1, Group
<1>4. S = IF isThread[p] THEN {} ELSE ThreadsOf(pid[p])
  OBVIOUS
<1> HIDE DEF S
<1>5. state[p] = "RUNNABLE" /\ panicked = "none" /\ p # initproc
  BY <1>0, <1>1, InUserRuns DEF Is, InitLives
<1>6. p \notin S /\ initproc \notin S /\ \A q \in S : state[q] # "USED"
  BY <1>0, <1>2, Constants DEF InitLives, Slot
<1>7. At("exit", None) \in OpSet /\ User \in OpSet
  BY <1>0, AtTypes DEF PCs
<1>8. /\ op'[p] = At("exit", None) /\ op' \in [Procs -> OpSet] /\ \A q \in S : op'[q] = User
      /\ \A q \in Procs : q # p /\ q \notin S => op'[q] = op[q]
  BY <1>0, <1>1, <1>2, <1>6, <1>7 DEF Reset, Types
<1>9. killed' \in [Procs -> BOOLEAN] /\ ~killed'[initproc]
  BY <1>0, <1>1, <1>6, Constants DEF Reset, Types, InitLives
<1>10. Frees(p, S, "exit")
  BY <1>1, <1>2, <1>3, <1>5, <1>6, <1>8, <1>9 DEF Frees
<1> QED
  BY <1>1, <1>2, <1>4, <1>10

LEMMA JoinFrees ==
  ASSUME GInv, NEW p \in Procs, JoinReap(p)
  PROVE  \E z \in Procs :
           /\ Frees(p, {z}, "user") /\ killed' = Reset(killed, {z}, FALSE)
           /\ isThread[z] /\ state[z] = "ZOMBIE" /\ main_thread[z] = main_thread[p] /\ op[z] = User
           /\ maps' = Unmapped({z}) /\ panicked' = FreeingPanics({z}) /\ pages' = pages
           /\ outstanding' = outstanding
<1>0. Types /\ InitLives /\ load \in Loads /\ \A q \in Procs : Slot(q) /\ Member(q)
  BY DEF GInv, Types
<1> DEFINE Z == Zombies(ThreadsOf(main_pid[p]))
           z == First(Z)
<1>1. /\ Joining(p) /\ Z # {} /\ FreeThreads({z})
      /\ killed' = Reset(killed, {z}, FALSE) /\ maps' = Unmapped({z}) /\ panicked' = FreeingPanics({z})
      /\ op' = [op EXCEPT ![p] = User]
      /\ UNCHANGED <<load, cnt, pages, nextpid, outstanding>>
  BY DEF JoinReap, Goto
<1>2. Z \in SUBSET Nat
  BY Constants DEF Zombies, ThreadsOf
<1>3. z \in Procs /\ state[z] = "ZOMBIE" /\ z \in ThreadsOf(main_pid[p])
  BY <1>1, <1>2, Least DEF Zombies, ThreadsOf
<1> HIDE DEF z, Z
<1>4. state[p] = "RUNNABLE" /\ panicked = "none" /\ Alive(p)
  BY <1>1 DEF Joining, InUser, Is, Alive
<1>5. main_thread[p] \in Procs /\ pid[main_thread[p]] = main_pid[p]
  BY <1>4, MainOf
<1>6. isThread[z] /\ main_thread[z] = main_thread[p]
  BY <1>3, <1>5, Group
<1>7. \A q \in Procs : isThread[q] /\ q \notin {z} => main_thread[q] \notin {z}
  BY <1>0, <1>6 DEF Member
<1>8. op[z] = User
  BY <1>0, <1>3 DEF Slot, Alive
<1>9. z # p /\ z # initproc
  BY <1>0, <1>3, <1>4 DEF InitLives, Alive
<1>10. op'[p] = User /\ op' \in [Procs -> OpSet] /\ \A q \in Procs : q # p => op'[q] = op[q]
  BY <1>0, <1>1, AtTypes, OpMove
<1>11. killed' \in [Procs -> BOOLEAN] /\ ~killed'[initproc]
  BY <1>0, <1>1, <1>9, Constants DEF Reset, Types, InitLives
<1>12. Frees(p, {z}, "user")
  BY <1>1, <1>3, <1>4, <1>7, <1>8, <1>9, <1>10, <1>11 DEF Frees, User
<1> QED
  BY <1>1, <1>3, <1>6, <1>8, <1>12

LEMMA WaitFrees ==
  ASSUME GInv, NEW p \in Procs, WaitReap(p)
  PROVE  \E z \in Procs :
           /\ Frees(p, {z}, "user") /\ killed' = [killed EXCEPT ![z] = FALSE]
           /\ ~isThread[z] /\ state[z] = "ZOMBIE" /\ parent[z] = p /\ op[z] = User /\ table[z] \in Tables
           /\ pages' = [pages EXCEPT ![table[z]] = 0] /\ maps' = [maps EXCEPT ![table[z]] = {}]
           /\ panicked' = IF FreeTablePanics(maps[table[z]], table[z], sz[z]) THEN "freewalk" ELSE "none"
           /\ outstanding' = outstanding
<1>0. Types /\ InitLives /\ ParentAlive /\ load \in Loads /\ \A q \in Procs : Slot(q) /\ Member(q)
  BY DEF GInv, Types
<1> DEFINE Z == Zombies(WaitedFor(p))
           z == First(Z)
<1>1. /\ Waiting(p) /\ Z # {} /\ ClearFields({z}) /\ parent' = [parent EXCEPT ![z] = None]
      /\ killed' = [killed EXCEPT ![z] = FALSE]
      /\ pages' = [pages EXCEPT ![table[z]] = 0] /\ maps' = [maps EXCEPT ![table[z]] = {}]
      /\ panicked' = IF FreeTablePanics(maps[table[z]], table[z], sz[z]) THEN "freewalk" ELSE "none"
      /\ op' = [op EXCEPT ![p] = User]
      /\ UNCHANGED <<load, cnt, nextpid, outstanding>>
  BY DEF WaitReap, Goto
<1>2. Z \in SUBSET Nat
  BY Constants DEF Zombies, WaitedFor, Children
<1>3. z \in Procs /\ state[z] = "ZOMBIE" /\ ~isThread[z] /\ parent[z] = p
  BY <1>1, <1>2, Least DEF Zombies, WaitedFor, Children
<1> HIDE DEF z, Z
<1>4. state[p] = "RUNNABLE" /\ panicked = "none"
  BY <1>1 DEF Waiting, InUser, Is
<1>5. \A q \in Procs : isThread[q] /\ q \notin {z} => main_thread[q] \notin {z}
  BY <1>0, <1>3 DEF Member, Alive
<1>6. op[z] = User /\ table[z] \in Tables
  BY <1>0, <1>3 DEF Slot, Alive, Used, Types
<1>7. z # p /\ z # initproc
  BY <1>0, <1>3, <1>4 DEF InitLives, Alive
<1>8. op'[p] = User /\ op' \in [Procs -> OpSet] /\ \A q \in Procs : q # p => op'[q] = op[q]
  BY <1>0, <1>1, AtTypes, OpMove
<1>9. killed' \in [Procs -> BOOLEAN] /\ ~killed'[initproc]
  BY <1>0, <1>1, <1>7, Constants DEF Types, InitLives
<1>10. FreeThreads({z})
  <2>1. \A q \in Procs : parent[q] # z
    BY <1>0, <1>3, Constants DEF ParentAlive, Alive
  <2>2. parent' = [q \in Procs |-> IF q \in {z} THEN None ELSE IF parent[q] \in {z} THEN initproc ELSE parent[q]]
    BY <1>0, <1>1, <2>1 DEF Types
  <2> QED
    BY <1>1, <2>2 DEF FreeThreads
<1>11. Frees(p, {z}, "user")
  BY <1>1, <1>3, <1>4, <1>5, <1>6, <1>7, <1>8, <1>9, <1>10 DEF Frees, User
<1> QED
  BY <1>1, <1>3, <1>6, <1>11

LEMMA ExecFrees ==
  ASSUME GInv, NEW p \in Procs, ExecCleanMain(p) \/ ExecCleanThread(p)
  PROVE  \E m \in Procs : \E S \in SUBSET Procs :
           /\ m = op[p].arg /\ m # initproc /\ op[p].pc = "commit" /\ S = ThreadsOf(pid[m])
           /\ Frees(p, S, "user") /\ \A q \in Procs : q \in S <=> isThread[q] /\ main_thread[q] = m
           /\ outstanding' = outstanding /\ op[p].tbl \in Tables /\ ~isThread[p]
           /\ \/ /\ m = p
                 /\ pages' = [pages EXCEPT ![op[p].tbl] = 0]
                 /\ maps' = [Unmapped(S) EXCEPT ![op[p].tbl] = {}]
                 /\ panicked' = IF FreeingPanics(S) # "none" THEN FreeingPanics(S)
                                ELSE IF FreeTablePanics(Unmapped(S)[op[p].tbl], op[p].tbl, op[p].sz)
                                     THEN "freewalk" ELSE "none"
              \/ m # p /\ pages' = pages /\ maps' = Unmapped(S) /\ panicked' = FreeingPanics(S)
<1>0. Types /\ InitLives /\ load \in Loads /\ \A q \in Procs : Slot(q) /\ Member(q) /\ Locals(q)
  BY DEF GInv, Types
<1>1. state[p] = "RUNNABLE" /\ panicked = "none" /\ op[p].pc = "commit"
  BY DEF ExecCleanMain, ExecCleanThread, Is
<1>2. PICK m \in Procs : m = op[p].arg /\ m # initproc
  BY <1>0, <1>1 DEF Locals
<1> DEFINE S == ThreadsOf(pid[m])
<1>3. S \in SUBSET Procs /\ \A q \in Procs : q \in S <=> isThread[q] /\ main_thread[q] = m
  BY Group DEF ThreadsOf
<1>4. /\ FreeThreads(S) /\ op' = [Reset(op, S, User) EXCEPT ![p] = User]
      /\ \/ m = p /\ killed' = Reset(killed, S, FALSE)
         \/ m # p /\ killed' = [Reset(killed, S, FALSE) EXCEPT ![m] = TRUE]
      /\ UNCHANGED <<load, cnt, nextpid, outstanding>>
  BY <1>2 DEF ExecCleanMain, ExecCleanThread, cleanAllThreads
<1>5. \/ /\ m = p
         /\ pages' = [pages EXCEPT ![op[p].tbl] = 0]
         /\ maps' = [Unmapped(S) EXCEPT ![op[p].tbl] = {}]
         /\ panicked' = IF FreeingPanics(S) # "none" THEN FreeingPanics(S)
                        ELSE IF FreeTablePanics(Unmapped(S)[op[p].tbl], op[p].tbl, op[p].sz)
                             THEN "freewalk" ELSE "none"
      \/ m # p /\ pages' = pages /\ maps' = Unmapped(S) /\ panicked' = FreeingPanics(S)
  BY <1>2 DEF ExecCleanMain, ExecCleanThread, cleanAllThreads
<1>6. S = ThreadsOf(pid[m])
  OBVIOUS
<1> HIDE DEF S
<1>7. ~isThread[p] /\ p # initproc /\ op[p].tbl \in Tables
  <2>1. op[p] \in OpSet
    BY <1>0 DEF Types
  <2> QED
    BY <1>0, <1>1, <2>1 DEF Locals, InitLives, OpSet
<1>8. p \notin S /\ initproc \notin S /\ \A q \in S : state[q] # "USED"
  BY <1>0, <1>3, <1>7, Constants DEF InitLives, Slot
<1>9. \A q \in Procs : isThread[q] /\ q \notin S => main_thread[q] \notin S
  BY <1>0, <1>3 DEF Member
<1>10. /\ op'[p] = User /\ op' \in [Procs -> OpSet] /\ \A q \in S : op'[q] = User
       /\ \A q \in Procs : q # p /\ q \notin S => op'[q] = op[q]
  BY <1>0, <1>3, <1>4, <1>8, AtTypes DEF Reset, Types
<1>11. killed' \in [Procs -> BOOLEAN] /\ ~killed'[initproc]
  <2>1. Reset(killed, S, FALSE) \in [Procs -> BOOLEAN] /\ ~Reset(killed, S, FALSE)[initproc]
    BY <1>0, Constants DEF Reset, Types, InitLives
  <2> QED
    BY <1>2, <1>4, <2>1, Constants
<1>12. Frees(p, S, "user")
  BY <1>1, <1>3, <1>4, <1>7, <1>8, <1>9, <1>10, <1>11 DEF Frees, User
<1> QED
  BY <1>1, <1>2, <1>3, <1>4, <1>5, <1>6, <1>7, <1>12

LEMMA GFrees ==
  ASSUME GInv, NEW p \in Procs,
         ExitStart(p) \/ JoinReap(p) \/ WaitReap(p) \/ ExecCleanMain(p) \/ ExecCleanThread(p)
  PROVE  GInv'
<1>0. /\ load \in Loads /\ pages \in [Tables -> 0 .. MaxSize] /\ maps \in [Tables -> SUBSET (0 .. MaxPid)]
  BY DEF GInv, Types
<1>1. \A S : Unmapped(S) \in [Tables -> SUBSET (0 .. MaxPid)]
  BY <1>0 DEF Unmapped
<1>2. 0 \in 0 .. MaxSize
  BY <1>0, Bounds
<1>3. CASE ExitStart(p)
  <2>1. PICK S \in SUBSET Procs : Frees(p, S, "exit") /\ maps' = Unmapped(S) /\ pages' = pages
    BY <1>3, ExitFrees
  <2> QED
    BY <1>0, <1>1, <2>1, GFree
<1>4. CASE JoinReap(p)
  <2>1. PICK z \in Procs : Frees(p, {z}, "user") /\ maps' = Unmapped({z}) /\ pages' = pages
    BY <1>4, JoinFrees
  <2> QED
    BY <1>0, <1>1, <2>1, GFree
<1>5. CASE WaitReap(p)
  <2>1. PICK z \in Procs : /\ Frees(p, {z}, "user") /\ pages' = [pages EXCEPT ![table[z]] = 0]
                           /\ maps' = [maps EXCEPT ![table[z]] = {}]
    BY <1>5, WaitFrees
  <2>2. pages' \in [Tables -> 0 .. MaxSize] /\ maps' \in [Tables -> SUBSET (0 .. MaxPid)]
    BY <1>0, <1>2, <2>1
  <2> QED
    BY <2>1, <2>2, GFree
<1>6. CASE ExecCleanMain(p) \/ ExecCleanThread(p)
  <2>1. PICK S \in SUBSET Procs :
          /\ Frees(p, S, "user")
          /\ \/ /\ pages' = [pages EXCEPT ![op[p].tbl] = 0]
                /\ maps' = [Unmapped(S) EXCEPT ![op[p].tbl] = {}]
             \/ pages' = pages /\ maps' = Unmapped(S)
    BY <1>6, ExecFrees
  <2>2. pages' \in [Tables -> 0 .. MaxSize] /\ maps' \in [Tables -> SUBSET (0 .. MaxPid)]
    BY <1>0, <1>1, <1>2, <2>1
  <2> QED
    BY <2>1, <2>2, GFree
<1> QED
  BY <1>3, <1>4, <1>5, <1>6

\* The actions, in the groups the proofs treat alike.
LEMMA Steps ==
  ASSUME Next
  PROVE  \E p \in Procs :
           \/ ForkAlloc(p) \/ ForkParent(p) \/ ForkDone(p) \/ paull04_clone(p) \/ CloneFails(p)
           \/ ExitStart(p) \/ ExitEnd(p) \/ WaitReap(p) \/ JoinReap(p)
           \/ WaitSleep(p) \/ JoinSleep(p) \/ WaitReturn(p) \/ JoinReturn(p)
           \/ JoinBadPointer(p) \/ GrowprocFails(p)
           \/ (\E k \in 0 .. MaxPid : KillFind(p, k)) \/ KillRead(p) \/ KillMark(p)
           \/ (\E n \in 1 .. MaxSize : growproc(p, n))
           \/ ExecStart(p) \/ ExecNoFile(p) \/ ExecTable(p) \/ ExecBad(p) \/ ExecLoaded(p)
           \/ ExecCommit(p) \/ ExecCleanMain(p) \/ ExecCleanThread(p)
           \/ FsBegin(p) \/ FsEnd(p)
BY DEF Next, Proceed, Syscall

LEMMA NextGInv ==
  ASSUME GInv, [Next]_vars
  PROVE  GInv'
<1>1. CASE UNCHANGED vars
  BY <1>1, GSame DEF vars, sysVars
<1>2. CASE Next
  <2>1. PICK p \in Procs :
           \/ ForkAlloc(p) \/ ForkParent(p) \/ ForkDone(p) \/ paull04_clone(p) \/ CloneFails(p)
           \/ ExitStart(p) \/ ExitEnd(p) \/ WaitReap(p) \/ JoinReap(p)
           \/ WaitSleep(p) \/ JoinSleep(p) \/ WaitReturn(p) \/ JoinReturn(p)
           \/ JoinBadPointer(p) \/ GrowprocFails(p)
           \/ (\E k \in 0 .. MaxPid : KillFind(p, k)) \/ KillRead(p) \/ KillMark(p)
           \/ (\E n \in 1 .. MaxSize : growproc(p, n))
           \/ ExecStart(p) \/ ExecNoFile(p) \/ ExecTable(p) \/ ExecBad(p) \/ ExecLoaded(p)
           \/ ExecCommit(p) \/ ExecCleanMain(p) \/ ExecCleanThread(p)
           \/ FsBegin(p) \/ FsEnd(p)
    BY <1>2, Steps
  <2>2. CASE ForkAlloc(p) \/ ForkParent(p) \/ ForkDone(p) \/ paull04_clone(p) \/ CloneFails(p)
    BY <2>2, GForkAlloc, GForkParent, GForkDone, GClone, GCloneFails
  <2>3. CASE ExitStart(p) \/ JoinReap(p) \/ WaitReap(p) \/ ExecCleanMain(p) \/ ExecCleanThread(p)
    BY <2>3, GFrees
  <2>4. CASE ExitEnd(p) \/ WaitSleep(p) \/ JoinSleep(p)
    BY <2>4, GExitEnd, GSleep
  <2>5. CASE \/ WaitReturn(p) \/ JoinReturn(p) \/ ExecStart(p) \/ ExecNoFile(p) \/ ExecBad(p)
             \/ FsBegin(p) \/ FsEnd(p)
    BY <2>5, GCalls
  <2>6. CASE JoinBadPointer(p) \/ GrowprocFails(p)
    BY <2>6, GSame DEF JoinBadPointer, GrowprocFails
  <2>7. CASE (\E k \in 0 .. MaxPid : KillFind(p, k)) \/ KillRead(p) \/ KillMark(p)
    BY <2>7, GKillFind, GKillRead, GKillMark
  <2>8. CASE (\E n \in 1 .. MaxSize : growproc(p, n)) \/ ExecTable(p) \/ ExecLoaded(p) \/ ExecCommit(p)
    BY <2>8, GGrowproc, GExecTable, GExecLoaded, GExecCommit
  <2> QED
    BY <2>1, <2>2, <2>3, <2>4, <2>5, <2>6, <2>7, <2>8
<1> QED
  BY <1>1, <1>2

LEMMA InitGInv ==
  ASSUME Init
  PROVE  GInv
<1>0. /\ load \in Loads /\ 0 \in 0 .. MaxPid /\ 1 \in 0 .. MaxPid /\ 0 \in 0 .. MaxSize /\ 1 \in 0 .. MaxSize
      /\ 2 \in 2 .. MaxPid + 1 /\ 1 \in Tables
  BY Bounds, NPROCAssumption DEF Init, Tables
<1>1. Types
  <2>1. User \in OpSet
    BY <1>0, AtTypes
  <2>2. /\ state \in [Procs -> {"UNUSED", "USED", "RUNNABLE", "SLEEPING", "ZOMBIE"}]
        /\ pid \in [Procs -> 0 .. MaxPid] /\ main_pid \in [Procs -> 0 .. MaxPid]
        /\ cnt \in [Procs -> 0 .. MaxPid] /\ tf \in [Procs -> 0 .. MaxPid]
    BY <1>0 DEF Init
  <2>3. /\ table \in [Procs -> Tables \cup {None}] /\ sz \in [Procs -> 0 .. MaxSize]
        /\ pages \in [Tables -> 0 .. MaxSize] /\ maps \in [Tables -> SUBSET (0 .. MaxPid)]
    BY <1>0 DEF Init
  <2>4. /\ parent \in [Procs -> Procs \cup {None}] /\ main_thread \in [Procs -> Procs \cup {None}]
        /\ killed \in [Procs -> BOOLEAN] /\ isThread \in [Procs -> BOOLEAN]
    BY Constants DEF Init
  <2>5. op \in [Procs -> OpSet] /\ nextpid \in 2 .. MaxPid + 1
    BY <1>0, <2>1 DEF Init
  <2> QED
    BY <1>0, <2>2, <2>3, <2>4, <2>5 DEF Types
<1>2. Pids
  BY DEF Init, Pids
<1>3. OneParent /\ ParentAlive
  BY AtFields DEF Init, OneParent, ParentAlive
<1>4. InitLives
  BY AtFields, Constants DEF Init, InitLives, Alive
<1>5. ASSUME NEW q \in Procs PROVE Slot(q) /\ Member(q) /\ Locals(q)
  <2>1. Slot(q)
    BY <1>0, Constants DEF Init, Slot, Used, Alive
  <2>2. Member(q) /\ Locals(q)
    BY AtFields DEF Init, Member, Locals
  <2> QED
    BY <2>1, <2>2
<1> QED
  BY <1>1, <1>2, <1>3, <1>4, <1>5 DEF GInv

-----------------------------------------------------------------------------
(* Page tables.                                                            *)

\* The owner of the page table of a slot in use, and the table an exec() fills
\* or has to free.
LEMMA Tenant ==
  ASSUME GInv, TableInv, NEW q \in Procs, Used(q)
  PROVE  /\ table[q] \in Tables /\ pages[table[q]] # 0
         /\ Owns(IF isThread[q] THEN main_thread[q] ELSE q, table[q])
         /\ (IF isThread[q] THEN main_thread[q] ELSE q) \in Procs
<1>0. /\ Types /\ Slot(q) /\ Member(q)
      /\ isThread[q] => table[q] = Home(main_thread[q])
      /\ \A r \in Procs : \A t \in Tables \cup {None} : Owns(r, t) => t \in Tables /\ pages[t] # 0
      /\ \A r \in Procs : Locals(r)
  BY DEF GInv, TableInv
<1>1. table[q] \in Tables \cup {None}
  BY <1>0 DEF Types
<1>2. CASE isThread[q]
  <2>1. PICK m \in Procs : m = main_thread[q] /\ Alive(m) /\ ~isThread[m] /\ Locals(m)
    BY <1>0, <1>2 DEF Member
  <2>2. Owns(m, Home(m))
    BY <2>1, Constants DEF Owns, Home, Used, Alive, Locals
  <2> QED
    BY <1>0, <1>1, <1>2, <2>1, <2>2
<1>3. CASE ~isThread[q]
  BY <1>0, <1>1, <1>3 DEF Owns
<1> QED
  BY <1>2, <1>3

\* The two tables of an exec(), and the slots that use them.
LEMMA ExecTables ==
  ASSUME GInv, TableInv, NEW r \in Procs, op[r].pc \in {"load", "loaded", "commit"},
         op[r].arg \in {None, r}
  PROVE  /\ op[r].tbl \in Tables /\ pages[op[r].tbl] # 0 /\ Owns(r, op[r].tbl)
         /\ \A q \in Procs : Used(q) /\ table[q] = op[r].tbl =>
              isThread[q] /\ main_thread[q] = r /\ op[r].pc = "commit"
         /\ \A q \in Procs : op[q].tbl = op[r].tbl /\ op[q].arg \in {None, q} => q = r
<1>0. /\ Types /\ Locals(r) /\ Slot(r)
      /\ \A q \in Procs : isThread[q] => table[q] = Home(main_thread[q])
      /\ \A q \in Procs : \A t \in Tables \cup {None} : Owns(q, t) => t \in Tables /\ pages[t] # 0
      /\ \A p, q \in Procs : \A t \in Tables \cup {None} : Owns(p, t) /\ Owns(q, t) => p = q
      /\ Used(r) /\ ~isThread[r] /\ op[r].tbl # None /\ op[r].arg \in {None, r} => table[r] # op[r].tbl
  BY DEF GInv, TableInv
<1>1. PICK t \in Tables : t = op[r].tbl
  <2>1. op[r] \in OpSet
    BY <1>0 DEF Types
  <2> QED
    BY <1>0, <2>1 DEF Locals, OpSet
<1>2. Owns(r, t) /\ t # None
  BY <1>1, Constants DEF Owns
<1>3. ASSUME NEW q \in Procs, Used(q), table[q] = t
      PROVE  isThread[q] /\ main_thread[q] = r /\ op[r].pc = "commit"
  <2>1. Owns(IF isThread[q] THEN main_thread[q] ELSE q, table[q]) /\ (IF isThread[q] THEN main_thread[q] ELSE q) \in Procs
    BY <1>3, Tenant
  <2>2. (IF isThread[q] THEN main_thread[q] ELSE q) = r
    BY <1>0, <1>2, <1>3, <2>1
  <2>3. CASE ~isThread[q]
    BY <1>0, <1>1, <1>2, <1>3, <2>2, <2>3
  <2>4. CASE isThread[q]
    <3>1. main_thread[q] = r /\ t = Home(r)
      BY <1>0, <1>3, <2>2, <2>4
    <3>2. Used(r) /\ ~isThread[r]
      <4>1. Member(q)
        BY DEF GInv
      <4> QED
        BY <2>4, <3>1, <4>1 DEF Member, Alive, Used
    <3> QED
      BY <1>0, <1>1, <1>2, <2>4, <3>1, <3>2 DEF Home
  <2> QED
    BY <2>3, <2>4
<1>4. ASSUME NEW q \in Procs, op[q].tbl = t, op[q].arg \in {None, q} PROVE q = r
  <2>1. Owns(q, t)
    BY <1>2, <1>4 DEF Owns
  <2> QED
    BY <1>0, <1>2, <2>1
<1> QED
  BY <1>0, <1>1, <1>2, <1>3, <1>4

LEMMA TKeep ==
  ASSUME TableInv,
         \A q \in Procs : \A t \in Tables \cup {None} : Owns(q, t)' => Owns(q, t) /\ pages'[t] # 0,
         \A q \in Procs : (Used(q) /\ ~isThread[q] /\ op[q].tbl # None /\ op[q].arg \in {None, q} =>
           table[q] # op[q].tbl)',
         \A q \in Procs : (isThread[q] => table[q] = Home(main_thread[q]))'
  PROVE  TableInv'
<1>0. /\ \A q \in Procs : \A t \in Tables \cup {None} : Owns(q, t) => t \in Tables /\ pages[t] # 0
      /\ \A p, q \in Procs : \A t \in Tables \cup {None} : Owns(p, t) /\ Owns(q, t) => p = q
  BY DEF TableInv
<1>1. \A q \in Procs : \A t \in Tables \cup {None} : Owns(q, t)' => t \in Tables /\ pages'[t] # 0
  BY <1>0
<1>2. \A p, q \in Procs : \A t \in Tables \cup {None} : Owns(p, t)' /\ Owns(q, t)' => p = q
  BY <1>0
<1> QED
  BY <1>1, <1>2 DEF TableInv

\* Steps that leave the tables of processes and of exec() alone.
LEMMA TFrame ==
  ASSUME GInv, GInv', TableInv,
         \A q \in Procs : /\ Used(q)' <=> Used(q)
                          /\ isThread'[q] = isThread[q] /\ table'[q] = table[q]
                          /\ isThread[q] => main_thread'[q] = main_thread[q],
         \A t \in Tables : pages[t] # 0 => pages'[t] # 0,
         \A q \in Procs : /\ op'[q].tbl = op[q].tbl
                          /\ op[q].tbl # None => op'[q].arg = op[q].arg /\ (op'[q].pc = "commit" <=> op[q].pc = "commit")
  PROVE  TableInv'
<1>0. /\ \A q \in Procs : \A t \in Tables \cup {None} : Owns(q, t) => t \in Tables /\ pages[t] # 0
      /\ \A q \in Procs : Used(q) /\ ~isThread[q] /\ op[q].tbl # None /\ op[q].arg \in {None, q} => table[q] # op[q].tbl
      /\ \A q \in Procs : isThread[q] => table[q] = Home(main_thread[q])
      /\ \A q \in Procs : Locals(q) /\ Locals(q)' /\ Member(q)
  BY DEF GInv, TableInv
<1>1. ASSUME NEW q \in Procs, NEW t \in Tables \cup {None}, Owns(q, t)'
      PROVE  Owns(q, t) /\ pages'[t] # 0
  <2>1. Owns(q, t)
    BY <1>1 DEF Owns
  <2> QED
    BY <1>0, <2>1
<1>2. ASSUME NEW q \in Procs PROVE Home(q)' = Home(q)
  BY <1>0 DEF Home, Locals
<1>3. ASSUME NEW q \in Procs, isThread'[q] PROVE table'[q] = Home(main_thread[q])'
  <2>1. PICK m \in Procs : m = main_thread[q] /\ m = main_thread'[q]
    BY <1>0, <1>3 DEF Member
  <2>2. table[q] = Home(m) /\ Home(m)' = Home(m)
    BY <1>0, <1>2, <1>3, <2>1
  <2>3. table'[q] = Home(m)'
    BY <2>2
  <2> QED
    BY <2>1, <2>3 DEF Home
<1>4. \A q \in Procs : (Used(q) /\ ~isThread[q] /\ op[q].tbl # None /\ op[q].arg \in {None, q} => table[q] # op[q].tbl)'
  BY <1>0
<1> QED
  BY <1>1, <1>3, <1>4, TKeep

\* What most steps of p leave alone: memory, slots and groups, and the table of
\* an exec().
Calm(p) ==
  /\ panicked = "none" /\ state[p] = "RUNNABLE" /\ load' = load
  /\ table' = table /\ tf' = tf /\ sz' = sz /\ pages' = pages
  /\ \A q \in Procs : /\ Used(q)' <=> Used(q)
                      /\ isThread'[q] = isThread[q]
                      /\ isThread[q] => main_thread'[q] = main_thread[q]
                      /\ q # p => op'[q] = op[q]
  /\ op'[p].tbl = op[p].tbl
  /\ op[p].tbl # None => op'[p].arg = op[p].arg /\ op[p].pc # "commit" /\ op'[p].pc # "commit"

LEMMA CalmStart ==
  ASSUME GInv, NEW p \in Procs, ExecStart(p)
  PROVE  Calm(p) /\ op'[p].pc = "exec"
<1>0. Types /\ Locals(p)
  BY DEF GInv
<1>1. /\ op' = [op EXCEPT ![p] = At("exec", None)]
      /\ UNCHANGED <<load, state, isThread, main_thread, table, tf, sz, pages>>
      /\ panicked = "none" /\ state[p] = "RUNNABLE" /\ op[p].pc = "user"
  BY DEF ExecStart, Goto, InUser, Is, procVars, groupVars
<1>2. op'[p] = At("exec", None) /\ \A q \in Procs : q # p => op'[q] = op[q]
  BY <1>0, <1>1 DEF Types
<1>3. op'[p].pc = "exec" /\ op'[p].tbl = None /\ op[p].tbl = None
  BY <1>0, <1>1, <1>2, AtFields DEF Locals
<1> QED
  BY <1>1, <1>2, <1>3 DEF Calm, Used

LEMMA CalmCalls ==
  ASSUME GInv, NEW p \in Procs,
         \/ WaitReturn(p) \/ JoinReturn(p) \/ ExecNoFile(p) \/ FsBegin(p) \/ FsEnd(p)
         \/ (\E k \in 0 .. MaxPid : KillFind(p, k)) \/ KillRead(p)
  PROVE  Calm(p) /\ maps' = maps /\ op'[p].pc \in {"user", "fs", "kill", "mark"}
<1>0. Types /\ Locals(p)
  BY DEF GInv
<1>a. PICK c \in {"user", "fs", "kill", "mark"} : \E x : op' = [op EXCEPT ![p] = At(c, x)]
  <2>1. CASE WaitReturn(p) \/ JoinReturn(p) \/ ExecNoFile(p) \/ FsEnd(p)
    <3>1. op' = [op EXCEPT ![p] = At("user", None)]
      BY <2>1 DEF WaitReturn, JoinReturn, ExecNoFile, FsEnd, Return, Goto, User
    <3> QED
      BY <3>1
  <2>2. CASE FsBegin(p)
    BY <2>2 DEF FsBegin, Goto
  <2>3. CASE (\E k \in 0 .. MaxPid : KillFind(p, k)) \/ KillRead(p)
    BY <2>3 DEF KillFind, KillRead, Goto
  <2> QED
    BY <2>1, <2>2, <2>3
<1>1. PICK x : op' = [op EXCEPT ![p] = At(c, x)]
  BY <1>a
<1>2. op'[p] = At(c, x) /\ \A q \in Procs : q # p => op'[q] = op[q]
  BY <1>0, <1>1 DEF Types
<1>3. op'[p].pc = c /\ op'[p].tbl = None
  BY <1>2, AtFields
<1>4. op[p].tbl = None /\ panicked = "none" /\ state[p] = "RUNNABLE"
  <2>1. panicked = "none" /\ state[p] = "RUNNABLE" /\ op[p].pc \in {"user", "wait", "join", "exec", "fs", "kill"}
    BY DEF WaitReturn, JoinReturn, ExecNoFile, FsBegin, FsEnd, KillFind, KillRead, InUser, Is
  <2> QED
    BY <1>0, <2>1 DEF Locals
<1>5. /\ load' = load /\ table' = table /\ tf' = tf /\ sz' = sz /\ pages' = pages
      /\ state' = state /\ isThread' = isThread /\ main_thread' = main_thread /\ maps' = maps
  <2>1. CASE WaitReturn(p) \/ JoinReturn(p) \/ ExecNoFile(p) \/ FsEnd(p) \/ FsBegin(p)
    BY <2>1 DEF WaitReturn, JoinReturn, ExecNoFile, FsEnd, FsBegin, Return, procVars, groupVars, memVars
  <2>2. CASE (\E k \in 0 .. MaxPid : KillFind(p, k)) \/ KillRead(p)
    BY <2>2 DEF KillFind, KillRead, procVars, groupVars, memVars
  <2> QED
    BY <2>1, <2>2
<1> QED
  BY <1>2, <1>3, <1>4, <1>5 DEF Calm, Used

LEMMA CalmSlots ==
  ASSUME GInv, NEW p \in Procs,
         ForkParent(p) \/ ForkDone(p) \/ ExitEnd(p) \/ WaitSleep(p) \/ JoinSleep(p) \/ KillMark(p)
  PROVE  Calm(p) /\ maps' = maps /\ op'[p].pc \in {"forked", "user", "wait", "join"}
<1>0. Types /\ Locals(p) /\ \A q \in Procs : Slot(q)
  BY DEF GInv
<1>a. PICK c \in {"forked", "user", "wait", "join"} : \E x : op' = [op EXCEPT ![p] = At(c, x)]
  <2>1. CASE ForkDone(p) \/ ExitEnd(p) \/ KillMark(p)
    <3>1. op' = [op EXCEPT ![p] = At("user", None)]
      BY <2>1 DEF ForkDone, ExitEnd, KillMark, Goto, User
    <3> QED
      BY <3>1
  <2>2. CASE ForkParent(p) \/ WaitSleep(p) \/ JoinSleep(p)
    BY <2>2 DEF ForkParent, WaitSleep, JoinSleep, Sleep, Goto
  <2> QED
    BY <2>1, <2>2
<1>1. PICK x : op' = [op EXCEPT ![p] = At(c, x)]
  BY <1>a
<1>2. op'[p] = At(c, x) /\ \A q \in Procs : q # p => op'[q] = op[q]
  BY <1>0, <1>1 DEF Types
<1>3. op'[p].pc = c /\ op'[p].tbl = None
  BY <1>2, AtFields
<1>4. op[p].tbl = None /\ panicked = "none" /\ state[p] = "RUNNABLE"
  <2>1. panicked = "none" /\ state[p] = "RUNNABLE" /\ op[p].pc \in {"user", "wait", "join", "fork", "forked", "exit", "mark"}
    BY DEF ForkParent, ForkDone, ExitEnd, WaitSleep, JoinSleep, KillMark, Waiting, Joining, InUser, Is
  <2> QED
    BY <1>0, <2>1 DEF Locals
<1>5. load' = load /\ table' = table /\ tf' = tf /\ sz' = sz /\ pages' = pages /\ maps' = maps
  BY DEF ForkParent, ForkDone, ExitEnd, WaitSleep, JoinSleep, KillMark, Sleep, memVars
<1>6. \A q \in Procs : /\ Used(q)' <=> Used(q)
                       /\ isThread'[q] = isThread[q] /\ (isThread[q] => main_thread'[q] = main_thread[q])
  <2>1. CASE ForkParent(p)
    BY <2>1 DEF ForkParent, groupVars, Used
  <2>2. CASE ForkDone(p)
    <3>1. PICK np \in Procs : np = op[p].arg /\ state[np] = "USED" /\ ~isThread[np]
      BY <1>0, <2>2 DEF ForkDone, Is, Locals, Slot
    <3>2. /\ state' = [state EXCEPT ![np] = "RUNNABLE"] /\ isThread' = [isThread EXCEPT ![np] = FALSE]
          /\ main_thread' = [main_thread EXCEPT ![np] = np]
      BY <2>2, <3>1 DEF ForkDone
    <3> QED
      BY <1>0, <3>1, <3>2 DEF Types, Used
  <2>3. CASE ExitEnd(p)
    <3>1. \A q \in Procs : state'[q] = "UNUSED" <=> state[q] = "UNUSED"
      BY <1>4, <2>3 DEF ExitEnd
    <3> QED
      BY <2>3, <3>1 DEF ExitEnd, groupVars, Used
  <2>4. CASE WaitSleep(p) \/ JoinSleep(p)
    <3>1. \A q \in Procs : state'[q] = "UNUSED" <=> state[q] = "UNUSED"
      BY <1>0, <1>4, <2>4 DEF WaitSleep, JoinSleep, Sleep, Types
    <3> QED
      BY <2>4, <3>1 DEF WaitSleep, JoinSleep, Sleep, groupVars, Used
  <2>5. CASE KillMark(p)
    <3>1. \A q \in Procs : state'[q] = "UNUSED" <=> state[q] = "UNUSED"
      BY <1>0, <1>4, <2>5 DEF KillMark, KillWakes, Types
    <3> QED
      BY <2>5, <3>1 DEF KillMark, groupVars, Used
  <2> QED
    BY <2>1, <2>2, <2>3, <2>4, <2>5
<1> QED
  BY <1>2, <1>3, <1>4, <1>5, <1>6 DEF Calm

LEMMA CalmSame ==
  ASSUME GInv, NEW p \in Procs, JoinBadPointer(p) \/ GrowprocFails(p) \/ CloneFails(p)
  PROVE  Calm(p) /\ maps' = maps /\ op' = op /\ op[p].pc = "user"
<1>0. Locals(p)
  BY DEF GInv
<1>1. panicked = "none" /\ state[p] = "RUNNABLE" /\ op[p].pc = "user"
  BY DEF JoinBadPointer, GrowprocFails, CloneFails, InUser, Is
<1>2. op[p].tbl = None
  BY <1>0, <1>1 DEF Locals
<1>3. /\ load' = load /\ table' = table /\ tf' = tf /\ sz' = sz /\ pages' = pages /\ maps' = maps
      /\ state' = state /\ isThread' = isThread /\ main_thread' = main_thread /\ op' = op
  BY DEF JoinBadPointer, GrowprocFails, CloneFails, procVars, groupVars, memVars
<1> QED
  BY <1>1, <1>2, <1>3 DEF Calm, Used

LEMMA CalmLoaded ==
  ASSUME GInv, NEW p \in Procs, ExecLoaded(p)
  PROVE  Calm(p) /\ maps' = maps /\ op[p].pc = "load" /\ op'[p].pc = "loaded"
<1>0. Types /\ op[p] \in OpSet
  BY DEF GInv, Types
<1> DEFINE o == [op[p] EXCEPT !.pc = "loaded", !.sz = sz[p]]
<1>1. panicked = "none" /\ state[p] = "RUNNABLE" /\ op[p].pc = "load" /\ op' = [op EXCEPT ![p] = o]
  BY DEF ExecLoaded, Is, Goto
<1>2. o.pc = "loaded" /\ o.arg = op[p].arg /\ o.tbl = op[p].tbl
  BY <1>0 DEF OpSet
<1> HIDE DEF o
<1>3. op'[p] = o /\ \A q \in Procs : q # p => op'[q] = op[q]
  BY <1>0, <1>1 DEF Types
<1>4. /\ load' = load /\ table' = table /\ tf' = tf /\ sz' = sz /\ pages' = pages /\ maps' = maps
      /\ state' = state /\ isThread' = isThread /\ main_thread' = main_thread
  BY DEF ExecLoaded, procVars, groupVars, memVars
<1> QED
  BY <1>1, <1>2, <1>3, <1>4 DEF Calm, Used

LEMMA TCalm ==
  ASSUME GInv, GInv', TableInv, NEW p \in Procs, Calm(p)
  PROVE  TableInv'
<1>1. \A q \in Procs : /\ Used(q)' <=> Used(q)
                       /\ isThread'[q] = isThread[q] /\ table'[q] = table[q]
                       /\ isThread[q] => main_thread'[q] = main_thread[q]
  BY DEF Calm
<1>2. \A t \in Tables : pages[t] # 0 => pages'[t] # 0
  BY DEF Calm
<1>3. \A q \in Procs : /\ op'[q].tbl = op[q].tbl
                       /\ op[q].tbl # None => op'[q].arg = op[q].arg /\ (op'[q].pc = "commit" <=> op[q].pc = "commit")
  BY DEF Calm
<1> QED
  BY <1>1, <1>2, <1>3, TFrame

LEMMA TGrowproc ==
  ASSUME GInv, GInv', TableInv, NEW p \in Procs, NEW n \in 1 .. MaxSize, growproc(p, n)
  PROVE  TableInv'
<1>0. Types /\ load \in Loads
  BY DEF GInv, Types
<1>1. /\ pages' = [pages EXCEPT ![table[main_thread[p]]] = n]
      /\ UNCHANGED <<load, procVars, groupVars, table, op>>
  BY DEF growproc
<1>2. n # 0
  BY <1>0, Bounds
<1>3. \A t \in Tables : pages[t] # 0 => pages'[t] # 0
  BY <1>0, <1>1, <1>2 DEF Types
<1>4. \A q \in Procs : /\ Used(q)' <=> Used(q)
                       /\ isThread'[q] = isThread[q] /\ table'[q] = table[q]
                       /\ isThread[q] => main_thread'[q] = main_thread[q]
  BY <1>1 DEF Used, procVars, groupVars
<1> QED
  BY <1>1, <1>3, <1>4, TFrame

\* What fork(), clone() and exec() do to slots and tables.
LEMMA ForkEffect ==
  ASSUME GInv, NEW p \in Procs, ForkAlloc(p)
  PROVE  \E np \in Procs, nt \in Tables :
           /\ np # p /\ state[p] = "RUNNABLE" /\ panicked = "none" /\ op[p].pc = "user" /\ op[p].tbl = None
           /\ InUser(p, IF isThread[p] THEN "threadfork" ELSE "fork")
           /\ state[np] = "UNUSED" /\ ~isThread[np] /\ op[np] = User /\ pages[nt] = 0
           /\ state'[np] = "USED" /\ table'[np] = nt /\ tf'[np] = 0 /\ sz'[np] = sz[p] /\ sz[p] # 0
           /\ \A q \in Procs : q # np => /\ state'[q] = state[q] /\ table'[q] = table[q]
                                         /\ tf'[q] = tf[q] /\ sz'[q] = sz[q]
           /\ pages'[nt] = sz[p] /\ maps'[nt] = {0}
           /\ \A t \in Tables : t # nt => pages'[t] = pages[t] /\ maps'[t] = maps[t]
           /\ op'[p] = At("fork", np) /\ \A q \in Procs : q # p => op'[q] = op[q]
           /\ UNCHANGED <<load, parent, killed, groupVars, outstanding, panicked>>
<1>0. Types /\ load \in Loads /\ Locals(p) /\ \A q \in Procs : Slot(q)
  BY DEF GInv, Types
<1> DEFINE np == First(Unused)
           nt == NewTable
<1>1. /\ Unused # {} /\ FreeTables # {} /\ InUser(p, IF isThread[p] THEN "threadfork" ELSE "fork")
      /\ state' = [state EXCEPT ![np] = "USED"] /\ table' = [table EXCEPT ![np] = nt]
      /\ pages' = [pages EXCEPT ![nt] = sz[p]] /\ maps' = [maps EXCEPT ![nt] = {0}]
      /\ tf' = [tf EXCEPT ![np] = 0] /\ sz' = [sz EXCEPT ![np] = sz[p]]
      /\ op' = [op EXCEPT ![p] = At("fork", np)]
      /\ UNCHANGED <<load, parent, killed, groupVars, outstanding, panicked>>
  BY DEF ForkAlloc, Goto
<1>2. state[p] = "RUNNABLE" /\ panicked = "none" /\ op[p].pc = "user"
  BY <1>1, InUserRuns
<1>3. np \in Procs /\ state[np] = "UNUSED" /\ nt \in Tables /\ pages[nt] = 0
  BY <1>0, <1>1, FirstUnused, FirstTable
<1> HIDE DEF np, nt
<1>4. ~isThread[np] /\ op[np] = User /\ np # p /\ sz[p] # 0 /\ op[p].tbl = None
  BY <1>0, <1>2, <1>3 DEF Slot, Alive, Used, Locals
<1>5. /\ state'[np] = "USED" /\ table'[np] = nt /\ tf'[np] = 0 /\ sz'[np] = sz[p]
      /\ \A q \in Procs : q # np => /\ state'[q] = state[q] /\ table'[q] = table[q]
                                    /\ tf'[q] = tf[q] /\ sz'[q] = sz[q]
  BY <1>0, <1>1, <1>3 DEF Types
<1>6. /\ pages'[nt] = sz[p] /\ maps'[nt] = {0}
      /\ \A t \in Tables : t # nt => pages'[t] = pages[t] /\ maps'[t] = maps[t]
      /\ op'[p] = At("fork", np) /\ \A q \in Procs : q # p => op'[q] = op[q]
  BY <1>0, <1>1, <1>3 DEF Types
<1> QED
  BY <1>1, <1>2, <1>3, <1>4, <1>5, <1>6

LEMMA CloneEffect ==
  ASSUME GInv, NEW p \in Procs, paull04_clone(p)
  PROVE  \E np, m \in Procs :
           /\ np # p /\ np # m /\ state[p] = "RUNNABLE" /\ panicked = "none" /\ op[p].pc = "user"
           /\ InUser(p, IF isThread[p] THEN "threadclone" ELSE "clone")
           /\ m = main_thread[p] /\ ~isThread[m] /\ Alive(m)
           /\ isThread[p] \/ p = m
           /\ state[np] = "UNUSED" /\ ~isThread[np] /\ op[np] = User /\ table[p] \in Tables
           /\ state'[np] = "RUNNABLE" /\ table'[np] = table[p] /\ tf'[np] = cnt[m] + 1 /\ sz'[np] = sz[p]
           /\ isThread'[np] /\ main_thread'[np] = m /\ parent'[np] = m
           /\ \A q \in Procs : q # np =>
                /\ state'[q] = state[q] /\ table'[q] = table[q] /\ tf'[q] = tf[q] /\ sz'[q] = sz[q]
                /\ isThread'[q] = isThread[q] /\ main_thread'[q] = main_thread[q] /\ parent'[q] = parent[q]
                /\ main_pid'[q] = main_pid[q]
           /\ cnt'[m] = cnt[m] + 1 /\ \A q \in Procs : q # m => cnt'[q] = cnt[q]
           /\ maps'[table[p]] = maps[table[p]] \cup {cnt[m] + 1}
           /\ \A t \in Tables : t # table[p] => maps'[t] = maps[t]
           /\ panicked' = IF cnt[m] + 1 \in maps[table[p]] THEN "remap" ELSE "none"
           /\ UNCHANGED <<load, pages, op, outstanding>>
<1>0. Types /\ load \in Loads /\ \A q \in Procs : Slot(q)
  BY DEF GInv, Types
<1>1. /\ InUser(p, IF isThread[p] THEN "threadclone" ELSE "clone")
      /\ state[p] = "RUNNABLE" /\ panicked = "none" /\ Alive(p) /\ op[p].pc = "user"
  BY InUserRuns DEF paull04_clone
<1>2. PICK m \in Procs : m = main_thread[p]
  BY <1>1, MainOf
<1>3. ~isThread[m] /\ Alive(m) /\ (isThread[p] \/ p = m)
  BY <1>1, <1>2, MainOf
<1> DEFINE np == First(Unused)
<1>4. /\ Unused # {}
      /\ cnt' = [cnt EXCEPT ![m] = @ + 1] /\ tf' = [tf EXCEPT ![np] = cnt[m] + 1]
      /\ maps' = [maps EXCEPT ![table[p]] = @ \cup {cnt[m] + 1}]
      /\ panicked' = IF cnt[m] + 1 \in maps[table[p]] THEN "remap" ELSE "none"
      /\ state' = [state EXCEPT ![np] = "RUNNABLE"]
      /\ parent' = [parent EXCEPT ![np] = m] /\ table' = [table EXCEPT ![np] = table[p]]
      /\ sz' = [sz EXCEPT ![np] = sz[p]] /\ isThread' = [isThread EXCEPT ![np] = TRUE]
      /\ main_pid' = [main_pid EXCEPT ![np] = main_pid[p]]
      /\ main_thread' = [main_thread EXCEPT ![np] = m]
      /\ UNCHANGED <<load, pages, op, outstanding>>
  BY <1>2 DEF paull04_clone, TrapframeVa
<1>5. np \in Procs /\ state[np] = "UNUSED"
  BY <1>0, <1>4, FirstUnused
<1> HIDE DEF np
<1>6. np # p /\ np # m /\ ~isThread[np] /\ op[np] = User /\ table[p] \in Tables
  BY <1>0, <1>1, <1>3, <1>5 DEF Slot, Alive, Used, Types
<1>7. /\ state'[np] = "RUNNABLE" /\ table'[np] = table[p] /\ tf'[np] = cnt[m] + 1 /\ sz'[np] = sz[p]
      /\ isThread'[np] /\ main_thread'[np] = m /\ parent'[np] = m
  BY <1>0, <1>4, <1>5 DEF Types
<1>8. \A q \in Procs : q # np =>
        /\ state'[q] = state[q] /\ table'[q] = table[q] /\ tf'[q] = tf[q] /\ sz'[q] = sz[q]
        /\ isThread'[q] = isThread[q] /\ main_thread'[q] = main_thread[q] /\ parent'[q] = parent[q]
        /\ main_pid'[q] = main_pid[q]
  BY <1>0, <1>4 DEF Types
<1>9. /\ cnt'[m] = cnt[m] + 1 /\ \A q \in Procs : q # m => cnt'[q] = cnt[q]
      /\ maps'[table[p]] = maps[table[p]] \cup {cnt[m] + 1}
      /\ \A t \in Tables : t # table[p] => maps'[t] = maps[t]
  BY <1>0, <1>4, <1>6 DEF Types
<1> QED
  BY <1>1, <1>2, <1>3, <1>4, <1>5, <1>6, <1>7, <1>8, <1>9, ZenonT(60)

LEMMA TableEffect ==
  ASSUME GInv, NEW p \in Procs, ExecTable(p)
  PROVE  \E nt \in Tables :
           /\ state[p] = "RUNNABLE" /\ panicked = "none" /\ op[p].pc = "exec" /\ op[p].tbl = None
           /\ pages[nt] = 0 /\ pages'[nt] = 1 /\ maps'[nt] = {0}
           /\ \A t \in Tables : t # nt => pages'[t] = pages[t] /\ maps'[t] = maps[t]
           /\ tf'[p] = 0 /\ \A q \in Procs : q # p => tf'[q] = tf[q]
           /\ op'[p].pc = "load" /\ op'[p].arg = None /\ op'[p].tbl = nt
           /\ \A q \in Procs : q # p => op'[q] = op[q]
           /\ UNCHANGED <<load, procVars, groupVars, table, sz, sysVars>>
<1> DEFINE nt == NewTable
           o == [At("load", None) EXCEPT !.tbl = nt]
<1>0. Types /\ Locals(p)
  BY DEF GInv
<1>1. /\ op[p].pc = "exec" /\ state[p] = "RUNNABLE" /\ panicked = "none" /\ FreeTables # {}
      /\ pages' = [pages EXCEPT ![nt] = 1] /\ maps' = [maps EXCEPT ![nt] = {0}]
      /\ tf' = [tf EXCEPT ![p] = 0] /\ op' = [op EXCEPT ![p] = o]
      /\ UNCHANGED <<load, procVars, groupVars, table, sz, sysVars>>
  BY DEF ExecTable, Is, Goto
<1>2. nt \in Tables /\ pages[nt] = 0
  BY <1>1, FirstTable
<1>3. o.pc = "load" /\ o.arg = None /\ o.tbl = nt
  BY DEF At
<1> HIDE DEF o, nt
<1>4. op'[p] = o /\ \A q \in Procs : q # p => op'[q] = op[q]
  BY <1>0, <1>1 DEF Types
<1>5. /\ pages'[nt] = 1 /\ maps'[nt] = {0} /\ tf'[p] = 0 /\ \A q \in Procs : q # p => tf'[q] = tf[q]
      /\ \A t \in Tables : t # nt => pages'[t] = pages[t] /\ maps'[t] = maps[t]
  BY <1>0, <1>1, <1>2 DEF Types
<1>6. op[p].tbl = None
  BY <1>0, <1>1 DEF Locals
<1> QED
  BY <1>1, <1>2, <1>3, <1>4, <1>5, <1>6

LEMMA BadEffect ==
  ASSUME GInv, NEW p \in Procs, ExecBad(p)
  PROVE  /\ state[p] = "RUNNABLE" /\ panicked = "none" /\ op[p].pc = "load" /\ op[p].arg = None
         /\ op[p].tbl \in Tables
         /\ \A t \in Tables : t # op[p].tbl => pages'[t] = pages[t] /\ maps'[t] = maps[t]
         /\ op'[p] = User /\ \A q \in Procs : q # p => op'[q] = op[q]
         /\ UNCHANGED <<load, procVars, groupVars, table, tf, sz, panicked>>
<1>0. Types /\ Locals(p) /\ op[p] \in OpSet
  BY DEF GInv, Types
<1>1. /\ state[p] = "RUNNABLE" /\ panicked = "none" /\ op[p].pc = "load"
      /\ op' = [op EXCEPT ![p] = User]
      /\ pages' = [pages EXCEPT ![op[p].tbl] = 0]
      /\ maps' = [maps EXCEPT ![op[p].tbl] = {}]
      /\ UNCHANGED <<load, procVars, groupVars, table, tf, sz, panicked>>
  BY DEF ExecBad, Is, Goto
<1>2. op[p].arg = None /\ op[p].tbl \in Tables
  BY <1>0, <1>1 DEF Locals, OpSet
<1>3. /\ \A t \in Tables : t # op[p].tbl => pages'[t] = pages[t] /\ maps'[t] = maps[t]
      /\ op'[p] = User /\ \A q \in Procs : q # p => op'[q] = op[q]
  BY <1>0, <1>1, <1>2 DEF Types
<1> QED
  BY <1>1, <1>2, <1>3

LEMMA CommitEffect ==
  ASSUME GInv, NEW p \in Procs, ExecCommit(p)
  PROVE  /\ state[p] = "RUNNABLE" /\ panicked = "none" /\ op[p].pc = "loaded" /\ op[p].arg = None
         /\ op[p].tbl \in Tables /\ table[p] \in Tables
         /\ table'[p] = op[p].tbl /\ main_thread'[p] = p /\ ~isThread'[p]
         /\ \A q \in Procs : q # p =>
              /\ table'[q] = table[q] /\ main_thread'[q] = main_thread[q] /\ isThread'[q] = isThread[q]
              /\ main_pid'[q] = main_pid[q]
         /\ op'[p].pc = "commit" /\ op'[p].arg = main_thread[p] /\ op'[p].tbl = table[p]
         /\ main_thread[p] \in Procs /\ (~isThread[p] <=> main_thread[p] = p)
         /\ \A q \in Procs : q # p => op'[q] = op[q]
         /\ UNCHANGED <<load, procVars, tf, pages, maps, sysVars>>
<1>0. Types /\ Locals(p) /\ Slot(p) /\ op[p] \in OpSet
  BY DEF GInv, Types
<1> DEFINE o == [pc |-> "commit", arg |-> main_thread[p], tbl |-> table[p], sz |-> op[p].sz]
<1>1. /\ op[p].pc = "loaded" /\ state[p] = "RUNNABLE" /\ panicked = "none"
      /\ table' = [table EXCEPT ![p] = op[p].tbl]
      /\ main_pid' = [main_pid EXCEPT ![p] = pid[p]] /\ main_thread' = [main_thread EXCEPT ![p] = p]
      /\ isThread' = [isThread EXCEPT ![p] = FALSE]
      /\ op' = [op EXCEPT ![p] = o]
      /\ UNCHANGED <<load, procVars, tf, pages, maps, sysVars>>
  BY DEF ExecCommit, Goto, Is
<1>2. o.pc = "commit" /\ o.arg = main_thread[p] /\ o.tbl = table[p]
  OBVIOUS
<1> HIDE DEF o
<1>3. op'[p] = o /\ \A q \in Procs : q # p => op'[q] = op[q]
  BY <1>0, <1>1 DEF Types
<1>4. /\ table'[p] = op[p].tbl /\ main_thread'[p] = p /\ ~isThread'[p]
      /\ \A q \in Procs : q # p =>
           /\ table'[q] = table[q] /\ main_thread'[q] = main_thread[q] /\ isThread'[q] = isThread[q]
           /\ main_pid'[q] = main_pid[q]
  BY <1>0, <1>1 DEF Types
<1>5. op[p].arg = None /\ op[p].tbl \in Tables /\ table[p] \in Tables
  BY <1>0, <1>1 DEF Locals, OpSet, Slot, Used, Types
<1>6. main_thread[p] \in Procs /\ (~isThread[p] <=> main_thread[p] = p)
  BY <1>1, MainOf DEF Alive
<1> QED
  BY <1>1, <1>2, <1>3, <1>4, <1>5, <1>6

\* The steps that change who owns which table.
LEMMA TForkAlloc ==
  ASSUME GInv, GInv', TableInv, NEW p \in Procs, ForkAlloc(p)
  PROVE  TableInv'
<1>0. /\ \A q \in Procs : \A t \in Tables \cup {None} : Owns(q, t) => t \in Tables /\ pages[t] # 0
      /\ \A q, r \in Procs : \A t \in Tables \cup {None} : Owns(q, t) /\ Owns(r, t) => q = r
      /\ \A q \in Procs : Used(q) /\ ~isThread[q] /\ op[q].tbl # None /\ op[q].arg \in {None, q} => table[q] # op[q].tbl
      /\ \A q \in Procs : isThread[q] => table[q] = Home(main_thread[q])
      /\ \A q \in Procs : Member(q)
  BY DEF GInv, TableInv
<1>1. PICK np \in Procs, nt \in Tables :
           /\ np # p /\ state[p] = "RUNNABLE" /\ op[p].pc = "user" /\ op[p].tbl = None
           /\ state[np] = "UNUSED" /\ ~isThread[np] /\ op[np] = User /\ pages[nt] = 0
           /\ state'[np] = "USED" /\ table'[np] = nt /\ sz[p] # 0
           /\ \A q \in Procs : q # np => state'[q] = state[q] /\ table'[q] = table[q]
           /\ pages'[nt] = sz[p]
           /\ \A t \in Tables : t # nt => pages'[t] = pages[t]
           /\ op'[p] = At("fork", np) /\ \A q \in Procs : q # p => op'[q] = op[q]
           /\ isThread' = isThread /\ main_thread' = main_thread
  BY ForkEffect DEF groupVars
<1>2. op'[p].tbl = None /\ op'[p].pc = "fork" /\ op'[np].tbl = None
  BY <1>1, AtFields
<1>3. ASSUME NEW q \in Procs, NEW t \in Tables \cup {None}, Owns(q, t)'
      PROVE  (q # np /\ Owns(q, t)) \/ (q = np /\ t = nt)
  <2>1. CASE q = np
    BY <1>1, <1>2, <1>3, <2>1 DEF Owns
  <2>2. CASE q # np
    BY <1>1, <1>2, <1>3, <2>2 DEF Owns, Used
  <2> QED
    BY <2>1, <2>2
<1>4. \A q \in Procs : ~Owns(q, nt)
  BY <1>0, <1>1
<1>5. \A q \in Procs : \A t \in Tables \cup {None} : Owns(q, t)' => t \in Tables /\ pages'[t] # 0
  BY <1>0, <1>1, <1>3, <1>4
<1>6. \A q, r \in Procs : \A t \in Tables \cup {None} : Owns(q, t)' /\ Owns(r, t)' => q = r
  BY <1>0, <1>3, <1>4
<1>7. ASSUME NEW q \in Procs PROVE (Used(q) /\ ~isThread[q] /\ op[q].tbl # None /\ op[q].arg \in {None, q} => table[q] # op[q].tbl)'
  BY <1>0, <1>1, <1>2 DEF Used
<1>8. ASSUME NEW q \in Procs, isThread'[q] PROVE table'[q] = Home(main_thread[q])'
  <2>1. PICK m \in Procs : m = main_thread[q] /\ m = main_thread'[q] /\ m # np /\ q # np
    BY <1>0, <1>1, <1>8 DEF Member, Alive
  <2>2. table[q] = Home(m)
    BY <1>0, <1>1, <1>8, <2>1
  <2>3. Home(m)' = Home(m)
    BY <1>1, <1>2, <2>1 DEF Home
  <2>4. table'[q] = Home(m)'
    BY <1>1, <2>1, <2>2, <2>3
  <2> QED
    BY <2>1, <2>4 DEF Home
<1> QED
  BY <1>5, <1>6, <1>7, <1>8 DEF TableInv

LEMMA TClone ==
  ASSUME GInv, GInv', TableInv, NEW p \in Procs, paull04_clone(p)
  PROVE  TableInv'
<1>0. /\ \A q \in Procs : \A t \in Tables \cup {None} : Owns(q, t) => t \in Tables /\ pages[t] # 0
      /\ \A q \in Procs : Used(q) /\ ~isThread[q] /\ op[q].tbl # None /\ op[q].arg \in {None, q} => table[q] # op[q].tbl
      /\ \A q \in Procs : isThread[q] => table[q] = Home(main_thread[q])
      /\ \A q \in Procs : Member(q)
  BY DEF GInv, TableInv
<1>1. PICK np, m \in Procs :
           /\ np # p /\ np # m /\ state[p] = "RUNNABLE" /\ op[p].pc = "user"
           /\ m = main_thread[p] /\ (isThread[p] \/ p = m)
           /\ state[np] = "UNUSED" /\ ~isThread[np] /\ op[np] = User
           /\ table'[np] = table[p] /\ isThread'[np] /\ main_thread'[np] = m
           /\ \A q \in Procs : q # np =>
                /\ state'[q] = state[q] /\ table'[q] = table[q]
                /\ isThread'[q] = isThread[q] /\ main_thread'[q] = main_thread[q]
           /\ pages' = pages /\ op' = op
  BY CloneEffect
<1>2. op[np].tbl = None
  BY <1>1, AtFields
<1>3. ASSUME NEW q \in Procs, NEW t \in Tables \cup {None}, Owns(q, t)'
      PROVE  Owns(q, t) /\ pages'[t] # 0
  <2>1. Owns(q, t)
    BY <1>1, <1>2, <1>3 DEF Owns, Used
  <2> QED
    BY <1>0, <1>1, <2>1
<1>4. ASSUME NEW q \in Procs PROVE (Used(q) /\ ~isThread[q] /\ op[q].tbl # None /\ op[q].arg \in {None, q} => table[q] # op[q].tbl)'
  BY <1>0, <1>1 DEF Used
<1>5. ASSUME NEW q \in Procs, q # np PROVE Home(q)' = Home(q)
  BY <1>1, <1>5 DEF Home
<1>6. ASSUME NEW q \in Procs, isThread'[q] PROVE table'[q] = Home(main_thread[q])'
  <2>1. CASE q = np
    <3>1. table[p] = Home(m)
      BY <1>0, <1>1 DEF Home
    <3>2. table'[q] = Home(m)'
      BY <1>1, <1>5, <2>1, <3>1
    <3> QED
      BY <1>1, <2>1, <3>2 DEF Home
  <2>2. CASE q # np
    <3>1. PICK k \in Procs : k = main_thread[q] /\ k = main_thread'[q] /\ k # np
      BY <1>0, <1>1, <1>6, <2>2 DEF Member, Alive
    <3>2. table[q] = Home(k)
      BY <1>0, <1>1, <1>6, <2>2, <3>1
    <3>3. table'[q] = Home(k)'
      BY <1>1, <1>5, <2>2, <3>1, <3>2
    <3> QED
      BY <3>1, <3>3 DEF Home
  <2> QED
    BY <2>1, <2>2
<1> QED
  BY <1>3, <1>4, <1>6, TKeep

LEMMA TExecTable ==
  ASSUME GInv, GInv', TableInv, NEW p \in Procs, ExecTable(p)
  PROVE  TableInv'
<1>0. /\ \A q \in Procs : \A t \in Tables \cup {None} : Owns(q, t) => t \in Tables /\ pages[t] # 0
      /\ \A q, r \in Procs : \A t \in Tables \cup {None} : Owns(q, t) /\ Owns(r, t) => q = r
      /\ \A q \in Procs : Used(q) /\ ~isThread[q] /\ op[q].tbl # None /\ op[q].arg \in {None, q} => table[q] # op[q].tbl
      /\ \A q \in Procs : isThread[q] => table[q] = Home(main_thread[q])
      /\ \A q \in Procs : Member(q)
      /\ table \in [Procs -> Tables \cup {None}]
  BY DEF GInv, TableInv, Types
<1>1. PICK nt \in Tables :
           /\ op[p].pc = "exec" /\ op[p].tbl = None
           /\ pages[nt] = 0 /\ pages'[nt] = 1
           /\ \A t \in Tables : t # nt => pages'[t] = pages[t]
           /\ op'[p].pc = "load" /\ op'[p].arg = None /\ op'[p].tbl = nt
           /\ \A q \in Procs : q # p => op'[q] = op[q]
           /\ UNCHANGED <<state, isThread, main_thread, table>>
  BY TableEffect DEF procVars, groupVars
<1>2. ASSUME NEW q \in Procs, NEW t \in Tables \cup {None}, Owns(q, t)'
      PROVE  Owns(q, t) \/ (q = p /\ t = nt)
  BY <1>1, <1>2 DEF Owns, Used
<1>3. \A q \in Procs : ~Owns(q, nt)
  BY <1>0, <1>1
<1>4. \A q \in Procs : \A t \in Tables \cup {None} : Owns(q, t)' => t \in Tables /\ pages'[t] # 0
  BY <1>0, <1>1, <1>2, <1>3
<1>5. \A q, r \in Procs : \A t \in Tables \cup {None} : Owns(q, t)' /\ Owns(r, t)' => q = r
  BY <1>0, <1>2, <1>3
<1>6. ASSUME NEW q \in Procs PROVE (Used(q) /\ ~isThread[q] /\ op[q].tbl # None /\ op[q].arg \in {None, q} => table[q] # op[q].tbl)'
  <2>1. CASE q = p
    <3>1. Used(p) /\ ~isThread[p] => table[p] # nt
      BY <1>3 DEF Owns
    <3> QED
      BY <1>1, <2>1, <3>1 DEF Used
  <2>2. CASE q # p
    BY <1>0, <1>1, <2>2 DEF Used
  <2> QED
    BY <2>1, <2>2
<1>7. ASSUME NEW q \in Procs, isThread'[q] PROVE table'[q] = Home(main_thread[q])'
  <2>1. PICK m \in Procs : m = main_thread[q] /\ m = main_thread'[q]
    BY <1>0, <1>1, <1>7 DEF Member
  <2>2. table[q] = Home(m) /\ Home(m)' = Home(m)
    BY <1>0, <1>1, <1>7, <2>1 DEF Home
  <2>3. table'[q] = Home(m)'
    BY <1>1, <2>2
  <2> QED
    BY <2>1, <2>3 DEF Home
<1> QED
  BY <1>4, <1>5, <1>6, <1>7 DEF TableInv

LEMMA TExecBad ==
  ASSUME GInv, GInv', TableInv, NEW p \in Procs, ExecBad(p)
  PROVE  TableInv'
<1>0. /\ \A q \in Procs : \A t \in Tables \cup {None} : Owns(q, t) => t \in Tables /\ pages[t] # 0
      /\ \A q, r \in Procs : \A t \in Tables \cup {None} : Owns(q, t) /\ Owns(r, t) => q = r
      /\ \A q \in Procs : Used(q) /\ ~isThread[q] /\ op[q].tbl # None /\ op[q].arg \in {None, q} => table[q] # op[q].tbl
      /\ \A q \in Procs : isThread[q] => table[q] = Home(main_thread[q])
      /\ \A q \in Procs : Member(q)
  BY DEF GInv, TableInv
<1>1. /\ op[p].pc = "load" /\ op[p].arg = None /\ op[p].tbl \in Tables
      /\ \A t \in Tables : t # op[p].tbl => pages'[t] = pages[t]
      /\ op'[p] = User /\ \A q \in Procs : q # p => op'[q] = op[q]
      /\ UNCHANGED <<state, isThread, main_thread, table>>
  BY BadEffect DEF procVars, groupVars
<1>2. op'[p].tbl = None /\ op'[p].pc = "user" /\ op[p].tbl # None
  BY <1>1, AtFields, Constants
<1>3. Owns(p, op[p].tbl)
  BY <1>1, <1>2 DEF Owns
<1>4. ASSUME NEW q \in Procs, NEW t \in Tables \cup {None}, Owns(q, t)'
      PROVE  Owns(q, t) /\ pages'[t] # 0
  <2>1. Owns(q, t) /\ (q = p => Used(p) /\ ~isThread[p] /\ t = table[p])
    BY <1>1, <1>2, <1>4 DEF Owns, Used
  <2>2. t # op[p].tbl
    BY <1>0, <1>1, <1>2, <1>3, <2>1
  <2> QED
    BY <1>0, <1>1, <2>1, <2>2
<1>5. ASSUME NEW q \in Procs PROVE (Used(q) /\ ~isThread[q] /\ op[q].tbl # None /\ op[q].arg \in {None, q} => table[q] # op[q].tbl)'
  BY <1>0, <1>1, <1>2 DEF Used
<1>6. ASSUME NEW q \in Procs, isThread'[q] PROVE table'[q] = Home(main_thread[q])'
  <2>1. PICK m \in Procs : m = main_thread[q] /\ m = main_thread'[q]
    BY <1>0, <1>1, <1>6 DEF Member
  <2>2. table[q] = Home(m) /\ Home(m)' = Home(m)
    BY <1>0, <1>1, <1>2, <1>6, <2>1 DEF Home
  <2>3. table'[q] = Home(m)'
    BY <1>1, <2>2
  <2> QED
    BY <2>1, <2>3 DEF Home
<1> QED
  BY <1>4, <1>5, <1>6, TKeep

LEMMA TExecCommit ==
  ASSUME GInv, GInv', TableInv, NEW p \in Procs, ExecCommit(p)
  PROVE  TableInv'
<1>0. /\ \A q \in Procs : \A t \in Tables \cup {None} : Owns(q, t) => t \in Tables /\ pages[t] # 0
      /\ \A q \in Procs : Used(q) /\ ~isThread[q] /\ op[q].tbl # None /\ op[q].arg \in {None, q} => table[q] # op[q].tbl
      /\ \A q \in Procs : isThread[q] => table[q] = Home(main_thread[q])
      /\ \A q \in Procs : Member(q)
  BY DEF GInv, TableInv
<1>1. /\ state[p] = "RUNNABLE" /\ op[p].pc = "loaded" /\ op[p].arg = None
      /\ op[p].tbl \in Tables /\ table[p] \in Tables
      /\ table'[p] = op[p].tbl /\ main_thread'[p] = p /\ ~isThread'[p]
      /\ \A q \in Procs : q # p =>
           table'[q] = table[q] /\ main_thread'[q] = main_thread[q] /\ isThread'[q] = isThread[q]
      /\ op'[p].pc = "commit" /\ op'[p].arg = main_thread[p] /\ op'[p].tbl = table[p]
      /\ main_thread[p] \in Procs /\ (~isThread[p] <=> main_thread[p] = p)
      /\ \A q \in Procs : q # p => op'[q] = op[q]
      /\ state' = state /\ pages' = pages
  BY CommitEffect DEF procVars
<1>2. op[p].tbl # None /\ Used(p) /\ None \notin Procs
  BY <1>1, Constants DEF Used
<1>3. ASSUME NEW q \in Procs, NEW t \in Tables \cup {None}, Owns(q, t)'
      PROVE  Owns(q, t) /\ pages'[t] # 0
  <2>1. CASE q = p
    BY <1>0, <1>1, <1>2, <1>3, <2>1 DEF Owns
  <2>2. CASE q # p
    <3>1. Owns(q, t)
      BY <1>1, <1>3, <2>2 DEF Owns, Used
    <3> QED
      BY <1>0, <1>1, <3>1
  <2> QED
    BY <2>1, <2>2
<1>4. ASSUME NEW q \in Procs PROVE (Used(q) /\ ~isThread[q] /\ op[q].tbl # None /\ op[q].arg \in {None, q} => table[q] # op[q].tbl)'
  <2>1. CASE q = p
    BY <1>0, <1>1, <1>2, <2>1
  <2>2. CASE q # p
    BY <1>0, <1>1, <2>2 DEF Used
  <2> QED
    BY <2>1, <2>2
<1>5. ASSUME NEW q \in Procs, isThread'[q] PROVE table'[q] = Home(main_thread[q])'
  <2>1. PICK m \in Procs : m = main_thread[q] /\ m = main_thread'[q] /\ q # p /\ ~isThread[m]
    BY <1>0, <1>1, <1>5 DEF Member
  <2>2. table[q] = Home(m)
    BY <1>0, <1>1, <1>5, <2>1
  <2>3. Home(m)' = Home(m)
    BY <1>1, <2>1 DEF Home
  <2>4. table'[q] = Home(m)'
    BY <1>1, <2>1, <2>2, <2>3
  <2> QED
    BY <2>1, <2>4 DEF Home
<1> QED
  BY <1>3, <1>4, <1>5, TKeep

LEMMA FreeEffect ==
  ASSUME GInv, NEW p \in Procs, NEW S, NEW c, Frees(p, S, c)
  PROVE  /\ state[p] = "RUNNABLE" /\ panicked = "none" /\ S \in SUBSET Procs /\ p \notin S /\ load' = load /\ cnt' = cnt
         /\ \A q \in S : state'[q] = "UNUSED" /\ ~isThread'[q] /\ op'[q] = User /\ op'[q].pc = "user" /\ op'[q].tbl = None
         /\ \A q \in Procs : q \notin S =>
              /\ state'[q] = state[q] /\ isThread'[q] = isThread[q] /\ main_pid'[q] = main_pid[q]
              /\ main_thread'[q] = main_thread[q] /\ tf'[q] = tf[q] /\ table'[q] = table[q] /\ sz'[q] = sz[q]
         /\ \A q \in Procs : parent'[q] = IF q \in S THEN None ELSE IF parent[q] \in S THEN initproc ELSE parent[q]
         /\ op'[p].pc = c /\ op'[p].arg = None /\ op'[p].tbl = None
         /\ \A q \in Procs : q # p /\ q \notin S => op'[q] = op[q]
<1>0. Types
  BY DEF GInv
<1>1. /\ state[p] = "RUNNABLE" /\ panicked = "none" /\ S \in SUBSET Procs /\ p \notin S /\ load' = load /\ cnt' = cnt
      /\ FreeThreads(S) /\ ClearFields(S)
      /\ op'[p] = At(c, None) /\ \A q \in S : op'[q] = User
      /\ \A q \in Procs : q # p /\ q \notin S => op'[q] = op[q]
  BY DEF Frees, FreeThreads
<1>2. /\ \A q \in S : state'[q] = "UNUSED" /\ ~isThread'[q]
      /\ \A q \in Procs : q \notin S =>
           /\ state'[q] = state[q] /\ isThread'[q] = isThread[q] /\ main_pid'[q] = main_pid[q]
           /\ main_thread'[q] = main_thread[q] /\ tf'[q] = tf[q] /\ table'[q] = table[q] /\ sz'[q] = sz[q]
  BY <1>0, <1>1, Cleared
<1>3. \A q \in Procs : parent'[q] = IF q \in S THEN None ELSE IF parent[q] \in S THEN initproc ELSE parent[q]
  BY <1>1 DEF FreeThreads
<1> QED
  BY <1>1, <1>2, <1>3, AtFields

\* Freed slots own nothing, and p gives up the table of an exec().
LEMMA FreeOwns ==
  ASSUME GInv, NEW p \in Procs, NEW S, NEW c, Frees(p, S, c),
         NEW q \in Procs, NEW t, Owns(q, t)'
  PROVE  Owns(q, t) /\ q \notin S /\ (q = p => ~isThread[p] /\ t = table[p])
<1>1. /\ S \in SUBSET Procs /\ p \notin S
      /\ \A r \in S : state'[r] = "UNUSED" /\ op'[r].tbl = None
      /\ \A r \in Procs : r \notin S =>
              /\ state'[r] = state[r] /\ isThread'[r] = isThread[r] /\ table'[r] = table[r]
      /\ op'[p].tbl = None
      /\ \A r \in Procs : r # p /\ r \notin S => op'[r] = op[r]
  BY FreeEffect
<1>2. q \notin S
  BY <1>1 DEF Owns, Used
<1> QED
  BY <1>1, <1>2 DEF Owns, Used

LEMMA TFree ==
  ASSUME GInv, GInv', TableInv, NEW p \in Procs, NEW S, NEW c, Frees(p, S, c),
         \A q \in Procs : \A t \in Tables : Owns(q, t)' => pages'[t] = pages[t],
         \A q \in Procs : isThread[q] /\ main_thread[q] = p /\ q \notin S => op[p].pc # "commit" \/ op[p].arg # p
  PROVE  TableInv'
<1>0. /\ \A q \in Procs : \A t \in Tables \cup {None} : Owns(q, t) => t \in Tables /\ pages[t] # 0
      /\ \A q \in Procs : Used(q) /\ ~isThread[q] /\ op[q].tbl # None /\ op[q].arg \in {None, q} => table[q] # op[q].tbl
      /\ \A q \in Procs : isThread[q] => table[q] = Home(main_thread[q])
      /\ \A q \in Procs : Member(q)
  BY DEF GInv, TableInv
<1>1. /\ S \in SUBSET Procs /\ p \notin S
      /\ \A q \in S : state'[q] = "UNUSED" /\ ~isThread'[q]
      /\ \A q \in Procs : q \notin S =>
              /\ state'[q] = state[q] /\ isThread'[q] = isThread[q]
              /\ main_thread'[q] = main_thread[q] /\ table'[q] = table[q]
      /\ op'[p].pc = c /\ op'[p].tbl = None
      /\ \A q \in Procs : q # p /\ q \notin S => op'[q] = op[q]
  BY FreeEffect
<1>2. \A q \in Procs : isThread[q] /\ q \notin S => main_thread[q] \notin S
  BY DEF Frees
<1>c. c # "commit"
  BY DEF Frees
<1>3. ASSUME NEW q \in Procs, NEW t \in Tables \cup {None}, Owns(q, t)'
      PROVE  Owns(q, t) /\ pages'[t] # 0
  <2>1. Owns(q, t)
    BY <1>3, FreeOwns
  <2> QED
    BY <1>0, <1>3, <2>1
<1>4. ASSUME NEW q \in Procs PROVE (Used(q) /\ ~isThread[q] /\ op[q].tbl # None /\ op[q].arg \in {None, q} => table[q] # op[q].tbl)'
  BY <1>0, <1>1 DEF Used
<1>5. ASSUME NEW q \in Procs, isThread'[q] PROVE table'[q] = Home(main_thread[q])'
  <2>1. q \notin S /\ isThread[q]
    BY <1>1, <1>5
  <2>2. PICK m \in Procs : m = main_thread[q] /\ m = main_thread'[q] /\ m \notin S
    BY <1>0, <1>1, <1>2, <2>1 DEF Member
  <2>3. Home(m)' = Home(m)
    <3>1. CASE m = p
      BY <1>1, <1>c, <2>1, <2>2, <3>1 DEF Home
    <3>2. CASE m # p
      BY <1>1, <2>2, <3>2 DEF Home
    <3> QED
      BY <3>1, <3>2
  <2>4. table'[q] = Home(m)'
    BY <1>0, <1>1, <2>1, <2>2, <2>3
  <2> QED
    BY <2>2, <2>4 DEF Home
<1> QED
  BY <1>3, <1>4, <1>5, TKeep

LEMMA TFrees ==
  ASSUME GInv, GInv', TableInv, NEW p \in Procs,
         ExitStart(p) \/ JoinReap(p) \/ WaitReap(p) \/ ExecCleanMain(p) \/ ExecCleanThread(p)
  PROVE  TableInv'
<1>0. /\ \A q, r \in Procs : \A t \in Tables \cup {None} : Owns(q, t) /\ Owns(r, t) => q = r
      /\ pages \in [Tables -> 0 .. MaxSize]
  BY DEF GInv, TableInv, Types
<1>1. CASE ExitStart(p)
  <2>1. PICK S \in SUBSET Procs : Frees(p, S, "exit") /\ pages' = pages
    BY <1>1, ExitFrees
  <2>2. op[p].pc = "user"
    BY <1>1 DEF ExitStart, InUser, Is
  <2> QED
    BY <2>1, <2>2, TFree
<1>2. CASE JoinReap(p)
  <2>1. PICK z \in Procs : Frees(p, {z}, "user") /\ pages' = pages
    BY <1>2, JoinFrees
  <2>2. op[p].pc \in {"user", "join"}
    BY <1>2 DEF JoinReap, Joining, InUser, Is
  <2> QED
    BY <2>1, <2>2, TFree
<1>3. CASE WaitReap(p)
  <2>1. PICK z \in Procs : /\ Frees(p, {z}, "user") /\ ~isThread[z] /\ state[z] = "ZOMBIE" /\ table[z] \in Tables
                           /\ pages' = [pages EXCEPT ![table[z]] = 0]
    BY <1>3, WaitFrees
  <2>2. op[p].pc \in {"user", "wait"}
    BY <1>3 DEF WaitReap, Waiting, InUser, Is
  <2>3. Owns(z, table[z])
    BY <2>1 DEF Owns, Used
  <2>4. ASSUME NEW q \in Procs, NEW t \in Tables, Owns(q, t)' PROVE pages'[t] = pages[t]
    <3>1. Owns(q, t) /\ q # z
      BY <2>1, <2>4, FreeOwns
    <3>2. t # table[z]
      BY <1>0, <2>1, <2>3, <3>1
    <3> QED
      BY <1>0, <2>1, <3>2
  <2> QED
    BY <2>1, <2>2, <2>4, TFree
<1>4. CASE ExecCleanMain(p) \/ ExecCleanThread(p)
  <2>1. PICK m \in Procs : \E S \in SUBSET Procs :
           /\ m = op[p].arg /\ op[p].pc = "commit"
           /\ Frees(p, S, "user") /\ \A q \in Procs : q \in S <=> isThread[q] /\ main_thread[q] = m
           /\ op[p].tbl \in Tables /\ ~isThread[p]
           /\ (m = p /\ pages' = [pages EXCEPT ![op[p].tbl] = 0]) \/ (m # p /\ pages' = pages)
    BY <1>4, ExecFrees
  <2>2. PICK S \in SUBSET Procs :
           /\ Frees(p, S, "user") /\ \A q \in Procs : q \in S <=> isThread[q] /\ main_thread[q] = m
    BY <2>1
  <2>3. CASE m # p
    BY <2>1, <2>2, <2>3, TFree
  <2>4. CASE m = p
    <3>0. op[p].tbl # table[p] /\ Owns(p, op[p].tbl)
      <4>1. Used(p)
        BY <2>2 DEF Frees, Used
      <4> QED
        BY <2>1, <2>4, <4>1, Constants DEF TableInv, Owns
    <3>1. ASSUME NEW q \in Procs, NEW t \in Tables, Owns(q, t)' PROVE pages'[t] = pages[t]
      <4>1. Owns(q, t) /\ (q = p => t = table[p])
        BY <2>2, <3>1, FreeOwns
      <4>2. t # op[p].tbl
        BY <1>0, <3>0, <4>1
      <4> QED
        BY <1>0, <2>1, <2>4, <4>2
    <3> QED
      BY <2>2, <2>4, <3>1, TFree
  <2> QED
    BY <2>3, <2>4
<1> QED
  BY <1>1, <1>2, <1>3, <1>4

LEMMA NextTableInv ==
  ASSUME GInv, GInv', TableInv, [Next]_vars
  PROVE  TableInv'
<1>1. CASE UNCHANGED vars
  <2>1. UNCHANGED <<state, isThread, table, main_thread, pages, op>>
    BY <1>1 DEF vars, procVars, groupVars, memVars
  <2>2. \A q \in Procs : Used(q)' <=> Used(q)
    BY <2>1 DEF Used
  <2> QED
    BY <2>1, <2>2, TFrame
<1>2. CASE Next
  <2>1. PICK p \in Procs :
           \/ ForkAlloc(p) \/ ForkParent(p) \/ ForkDone(p) \/ paull04_clone(p) \/ CloneFails(p)
           \/ ExitStart(p) \/ ExitEnd(p) \/ WaitReap(p) \/ JoinReap(p)
           \/ WaitSleep(p) \/ JoinSleep(p) \/ WaitReturn(p) \/ JoinReturn(p)
           \/ JoinBadPointer(p) \/ GrowprocFails(p)
           \/ (\E k \in 0 .. MaxPid : KillFind(p, k)) \/ KillRead(p) \/ KillMark(p)
           \/ (\E n \in 1 .. MaxSize : growproc(p, n))
           \/ ExecStart(p) \/ ExecNoFile(p) \/ ExecTable(p) \/ ExecBad(p) \/ ExecLoaded(p)
           \/ ExecCommit(p) \/ ExecCleanMain(p) \/ ExecCleanThread(p)
           \/ FsBegin(p) \/ FsEnd(p)
    BY <1>2, Steps
  <2>2. CASE ForkAlloc(p) \/ paull04_clone(p)
    BY <2>2, TForkAlloc, TClone
  <2>3. CASE ExitStart(p) \/ JoinReap(p) \/ WaitReap(p) \/ ExecCleanMain(p) \/ ExecCleanThread(p)
    BY <2>3, TFrees
  <2>4. CASE ForkParent(p) \/ ForkDone(p) \/ ExitEnd(p) \/ WaitSleep(p) \/ JoinSleep(p) \/ KillMark(p)
    BY <2>4, CalmSlots, TCalm
  <2>5. CASE \/ WaitReturn(p) \/ JoinReturn(p) \/ ExecStart(p) \/ ExecNoFile(p) \/ FsBegin(p) \/ FsEnd(p)
             \/ (\E k \in 0 .. MaxPid : KillFind(p, k)) \/ KillRead(p)
    BY <2>5, CalmCalls, CalmStart, TCalm
  <2>6. CASE JoinBadPointer(p) \/ GrowprocFails(p) \/ CloneFails(p) \/ ExecLoaded(p)
    BY <2>6, CalmSame, CalmLoaded, TCalm
  <2>7. CASE (\E n \in 1 .. MaxSize : growproc(p, n)) \/ ExecTable(p) \/ ExecBad(p) \/ ExecCommit(p)
    BY <2>7, TGrowproc, TExecTable, TExecBad, TExecCommit
  <2> QED
    BY <2>1, <2>2, <2>3, <2>4, <2>5, <2>6, <2>7
<1> QED
  BY <1>1, <1>2

LEMMA InitTableInv ==
  ASSUME Init
  PROVE  TableInv
<1>1. \A q \in Procs : op[q].tbl = None /\ ~isThread[q] /\ (Used(q) => q = initproc /\ table[q] = 1)
  BY AtFields DEF Init, Used
<1>2. 1 \in Tables /\ pages[1] # 0
  BY NPROCAssumption DEF Init, Tables
<1>3. \A q \in Procs : \A t \in Tables \cup {None} : Owns(q, t) => t = 1 /\ q = initproc
  BY <1>1 DEF Owns
<1> QED
  BY <1>1, <1>2, <1>3 DEF TableInv

-----------------------------------------------------------------------------
(* Trapframes.                                                             *)

\* TrapInv, part by part.
LEMMA TrapParts ==
  TrapInv <=>
    ("threadexec" \notin load.calls =>
       /\ \A p \in Procs : Used(p) /\ ~isThread[p] => tf[p] = 0
       /\ \A p \in Procs : op[p].pc \in {"exec", "load", "loaded", "commit"} => ~isThread[p]
       /\ \A p \in Procs : op[p].pc \in {"load", "loaded"} => 0 \in maps[op[p].tbl]
       /\ panicked = "none" =>
            /\ \A p \in Procs : Used(p) => tf[p] \in maps[table[p]]
            /\ \A p, q \in Procs : Used(p) /\ Used(q) /\ p # q /\ table[q] = table[p] => tf[q] # tf[p])
<1>1. "threadexec" \notin load.calls =>
        (TrapframesApart <=>
           (panicked = "none" =>
              /\ \A p \in Procs : Used(p) => tf[p] \in maps[table[p]]
              /\ \A p, q \in Procs : Used(p) /\ Used(q) /\ p # q /\ table[q] = table[p] => tf[q] # tf[p]))
  BY DEF TrapframesApart
<1> QED
  BY <1>1 DEF TrapInv

LEMMA TrapNext ==
  ASSUME \A p \in Procs : (Used(p) /\ ~isThread[p] => tf[p] = 0)',
         \A p \in Procs : (op[p].pc \in {"exec", "load", "loaded", "commit"} => ~isThread[p])',
         \A p \in Procs : (op[p].pc \in {"load", "loaded"} => 0 \in maps[op[p].tbl])',
         panicked' = "none" =>
            /\ \A p \in Procs : (Used(p) => tf[p] \in maps[table[p]])'
            /\ \A p, q \in Procs : (Used(p) /\ Used(q) /\ p # q /\ table[q] = table[p] => tf[q] # tf[p])'
  PROVE  TrapInv'
<1>1. TrapframesApart'
  BY DEF TrapframesApart
<1> QED
  BY <1>1 DEF TrapInv

LEMMA TrapCalm ==
  ASSUME GInv, GInv', TrapInv, NEW p \in Procs, Calm(p),
         "threadexec" \notin load.calls =>
           maps' = maps /\ (op'[p].pc \in {"exec", "load", "loaded", "commit"} => ~isThread[p])
  PROVE  TrapInv'
<1> SUFFICES ASSUME "threadexec" \notin load'.calls PROVE TrapInv'
  BY DEF TrapInv
<1>0. /\ load' = load /\ panicked = "none" /\ table' = table /\ tf' = tf
      /\ \A q \in Procs : /\ Used(q)' <=> Used(q)
                          /\ isThread'[q] = isThread[q]
                          /\ q # p => op'[q] = op[q]
      /\ op'[p].tbl = op[p].tbl
      /\ op[p].tbl # None => op[p].pc # "commit"
  BY DEF Calm
<1>1. /\ \A q \in Procs : Used(q) /\ ~isThread[q] => tf[q] = 0
      /\ \A q \in Procs : op[q].pc \in {"exec", "load", "loaded", "commit"} => ~isThread[q]
      /\ \A q \in Procs : op[q].pc \in {"load", "loaded"} => 0 \in maps[op[q].tbl]
      /\ \A q \in Procs : Used(q) => tf[q] \in maps[table[q]]
      /\ \A q, r \in Procs : Used(q) /\ Used(r) /\ q # r /\ table[r] = table[q] => tf[r] # tf[q]
  BY <1>0, TrapParts
<1>2. Locals(p) /\ Locals(p)' /\ maps' = maps /\ (op'[p].pc \in {"exec", "load", "loaded", "commit"} => ~isThread[p])
  BY <1>0 DEF GInv
<1>3. \A q \in Procs : (Used(q) /\ ~isThread[q] => tf[q] = 0)'
  BY <1>0, <1>1
<1>4. \A q \in Procs : (op[q].pc \in {"exec", "load", "loaded", "commit"} => ~isThread[q])'
  BY <1>0, <1>1, <1>2
<1>5. ASSUME NEW q \in Procs PROVE (op[q].pc \in {"load", "loaded"} => 0 \in maps[op[q].tbl])'
  <2>1. CASE q = p
    BY <1>0, <1>1, <1>2, <2>1 DEF Locals
  <2>2. CASE q # p
    BY <1>0, <1>1, <1>2, <2>2
  <2> QED
    BY <2>1, <2>2
<1>6. \A q \in Procs : (Used(q) => tf[q] \in maps[table[q]])'
  BY <1>0, <1>1, <1>2
<1>7. \A q, r \in Procs : (Used(q) /\ Used(r) /\ q # r /\ table[r] = table[q] => tf[r] # tf[q])'
  BY <1>0, <1>1
<1> QED
  BY <1>3, <1>4, <1>5, <1>6, <1>7, TrapNext

LEMMA TrapGrowproc ==
  ASSUME TrapInv, NEW p \in Procs, NEW n, growproc(p, n)
  PROVE  TrapInv'
<1>1. UNCHANGED <<load, state, isThread, table, tf, maps, op, panicked>>
  BY DEF growproc, procVars, groupVars, sysVars
<1> QED
  BY <1>1 DEF TrapInv, TrapframesApart, Used

LEMMA TrapForkAlloc ==
  ASSUME GInv, TableInv, TrapInv, NEW p \in Procs, ForkAlloc(p)
  PROVE  TrapInv'
<1> SUFFICES ASSUME "threadexec" \notin load'.calls PROVE TrapInv'
  BY DEF TrapInv
<1>1. PICK np \in Procs, nt \in Tables :
           /\ np # p /\ panicked = "none" /\ op[p].pc = "user"
           /\ state[np] = "UNUSED" /\ ~isThread[np] /\ op[np] = User /\ pages[nt] = 0
           /\ state'[np] = "USED" /\ table'[np] = nt /\ tf'[np] = 0
           /\ \A q \in Procs : q # np => state'[q] = state[q] /\ table'[q] = table[q] /\ tf'[q] = tf[q]
           /\ maps'[nt] = {0} /\ \A t \in Tables : t # nt => maps'[t] = maps[t]
           /\ op'[p] = At("fork", np) /\ \A q \in Procs : q # p => op'[q] = op[q]
           /\ isThread' = isThread /\ load' = load
  BY ForkEffect DEF groupVars
<1>2. /\ \A q \in Procs : Used(q) /\ ~isThread[q] => tf[q] = 0
      /\ \A q \in Procs : op[q].pc \in {"exec", "load", "loaded", "commit"} => ~isThread[q]
      /\ \A q \in Procs : op[q].pc \in {"load", "loaded"} => 0 \in maps[op[q].tbl]
      /\ \A q \in Procs : Used(q) => tf[q] \in maps[table[q]]
      /\ \A q, r \in Procs : Used(q) /\ Used(r) /\ q # r /\ table[r] = table[q] => tf[r] # tf[q]
  BY <1>1, TrapParts
<1>3. op'[p].pc = "fork"
  BY <1>1, AtFields
<1>4. \A q \in Procs : Used(q) => table[q] \in Tables /\ table[q] # nt
  BY <1>1, Tenant
<1>5. \A q \in Procs : op[q].pc \in {"load", "loaded"} => op[q].tbl \in Tables /\ op[q].tbl # nt
  <2>1. \A q \in Procs : Locals(q)
    BY DEF GInv
  <2> QED
    BY <1>1, <2>1, ExecTables DEF Locals
<1>6. ASSUME NEW q \in Procs PROVE (Used(q) /\ ~isThread[q] => tf[q] = 0)'
  BY <1>1, <1>2 DEF Used
<1>7. ASSUME NEW q \in Procs PROVE (op[q].pc \in {"exec", "load", "loaded", "commit"} => ~isThread[q])'
  BY <1>1, <1>2, <1>3
<1>8. ASSUME NEW q \in Procs PROVE (op[q].pc \in {"load", "loaded"} => 0 \in maps[op[q].tbl])'
  BY <1>1, <1>2, <1>3, <1>5
<1>9. ASSUME NEW q \in Procs, Used(q)' PROVE tf'[q] \in maps'[table'[q]]
  <2>1. CASE q = np
    BY <1>1, <2>1
  <2>2. CASE q # np
    BY <1>1, <1>2, <1>4, <1>9, <2>2 DEF Used
  <2> QED
    BY <2>1, <2>2
<1>10. ASSUME NEW q \in Procs, NEW r \in Procs, Used(q)', Used(r)', q # r, table'[r] = table'[q]
       PROVE  tf'[r] # tf'[q]
  <2>1. q # np /\ r # np /\ Used(q) /\ Used(r)
    BY <1>1, <1>4, <1>10 DEF Used
  <2> QED
    BY <1>1, <1>2, <1>10, <2>1
<1> QED
  BY <1>6, <1>7, <1>8, <1>9, <1>10, TrapNext

LEMMA TrapClone ==
  ASSUME GInv, TableInv, TrapInv, NEW p \in Procs, paull04_clone(p)
  PROVE  TrapInv'
<1> SUFFICES ASSUME "threadexec" \notin load'.calls PROVE TrapInv'
  BY DEF TrapInv
<1>1. PICK np, m \in Procs :
           /\ np # p /\ panicked = "none" /\ state[p] = "RUNNABLE"
           /\ state[np] = "UNUSED" /\ ~isThread[np] /\ op[np] = User /\ table[p] \in Tables
           /\ table'[np] = table[p] /\ tf'[np] = cnt[m] + 1 /\ isThread'[np]
           /\ \A q \in Procs : q # np => /\ state'[q] = state[q] /\ table'[q] = table[q]
                                         /\ tf'[q] = tf[q] /\ isThread'[q] = isThread[q]
           /\ maps'[table[p]] = maps[table[p]] \cup {cnt[m] + 1}
           /\ \A t \in Tables : t # table[p] => maps'[t] = maps[t]
           /\ panicked' = IF cnt[m] + 1 \in maps[table[p]] THEN "remap" ELSE "none"
           /\ load' = load /\ op' = op
  BY CloneEffect
<1>2. /\ \A q \in Procs : Used(q) /\ ~isThread[q] => tf[q] = 0
      /\ \A q \in Procs : op[q].pc \in {"exec", "load", "loaded", "commit"} => ~isThread[q]
      /\ \A q \in Procs : op[q].pc \in {"load", "loaded"} => 0 \in maps[op[q].tbl]
      /\ \A q \in Procs : Used(q) => tf[q] \in maps[table[q]]
      /\ \A q, r \in Procs : Used(q) /\ Used(r) /\ q # r /\ table[r] = table[q] => tf[r] # tf[q]
  BY <1>1, TrapParts
<1>3. \A t \in Tables : maps[t] \subseteq maps'[t]
  BY <1>1
<1>4. op[np].pc = "user"
  BY <1>1, AtFields
<1>5. ASSUME NEW q \in Procs PROVE (Used(q) /\ ~isThread[q] => tf[q] = 0)'
  BY <1>1, <1>2 DEF Used
<1>6. ASSUME NEW q \in Procs PROVE (op[q].pc \in {"exec", "load", "loaded", "commit"} => ~isThread[q])'
  BY <1>1, <1>2, <1>4
<1>7. ASSUME NEW q \in Procs PROVE (op[q].pc \in {"load", "loaded"} => 0 \in maps[op[q].tbl])'
  <2>1. op[q].pc \in {"load", "loaded"} => op[q].tbl \in Tables
    <3>1. Locals(q)
      BY DEF GInv
    <3> QED
      BY <3>1, ExecTables DEF Locals
  <2> QED
    BY <1>1, <1>2, <1>3, <2>1
<1>8. ASSUME NEW q \in Procs, Used(q)' PROVE tf'[q] \in maps'[table'[q]]
  <2>1. CASE q = np
    BY <1>1, <2>1
  <2>2. CASE q # np
    <3>1. Used(q)
      BY <1>1, <1>8, <2>2 DEF Used
    <3>2. table[q] \in Tables
      BY <3>1, Tenant
    <3> QED
      BY <1>1, <1>2, <1>3, <2>2, <3>1, <3>2
  <2> QED
    BY <2>1, <2>2
<1>9. ASSUME NEW q \in Procs, NEW r \in Procs, Used(q)', Used(r)', q # r, table'[r] = table'[q], panicked' = "none"
      PROVE  tf'[r] # tf'[q]
  <2>1. cnt[m] + 1 \notin maps[table[p]]
    BY <1>1, <1>9
  <2>2. CASE q = np
    BY <1>1, <1>2, <1>9, <2>1, <2>2 DEF Used
  <2>3. CASE r = np
    BY <1>1, <1>2, <1>9, <2>1, <2>3 DEF Used
  <2>4. CASE q # np /\ r # np
    BY <1>1, <1>2, <1>9, <2>4 DEF Used
  <2> QED
    BY <2>2, <2>3, <2>4
<1> QED
  BY <1>5, <1>6, <1>7, <1>8, <1>9, TrapNext

LEMMA TrapExecTable ==
  ASSUME GInv, TableInv, TrapInv, NEW p \in Procs, ExecTable(p)
  PROVE  TrapInv'
<1> SUFFICES ASSUME "threadexec" \notin load'.calls PROVE TrapInv'
  BY DEF TrapInv
<1>1. PICK nt \in Tables :
           /\ state[p] = "RUNNABLE" /\ panicked = "none" /\ op[p].pc = "exec" /\ pages[nt] = 0
           /\ maps'[nt] = {0} /\ \A t \in Tables : t # nt => maps'[t] = maps[t]
           /\ tf'[p] = 0 /\ \A q \in Procs : q # p => tf'[q] = tf[q]
           /\ op'[p].pc = "load" /\ op'[p].tbl = nt
           /\ \A q \in Procs : q # p => op'[q] = op[q]
           /\ UNCHANGED <<load, state, isThread, table>>
  BY TableEffect DEF procVars, groupVars
<1>2. /\ \A q \in Procs : Used(q) /\ ~isThread[q] => tf[q] = 0
      /\ \A q \in Procs : op[q].pc \in {"exec", "load", "loaded", "commit"} => ~isThread[q]
      /\ \A q \in Procs : op[q].pc \in {"load", "loaded"} => 0 \in maps[op[q].tbl]
      /\ \A q \in Procs : Used(q) => tf[q] \in maps[table[q]]
      /\ \A q, r \in Procs : Used(q) /\ Used(r) /\ q # r /\ table[r] = table[q] => tf[r] # tf[q]
  BY <1>1, TrapParts
<1>3. \A q \in Procs : Used(q) => table[q] \in Tables /\ table[q] # nt
  BY <1>1, Tenant
<1>4. \A q \in Procs : op[q].pc \in {"load", "loaded"} => op[q].tbl \in Tables /\ op[q].tbl # nt
  <2>1. \A q \in Procs : Locals(q)
    BY DEF GInv
  <2> QED
    BY <1>1, <2>1, ExecTables DEF Locals
<1>5. \A q \in Procs : Used(q) => tf'[q] = tf[q]
  BY <1>1, <1>2
<1>6. ASSUME NEW q \in Procs PROVE (Used(q) /\ ~isThread[q] => tf[q] = 0)'
  BY <1>1, <1>2 DEF Used
<1>7. ASSUME NEW q \in Procs PROVE (op[q].pc \in {"exec", "load", "loaded", "commit"} => ~isThread[q])'
  BY <1>1, <1>2
<1>8. ASSUME NEW q \in Procs PROVE (op[q].pc \in {"load", "loaded"} => 0 \in maps[op[q].tbl])'
  BY <1>1, <1>2, <1>4
<1>9. ASSUME NEW q \in Procs, Used(q)' PROVE tf'[q] \in maps'[table'[q]]
  BY <1>1, <1>2, <1>3, <1>5, <1>9 DEF Used
<1>10. ASSUME NEW q \in Procs, NEW r \in Procs, Used(q)', Used(r)', q # r, table'[r] = table'[q]
       PROVE  tf'[r] # tf'[q]
  BY <1>1, <1>2, <1>5, <1>10 DEF Used
<1> QED
  BY <1>6, <1>7, <1>8, <1>9, <1>10, TrapNext

LEMMA TrapExecBad ==
  ASSUME GInv, TableInv, TrapInv, NEW p \in Procs, ExecBad(p)
  PROVE  TrapInv'
<1> SUFFICES ASSUME "threadexec" \notin load'.calls PROVE TrapInv'
  BY DEF TrapInv
<1>1. /\ panicked = "none" /\ op[p].pc = "load" /\ op[p].arg = None
      /\ op[p].tbl \in Tables
      /\ \A t \in Tables : t # op[p].tbl => maps'[t] = maps[t]
      /\ op'[p] = User /\ \A q \in Procs : q # p => op'[q] = op[q]
      /\ UNCHANGED <<load, state, isThread, table, tf>>
  BY BadEffect DEF procVars, groupVars
<1>2. /\ \A q \in Procs : Used(q) /\ ~isThread[q] => tf[q] = 0
      /\ \A q \in Procs : op[q].pc \in {"exec", "load", "loaded", "commit"} => ~isThread[q]
      /\ \A q \in Procs : op[q].pc \in {"load", "loaded"} => 0 \in maps[op[q].tbl]
      /\ \A q \in Procs : Used(q) => tf[q] \in maps[table[q]]
      /\ \A q, r \in Procs : Used(q) /\ Used(r) /\ q # r /\ table[r] = table[q] => tf[r] # tf[q]
  BY <1>1, TrapParts
<1>3. op'[p].pc = "user"
  BY <1>1, AtFields
<1>4. \A q \in Procs : Used(q) => table[q] \in Tables /\ table[q] # op[p].tbl
  BY <1>1, Tenant, ExecTables
<1>5. \A q \in Procs : op[q].pc \in {"load", "loaded"} /\ q # p => op[q].tbl \in Tables /\ op[q].tbl # op[p].tbl
  <2>1. \A q \in Procs : Locals(q)
    BY DEF GInv
  <2>2. \A q \in Procs : op[q].pc \in {"load", "loaded"} => op[q].arg = None /\ op[q].tbl \in Tables
    BY <2>1, ExecTables DEF Locals
  <2> QED
    BY <1>1, <2>2, ExecTables
<1>6. ASSUME NEW q \in Procs PROVE (Used(q) /\ ~isThread[q] => tf[q] = 0)'
  BY <1>1, <1>2 DEF Used
<1>7. ASSUME NEW q \in Procs PROVE (op[q].pc \in {"exec", "load", "loaded", "commit"} => ~isThread[q])'
  BY <1>1, <1>2, <1>3
<1>8. ASSUME NEW q \in Procs PROVE (op[q].pc \in {"load", "loaded"} => 0 \in maps[op[q].tbl])'
  BY <1>1, <1>2, <1>3, <1>5
<1>9. ASSUME NEW q \in Procs, Used(q)' PROVE tf'[q] \in maps'[table'[q]]
  BY <1>1, <1>2, <1>4, <1>9 DEF Used
<1>10. ASSUME NEW q \in Procs, NEW r \in Procs, Used(q)', Used(r)', q # r, table'[r] = table'[q]
       PROVE  tf'[r] # tf'[q]
  BY <1>1, <1>2, <1>10 DEF Used
<1> QED
  BY <1>6, <1>7, <1>8, <1>9, <1>10, TrapNext

LEMMA TrapExecCommit ==
  ASSUME GInv, TableInv, TrapInv, NEW p \in Procs, ExecCommit(p)
  PROVE  TrapInv'
<1> SUFFICES ASSUME "threadexec" \notin load'.calls PROVE TrapInv'
  BY DEF TrapInv
<1>1. /\ state[p] = "RUNNABLE" /\ panicked = "none" /\ op[p].pc = "loaded" /\ op[p].arg = None
      /\ op[p].tbl \in Tables /\ table'[p] = op[p].tbl /\ ~isThread'[p]
      /\ \A q \in Procs : q # p => table'[q] = table[q] /\ isThread'[q] = isThread[q]
      /\ op'[p].pc = "commit"
      /\ \A q \in Procs : q # p => op'[q] = op[q]
      /\ UNCHANGED <<load, state, tf, maps>>
  BY CommitEffect DEF procVars
<1>2. /\ \A q \in Procs : Used(q) /\ ~isThread[q] => tf[q] = 0
      /\ \A q \in Procs : op[q].pc \in {"exec", "load", "loaded", "commit"} => ~isThread[q]
      /\ \A q \in Procs : op[q].pc \in {"load", "loaded"} => 0 \in maps[op[q].tbl]
      /\ \A q \in Procs : Used(q) => tf[q] \in maps[table[q]]
      /\ \A q, r \in Procs : Used(q) /\ Used(r) /\ q # r /\ table[r] = table[q] => tf[r] # tf[q]
  BY <1>1, TrapParts
<1>3. tf[p] = 0 /\ 0 \in maps[op[p].tbl]
  BY <1>1, <1>2 DEF Used
<1>4. \A q \in Procs : Used(q) => table[q] # op[p].tbl
  BY <1>1, ExecTables
<1>5. ASSUME NEW q \in Procs PROVE (Used(q) /\ ~isThread[q] => tf[q] = 0)'
  BY <1>1, <1>2, <1>3 DEF Used
<1>6. ASSUME NEW q \in Procs PROVE (op[q].pc \in {"exec", "load", "loaded", "commit"} => ~isThread[q])'
  BY <1>1, <1>2
<1>7. ASSUME NEW q \in Procs PROVE (op[q].pc \in {"load", "loaded"} => 0 \in maps[op[q].tbl])'
  BY <1>1, <1>2
<1>8. ASSUME NEW q \in Procs, Used(q)' PROVE tf'[q] \in maps'[table'[q]]
  BY <1>1, <1>2, <1>3, <1>8 DEF Used
<1>9. ASSUME NEW q \in Procs, NEW r \in Procs, Used(q)', Used(r)', q # r, table'[r] = table'[q]
      PROVE  tf'[r] # tf'[q]
  BY <1>1, <1>2, <1>4, <1>9 DEF Used
<1> QED
  BY <1>5, <1>6, <1>7, <1>8, <1>9, TrapNext

\* Slots are freed: only their trapframes are unmapped, or all of a table that
\* nobody keeps.
LEMMA TrapFree ==
  ASSUME GInv, TableInv, TrapInv, NEW p \in Procs, NEW S, NEW c, Frees(p, S, c), \A q \in S : Used(q),
         \A t \in Tables : \A x \in maps[t] : x \notin maps'[t] =>
           \/ \E s \in S : table[s] = t /\ tf[s] = x
           \/ \A q \in Procs : q \notin S =>
                (Used(q) => table[q] # t) /\ (q # p /\ op[q].pc \in {"load", "loaded"} => op[q].tbl # t)
  PROVE  TrapInv'
<1> SUFFICES ASSUME "threadexec" \notin load'.calls PROVE TrapInv'
  BY DEF TrapInv
<1>1. /\ panicked = "none" /\ S \in SUBSET Procs /\ p \notin S /\ load' = load
      /\ \A q \in S : state'[q] = "UNUSED" /\ op'[q].pc = "user"
      /\ \A q \in Procs : q \notin S =>
           state'[q] = state[q] /\ isThread'[q] = isThread[q] /\ tf'[q] = tf[q] /\ table'[q] = table[q]
      /\ op'[p].pc = c
      /\ \A q \in Procs : q # p /\ q \notin S => op'[q] = op[q]
  BY FreeEffect
<1>c. c \in {"user", "exit"}
  BY DEF Frees
<1>2. /\ \A q \in Procs : Used(q) /\ ~isThread[q] => tf[q] = 0
      /\ \A q \in Procs : op[q].pc \in {"exec", "load", "loaded", "commit"} => ~isThread[q]
      /\ \A q \in Procs : op[q].pc \in {"load", "loaded"} => 0 \in maps[op[q].tbl]
      /\ \A q \in Procs : Used(q) => tf[q] \in maps[table[q]]
      /\ \A q, r \in Procs : Used(q) /\ Used(r) /\ q # r /\ table[r] = table[q] => tf[r] # tf[q]
  BY <1>1, TrapParts
<1>3. ASSUME NEW q \in Procs PROVE (Used(q) /\ ~isThread[q] => tf[q] = 0)'
  BY <1>1, <1>2 DEF Used
<1>4. ASSUME NEW q \in Procs PROVE (op[q].pc \in {"exec", "load", "loaded", "commit"} => ~isThread[q])'
  BY <1>1, <1>2, <1>c
<1>5. ASSUME NEW q \in Procs, op'[q].pc \in {"load", "loaded"} PROVE 0 \in maps'[op'[q].tbl]
  <2>1. q # p /\ q \notin S /\ op'[q] = op[q]
    BY <1>1, <1>5, <1>c
  <2>2. Locals(q)
    BY DEF GInv
  <2>3. /\ op[q].tbl \in Tables /\ op[q].pc # "commit"
        /\ \A s \in Procs : Used(s) => table[s] # op[q].tbl
    BY <1>5, <2>1, <2>2, ExecTables DEF Locals
  <2>4. 0 \in maps[op[q].tbl]
    BY <1>2, <1>5, <2>1
  <2> QED
    BY <1>1, <1>5, <2>1, <2>3, <2>4
<1>6. ASSUME NEW q \in Procs, Used(q)' PROVE tf'[q] \in maps'[table'[q]]
  <2>1. q \notin S /\ Used(q)
    BY <1>1, <1>6 DEF Used
  <2>2. table[q] \in Tables /\ tf[q] \in maps[table[q]]
    BY <1>2, <2>1, Tenant
  <2>3. \A s \in S : table[s] = table[q] => tf[s] # tf[q]
    BY <1>1, <1>2, <2>1
  <2> QED
    BY <1>1, <2>1, <2>2, <2>3
<1>7. ASSUME NEW q \in Procs, NEW r \in Procs, Used(q)', Used(r)', q # r, table'[r] = table'[q]
      PROVE  tf'[r] # tf'[q]
  <2>1. q \notin S /\ Used(q) /\ r \notin S /\ Used(r)
    BY <1>1, <1>7 DEF Used
  <2> QED
    BY <1>1, <1>2, <1>7, <2>1
<1> QED
  BY <1>3, <1>4, <1>5, <1>6, <1>7, TrapNext

\* Nobody else uses the page table of an exited process.
LEMMA ZombieTable ==
  ASSUME GInv, TableInv, NEW z \in Procs, ~isThread[z], state[z] = "ZOMBIE",
         NEW q \in Procs, q # z, Used(q)
  PROVE  table[q] # table[z]
<1>0. /\ Member(q) /\ \A p, r \in Procs : \A t \in Tables \cup {None} : Owns(p, t) /\ Owns(r, t) => p = r
  BY DEF GInv, TableInv
<1>1. Used(z) /\ Owns(z, table[z])
  BY DEF Used, Owns
<1>2. CASE isThread[q]
  <2>1. main_thread[q] # z
    BY <1>0, <1>2 DEF Member, Alive
  <2> QED
    BY <1>0, <1>1, <1>2, <2>1, Tenant
<1>3. CASE ~isThread[q]
  BY <1>0, <1>1, <1>3, Tenant
<1> QED
  BY <1>2, <1>3

LEMMA TrapFrees ==
  ASSUME GInv, TableInv, TrapInv, NEW p \in Procs,
         ExitStart(p) \/ JoinReap(p) \/ WaitReap(p) \/ ExecCleanMain(p) \/ ExecCleanThread(p)
  PROVE  TrapInv'
<1>0. /\ maps \in [Tables -> SUBSET (0 .. MaxPid)]
      /\ \A q \in Procs : Slot(q) /\ Member(q)
      /\ \A q, r \in Procs : \A t \in Tables \cup {None} : Owns(q, t) /\ Owns(r, t) => q = r
  BY DEF GInv, TableInv, Types
<1>1. \A q \in Procs : isThread[q] => Used(q)
  BY <1>0 DEF Slot, Used
<1>2. ASSUME NEW S \in SUBSET Procs, NEW t \in Tables, NEW x \in maps[t], x \notin Unmapped(S)[t]
      PROVE  \E s \in S : table[s] = t /\ tf[s] = x
  BY <1>2 DEF Unmapped
<1>3. CASE ExitStart(p)
  <2>1. PICK S \in SUBSET Procs : Frees(p, S, "exit") /\ maps' = Unmapped(S) /\ \A q \in S : isThread[q]
    BY <1>3, ExitFrees
  <2> QED
    BY <1>1, <1>2, <2>1, TrapFree
<1>4. CASE JoinReap(p)
  <2>1. PICK z \in Procs : Frees(p, {z}, "user") /\ maps' = Unmapped({z}) /\ isThread[z]
    BY <1>4, JoinFrees
  <2>2. \A t \in Tables : \A x \in maps[t] : x \notin maps'[t] => \E s \in {z} : table[s] = t /\ tf[s] = x
    BY <1>2, <2>1
  <2> QED
    BY <1>1, <2>1, <2>2, TrapFree
<1>5. CASE WaitReap(p)
  <2>1. PICK z \in Procs : /\ Frees(p, {z}, "user") /\ ~isThread[z] /\ state[z] = "ZOMBIE" /\ table[z] \in Tables
                           /\ maps' = [maps EXCEPT ![table[z]] = {}]
    BY <1>5, WaitFrees
  <2>2. Used(z) /\ Owns(z, table[z])
    BY <2>1 DEF Used, Owns
  <2>3. \A q \in Procs : q # z /\ Used(q) => table[q] # table[z]
    BY <2>1, ZombieTable
  <2>4. \A q \in Procs : op[q].pc \in {"load", "loaded"} => op[q].tbl # table[z]
    <3>1. \A q \in Procs : Locals(q)
      BY DEF GInv
    <3> QED
      BY <2>1, <2>2, <3>1, ExecTables DEF Locals
  <2>5. \A t \in Tables : \A x \in maps[t] : x \notin maps'[t] => t = table[z]
    BY <1>0, <2>1
  <2> QED
    BY <2>1, <2>2, <2>3, <2>4, <2>5, TrapFree
<1>6. CASE ExecCleanMain(p) \/ ExecCleanThread(p)
  <2>1. PICK m \in Procs : \E S \in SUBSET Procs :
           /\ m = op[p].arg /\ op[p].pc = "commit" /\ op[p].tbl \in Tables
           /\ Frees(p, S, "user") /\ \A q \in Procs : q \in S <=> isThread[q] /\ main_thread[q] = m
           /\ (m = p /\ maps' = [Unmapped(S) EXCEPT ![op[p].tbl] = {}]) \/ (m # p /\ maps' = Unmapped(S))
    BY <1>6, ExecFrees
  <2>2. PICK S \in SUBSET Procs :
           /\ Frees(p, S, "user") /\ \A q \in Procs : q \in S <=> isThread[q] /\ main_thread[q] = m
           /\ (m = p /\ maps' = [Unmapped(S) EXCEPT ![op[p].tbl] = {}]) \/ (m # p /\ maps' = Unmapped(S))
    BY <2>1
  <2>3. CASE m # p
    BY <1>1, <1>2, <2>2, <2>3, TrapFree
  <2>4. CASE m = p
    <3>1. \A q \in Procs : q \notin S /\ Used(q) => table[q] # op[p].tbl
      BY <2>1, <2>2, <2>4, ExecTables
    <3>2. \A q \in Procs : op[q].pc \in {"load", "loaded"} => op[q].tbl # op[p].tbl
      <4>1. \A q \in Procs : Locals(q)
        BY DEF GInv
      <4>2. \A q \in Procs : op[q].tbl = op[p].tbl /\ op[q].arg \in {None, q} => q = p
        BY <2>1, <2>4, ExecTables
      <4> QED
        BY <2>1, <4>1, <4>2 DEF Locals
    <3>3. ASSUME NEW t \in Tables, NEW x \in maps[t], x \notin maps'[t]
          PROVE  t = op[p].tbl \/ \E s \in S : table[s] = t /\ tf[s] = x
      <4>1. CASE t # op[p].tbl
        <5>1. maps'[t] = Unmapped(S)[t]
          BY <2>1, <2>2, <2>4, <4>1 DEF Unmapped
        <5> QED
          BY <1>2, <3>3, <5>1
      <4> QED
        BY <4>1
    <3> QED
      BY <1>1, <2>2, <3>1, <3>2, <3>3, TrapFree
  <2> QED
    BY <2>3, <2>4
<1> QED
  BY <1>3, <1>4, <1>5, <1>6

LEMMA NextTrapInv ==
  ASSUME GInv, GInv', TableInv, TrapInv, [Next]_vars
  PROVE  TrapInv'
<1>1. CASE UNCHANGED vars
  BY <1>1 DEF TrapInv, TrapframesApart, Used, vars, procVars, groupVars, memVars, sysVars
<1>2. CASE Next
  <2>1. PICK p \in Procs :
           \/ ForkAlloc(p) \/ ForkParent(p) \/ ForkDone(p) \/ paull04_clone(p) \/ CloneFails(p)
           \/ ExitStart(p) \/ ExitEnd(p) \/ WaitReap(p) \/ JoinReap(p)
           \/ WaitSleep(p) \/ JoinSleep(p) \/ WaitReturn(p) \/ JoinReturn(p)
           \/ JoinBadPointer(p) \/ GrowprocFails(p)
           \/ (\E k \in 0 .. MaxPid : KillFind(p, k)) \/ KillRead(p) \/ KillMark(p)
           \/ (\E n \in 1 .. MaxSize : growproc(p, n))
           \/ ExecStart(p) \/ ExecNoFile(p) \/ ExecTable(p) \/ ExecBad(p) \/ ExecLoaded(p)
           \/ ExecCommit(p) \/ ExecCleanMain(p) \/ ExecCleanThread(p)
           \/ FsBegin(p) \/ FsEnd(p)
    BY <1>2, Steps
  <2>2. CASE ForkAlloc(p) \/ paull04_clone(p)
    BY <2>2, TrapForkAlloc, TrapClone
  <2>3. CASE ExitStart(p) \/ JoinReap(p) \/ WaitReap(p) \/ ExecCleanMain(p) \/ ExecCleanThread(p)
    BY <2>3, TrapFrees
  <2>4. CASE ForkParent(p) \/ ForkDone(p) \/ ExitEnd(p) \/ WaitSleep(p) \/ JoinSleep(p) \/ KillMark(p)
    BY <2>4, CalmSlots, TrapCalm
  <2>5. CASE \/ WaitReturn(p) \/ JoinReturn(p) \/ ExecNoFile(p) \/ FsBegin(p) \/ FsEnd(p)
             \/ (\E k \in 0 .. MaxPid : KillFind(p, k)) \/ KillRead(p)
    <3>1. op'[p].pc \in {"user", "fs", "kill", "mark"} /\ maps' = maps /\ Calm(p)
      BY <2>5, CalmCalls
    <3> QED
      BY <3>1, TrapCalm
  <2>6. CASE ExecStart(p)
    <3>1. "threadexec" \notin load.calls => ~isThread[p]
      BY <2>6 DEF ExecStart, InUser
    <3>2. "threadexec" \notin load.calls => maps' = maps
      BY <2>6, <3>1 DEF ExecStart
    <3> QED
      BY <2>6, <3>1, <3>2, CalmStart, TrapCalm
  <2>7. CASE JoinBadPointer(p) \/ GrowprocFails(p) \/ CloneFails(p)
    BY <2>7, CalmSame, TrapCalm
  <2>8. CASE ExecLoaded(p)
    <3>1. "threadexec" \notin load.calls => ~isThread[p]
      BY <2>8, CalmLoaded, TrapParts
    <3> QED
      BY <2>8, <3>1, CalmLoaded, TrapCalm
  <2>9. CASE (\E n \in 1 .. MaxSize : growproc(p, n)) \/ ExecTable(p) \/ ExecBad(p) \/ ExecCommit(p)
    BY <2>9, TrapGrowproc, TrapExecTable, TrapExecBad, TrapExecCommit
  <2> QED
    BY <2>1, <2>2, <2>3, <2>4, <2>5, <2>6, <2>7, <2>8, <2>9
<1> QED
  BY <1>1, <1>2

LEMMA InitTrapInv ==
  ASSUME Init
  PROVE  TrapInv
<1>1. \A q \in Procs : /\ ~isThread[q] /\ tf[q] = 0 /\ op[q].pc = "user"
                       /\ Used(q) => q = initproc /\ table[q] = 1
  BY AtFields DEF Init, Used
<1>2. maps[1] = {0}
  BY NPROCAssumption DEF Init, Tables
<1> QED
  BY <1>1, <1>2, TrapParts

-----------------------------------------------------------------------------
(* Sizes.                                                                  *)

LEMMA LoadSame ==
  ASSUME GInv, [Next]_vars
  PROVE  load' = load
<1>1. CASE UNCHANGED vars
  BY <1>1 DEF vars
<1>2. CASE Next
  <2>1. PICK p \in Procs :
           \/ ForkAlloc(p) \/ ForkParent(p) \/ ForkDone(p) \/ paull04_clone(p) \/ CloneFails(p)
           \/ ExitStart(p) \/ ExitEnd(p) \/ WaitReap(p) \/ JoinReap(p)
           \/ WaitSleep(p) \/ JoinSleep(p) \/ WaitReturn(p) \/ JoinReturn(p)
           \/ JoinBadPointer(p) \/ GrowprocFails(p)
           \/ (\E k \in 0 .. MaxPid : KillFind(p, k)) \/ KillRead(p) \/ KillMark(p)
           \/ (\E n \in 1 .. MaxSize : growproc(p, n))
           \/ ExecStart(p) \/ ExecNoFile(p) \/ ExecTable(p) \/ ExecBad(p) \/ ExecLoaded(p)
           \/ ExecCommit(p) \/ ExecCleanMain(p) \/ ExecCleanThread(p)
           \/ FsBegin(p) \/ FsEnd(p)
    BY <1>2, Steps
  <2>2. CASE \/ ForkAlloc(p) \/ ForkParent(p) \/ ForkDone(p) \/ paull04_clone(p) \/ CloneFails(p)
             \/ ExitStart(p) \/ ExitEnd(p) \/ WaitReap(p) \/ JoinReap(p)
    BY <2>2 DEF ForkAlloc, ForkParent, ForkDone, paull04_clone, CloneFails, ExitStart, ExitEnd, WaitReap, JoinReap
  <2>3. CASE \/ WaitSleep(p) \/ JoinSleep(p) \/ WaitReturn(p) \/ JoinReturn(p)
             \/ JoinBadPointer(p) \/ GrowprocFails(p)
             \/ (\E k \in 0 .. MaxPid : KillFind(p, k)) \/ KillRead(p) \/ KillMark(p)
             \/ (\E n \in 1 .. MaxSize : growproc(p, n))
    BY <2>3 DEF WaitSleep, JoinSleep, WaitReturn, JoinReturn, JoinBadPointer, GrowprocFails, KillFind,
                KillRead, KillMark, growproc, Sleep, Return
  <2>4. CASE \/ ExecStart(p) \/ ExecNoFile(p) \/ ExecTable(p) \/ ExecBad(p) \/ ExecLoaded(p)
             \/ ExecCommit(p) \/ ExecCleanMain(p) \/ ExecCleanThread(p) \/ FsBegin(p) \/ FsEnd(p)
    BY <2>4 DEF ExecStart, ExecNoFile, ExecTable, ExecBad, ExecLoaded, ExecCommit, ExecCleanMain,
                ExecCleanThread, FsBegin, FsEnd
  <2> QED
    BY <2>1, <2>2, <2>3, <2>4
<1> QED
  BY <1>1, <1>2

LEMMA NextSizeInv ==
  ASSUME GInv, GInv', TableInv, SizeInv, [Next]_vars
  PROVE  SizeInv'
<1> SUFFICES ASSUME load'.calls \cap {"exec", "threadexec"} = {}
             PROVE  SizeInv'
  BY DEF SizeInv
<1>0. /\ load' = load /\ load.calls \cap {"exec", "threadexec"} = {}
      /\ \A q \in Procs : op[q].pc \notin {"exec", "load", "loaded", "commit"}
      /\ \A q \in Procs : Used(q) => sz[q] = pages[table[q]]
  BY LoadSame DEF SizeInv
<1>q. ASSUME \A q \in Procs : op'[q].pc \notin {"exec", "load", "loaded", "commit"},
             \A q \in Procs : (Used(q) => sz[q] = pages[table[q]])'
      PROVE  SizeInv'
  BY <1>q DEF SizeInv
<1>1. CASE UNCHANGED vars
  BY <1>0, <1>1, <1>q DEF Used, vars, procVars, groupVars, memVars
<1>2. CASE Next
  <2>1. PICK p \in Procs :
           \/ ForkAlloc(p) \/ ForkParent(p) \/ ForkDone(p) \/ paull04_clone(p) \/ CloneFails(p)
           \/ ExitStart(p) \/ ExitEnd(p) \/ WaitReap(p) \/ JoinReap(p)
           \/ WaitSleep(p) \/ JoinSleep(p) \/ WaitReturn(p) \/ JoinReturn(p)
           \/ JoinBadPointer(p) \/ GrowprocFails(p)
           \/ (\E k \in 0 .. MaxPid : KillFind(p, k)) \/ KillRead(p) \/ KillMark(p)
           \/ (\E n \in 1 .. MaxSize : growproc(p, n))
           \/ ExecStart(p) \/ ExecNoFile(p) \/ ExecTable(p) \/ ExecBad(p) \/ ExecLoaded(p)
           \/ ExecCommit(p) \/ ExecCleanMain(p) \/ ExecCleanThread(p)
           \/ FsBegin(p) \/ FsEnd(p)
    BY <1>2, Steps
  <2>2. CASE ForkAlloc(p)
    <3>1. PICK np \in Procs, nt \in Tables :
           /\ state[np] = "UNUSED" /\ pages[nt] = 0
           /\ state'[np] = "USED" /\ table'[np] = nt /\ sz'[np] = sz[p]
           /\ \A q \in Procs : q # np => state'[q] = state[q] /\ table'[q] = table[q] /\ sz'[q] = sz[q]
           /\ pages'[nt] = sz[p] /\ \A t \in Tables : t # nt => pages'[t] = pages[t]
           /\ op'[p] = At("fork", np) /\ \A q \in Procs : q # p => op'[q] = op[q]
      BY <2>2, ForkEffect
    <3>2. \A q \in Procs : op'[q].pc \notin {"exec", "load", "loaded", "commit"}
      BY <1>0, <3>1, AtFields
    <3>3. ASSUME NEW q \in Procs, Used(q)' PROVE sz'[q] = pages'[table'[q]]
      <4>1. CASE q = np
        BY <3>1, <4>1
      <4>2. CASE q # np
        <5>1. Used(q)
          BY <3>1, <3>3, <4>2 DEF Used
        <5>2. table[q] \in Tables /\ table[q] # nt
          BY <3>1, <5>1, Tenant
        <5> QED
          BY <1>0, <3>1, <4>2, <5>1, <5>2
      <4> QED
        BY <4>1, <4>2
    <3> QED
      BY <1>q, <3>2, <3>3
  <2>3. CASE paull04_clone(p)
    <3>1. PICK np \in Procs :
           /\ state[p] = "RUNNABLE" /\ np # p /\ table'[np] = table[p] /\ sz'[np] = sz[p]
           /\ \A q \in Procs : q # np => state'[q] = state[q] /\ table'[q] = table[q] /\ sz'[q] = sz[q]
           /\ pages' = pages /\ op' = op
      BY <2>3, CloneEffect
    <3>2. ASSUME NEW q \in Procs, Used(q)' PROVE sz'[q] = pages'[table'[q]]
      BY <1>0, <3>1, <3>2 DEF Used
    <3> QED
      BY <1>0, <1>q, <3>1, <3>2
  <2>4. CASE \E n \in 1 .. MaxSize : growproc(p, n)
    <3>1. PICK n \in 1 .. MaxSize :
           /\ InUser(p, "sbrk") /\ pages' = [pages EXCEPT ![table[main_thread[p]]] = n]
           /\ sz' = [q \in Procs |-> IF main_pid[q] = pid[main_thread[p]] THEN n ELSE sz[q]]
           /\ UNCHANGED <<state, table, op>>
      BY <2>4 DEF growproc, Resized, procVars
    <3>2. Alive(p)
      BY <3>1, InUserRuns
    <3>3. PICK m \in Procs : m = main_thread[p] /\ ~isThread[m] /\ Alive(m) /\ pid[m] # 0
      BY <3>2, MainOf
    <3>4. table[m] \in Tables /\ pages \in [Tables -> 0 .. MaxSize] /\ Owns(m, table[m])
      <4>1. Used(m)
        BY <3>3 DEF Used, Alive
      <4> QED
        BY <3>3, <4>1, Tenant DEF GInv, Types
    <3>5. /\ pages'[table[m]] = n /\ \A t \in Tables : t # table[m] => pages'[t] = pages[t]
          /\ \A q \in Procs : sz'[q] = IF main_pid[q] = pid[m] THEN n ELSE sz[q]
      BY <3>1, <3>3, <3>4
    <3>6. ASSUME NEW q \in Procs, Used(q) PROVE sz'[q] = pages'[table[q]]
      <4>0. Slot(q) /\ Pids /\ Member(q) /\ table[q] \in Tables
        BY <3>6, Tenant DEF GInv
      <4>1. CASE isThread[q]
        <5>1. main_thread[q] = m <=> main_pid[q] = pid[m]
          BY <4>1, Group DEF ThreadsOf
        <5>2. main_thread[q] = m => table[q] = table[m]
          BY <1>0, <4>1 DEF TableInv, Home
        <5>3. main_thread[q] # m => table[q] # table[m]
          <6>1. Owns(main_thread[q], table[q]) /\ main_thread[q] \in Procs
            BY <3>6, <4>1, Tenant
          <6> QED
            BY <3>4, <6>1 DEF TableInv
        <5> QED
          BY <1>0, <3>5, <3>6, <4>0, <5>1, <5>2, <5>3
      <4>2. CASE ~isThread[q]
        <5>1. q = m <=> main_pid[q] = pid[m]
          BY <3>3, <4>0, <4>2 DEF Slot, Pids, Alive
        <5>2. q # m => table[q] # table[m]
          <6>1. Owns(q, table[q])
            BY <3>6, <4>2, Tenant
          <6> QED
            BY <3>4, <6>1 DEF TableInv
        <5> QED
          BY <1>0, <3>5, <3>6, <4>0, <5>1, <5>2
      <4> QED
        BY <4>1, <4>2
    <3>7. \A q \in Procs : (Used(q) => sz[q] = pages[table[q]])'
      BY <3>1, <3>6 DEF Used
    <3> QED
      BY <1>0, <1>q, <3>1, <3>7
  <2>5. CASE ExitStart(p) \/ JoinReap(p) \/ WaitReap(p)
    <3>1. PICK S, c : /\ Frees(p, S, c)
                      /\ \A q \in Procs : q \notin S /\ Used(q) => pages'[table[q]] = pages[table[q]]
      <4>1. CASE ExitStart(p)
        <5>1. PICK S \in SUBSET Procs : Frees(p, S, "exit") /\ pages' = pages
          BY <4>1, ExitFrees
        <5> QED
          BY <5>1
      <4>2. CASE JoinReap(p)
        <5>1. PICK z \in Procs : Frees(p, {z}, "user") /\ pages' = pages
          BY <4>2, JoinFrees
        <5> QED
          BY <5>1
      <4>3. CASE WaitReap(p)
        <5>1. PICK z \in Procs : /\ Frees(p, {z}, "user") /\ ~isThread[z] /\ state[z] = "ZOMBIE" /\ table[z] \in Tables
                                 /\ pages' = [pages EXCEPT ![table[z]] = 0]
          BY <4>3, WaitFrees
        <5>2. \A q \in Procs : q \notin {z} /\ Used(q) => pages'[table[q]] = pages[table[q]]
          <6>1. pages \in [Tables -> 0 .. MaxSize]
            BY DEF GInv, Types
          <6> QED
            BY <5>1, <6>1, ZombieTable, Tenant
        <5> QED
          BY <5>1, <5>2
      <4> QED
        BY <2>5, <4>1, <4>2, <4>3
    <3>2. /\ \A q \in S : state'[q] = "UNUSED" /\ op'[q].pc = "user"
          /\ \A q \in Procs : q \notin S => state'[q] = state[q] /\ table'[q] = table[q] /\ sz'[q] = sz[q]
          /\ op'[p].pc = c
          /\ \A q \in Procs : q # p /\ q \notin S => op'[q] = op[q]
      BY <3>1, FreeEffect
    <3>3. c \in {"user", "exit"}
      BY <3>1 DEF Frees
    <3>4. \A q \in Procs : op'[q].pc \notin {"exec", "load", "loaded", "commit"}
      BY <1>0, <3>2, <3>3
    <3>5. ASSUME NEW q \in Procs, Used(q)' PROVE sz'[q] = pages'[table'[q]]
      BY <1>0, <3>1, <3>2, <3>5 DEF Used
    <3> QED
      BY <1>q, <3>4, <3>5
  <2>6. ASSUME Calm(p), op'[p].pc \notin {"exec", "load", "loaded", "commit"} PROVE SizeInv'
    <3>1. \A q \in Procs : op'[q].pc \notin {"exec", "load", "loaded", "commit"}
      BY <1>0, <2>6 DEF Calm
    <3>2. \A q \in Procs : (Used(q) => sz[q] = pages[table[q]])'
      BY <1>0, <2>6 DEF Calm
    <3> QED
      BY <1>q, <3>1, <3>2
  <2>7. CASE ForkParent(p) \/ ForkDone(p) \/ ExitEnd(p) \/ WaitSleep(p) \/ JoinSleep(p) \/ KillMark(p)
    BY <2>6, <2>7, CalmSlots
  <2>8. CASE \/ WaitReturn(p) \/ JoinReturn(p) \/ ExecNoFile(p) \/ FsBegin(p) \/ FsEnd(p)
             \/ (\E k \in 0 .. MaxPid : KillFind(p, k)) \/ KillRead(p)
    BY <2>6, <2>8, CalmCalls
  <2>9. CASE JoinBadPointer(p) \/ GrowprocFails(p) \/ CloneFails(p)
    BY <2>6, <2>9, CalmSame
  <2>10. CASE ExecStart(p)
    BY <1>0, <2>10 DEF ExecStart, InUser
  <2>11. CASE \/ ExecTable(p) \/ ExecBad(p) \/ ExecLoaded(p)
              \/ ExecCommit(p) \/ ExecCleanMain(p) \/ ExecCleanThread(p)
    BY <1>0, <2>11 DEF ExecTable, ExecBad, ExecLoaded, ExecCommit, ExecCleanMain, ExecCleanThread, Is
  <2> QED
    BY <2>1, <2>2, <2>3, <2>4, <2>5, <2>7, <2>8, <2>9, <2>10, <2>11
<1> QED
  BY <1>1, <1>2

LEMMA InitSizeInv ==
  ASSUME Init
  PROVE  SizeInv
<1>1. \A q \in Procs : op[q].pc = "user" /\ (Used(q) => q = initproc /\ table[q] = 1 /\ sz[q] = 1)
  BY AtFields DEF Init, Used
<1>2. pages[1] = 1
  BY NPROCAssumption DEF Init, Tables
<1> QED
  BY <1>1, <1>2 DEF SizeInv

-----------------------------------------------------------------------------
(* No panic.                                                               *)

\* Freeing threads whose trapframes are mapped and that have no children.
LEMMA FreeingCalm ==
  ASSUME TrapInv, "threadexec" \notin load.calls, panicked = "none",
         \A q \in Procs : parent[q] # None => ~isThread[parent[q]],
         NEW S \in SUBSET Procs, \A q \in S : isThread[q] /\ Used(q)
  PROVE  FreeingPanics(S) = "none"
<1>1. \A q \in S : Children(q) = {}
  BY Constants DEF Children
<1>2. \A q \in S : tf[q] \in maps[table[q]]
  BY TrapParts
<1> QED
  BY <1>1, <1>2 DEF FreeingPanics

LEMMA NextPeaceInv ==
  ASSUME GInv, GInv', TableInv, TrapInv, SizeInv, PeaceInv, [Next]_vars
  PROVE  PeaceInv'
<1> SUFFICES ASSUME load'.calls \subseteq Peaceful
             PROVE  PeaceInv'
  BY DEF PeaceInv
<1>0. /\ load' = load /\ load.calls \subseteq Peaceful /\ panicked = "none"
      /\ \A q \in Procs : op[q].pc \in {"user", "fork", "forked", "exit", "wait", "join"}
      /\ \A q \in Procs : op[q].pc \in {"fork", "forked"} => ~isThread[q]
      /\ \A q \in Procs : parent[q] # None => ~isThread[parent[q]]
      /\ \A m \in Procs : Used(m) /\ ~isThread[m] => \A x \in maps[table[m]] : x <= cnt[m]
      /\ \A m \in Procs : Used(m) /\ ~isThread[m] => \A x \in maps[table[m]] :
           x = 0 \/ \E q \in Procs : isThread[q] /\ main_thread[q] = m /\ tf[q] = x
  BY LoadSame DEF PeaceInv
<1>p. /\ "threadexec" \notin load.calls /\ "exec" \notin load.calls /\ "threadfork" \notin load.calls
      /\ "kill" \notin load.calls /\ "fs" \notin load.calls /\ "badjoin" \notin load.calls
      /\ "sbrkfails" \notin load.calls /\ "clonefails" \notin load.calls
  BY <1>0 DEF Peaceful
<1>g. /\ Types /\ InitLives /\ ParentAlive /\ \A q \in Procs : Slot(q) /\ Member(q) /\ Locals(q)
  BY DEF GInv
<1>q. ASSUME panicked' = "none",
             \A q \in Procs : op'[q].pc \in {"user", "fork", "forked", "exit", "wait", "join"},
             \A q \in Procs : (op[q].pc \in {"fork", "forked"} => ~isThread[q])',
             \A q \in Procs : (parent[q] # None => ~isThread[parent[q]])',
             \A m \in Procs : (Used(m) /\ ~isThread[m] => \A x \in maps[table[m]] : x <= cnt[m])',
             \A m \in Procs : (Used(m) /\ ~isThread[m] => \A x \in maps[table[m]] :
               x = 0 \/ \E q \in Procs : isThread[q] /\ main_thread[q] = m /\ tf[q] = x)'
      PROVE  PeaceInv'
  BY <1>q DEF PeaceInv
<1>h. \A q \in Procs : isThread[q] => table[q] = table[main_thread[q]] /\ Used(q) /\ main_thread[q] \in Procs
  BY <1>0, <1>g DEF TableInv, Home, Slot, Used, Member
<1>1. CASE UNCHANGED vars
  BY <1>0, <1>1 DEF PeaceInv, Used, vars, procVars, groupVars, memVars, sysVars
<1>2. CASE Next
  <2>1. PICK p \in Procs :
           \/ ForkAlloc(p) \/ ForkParent(p) \/ ForkDone(p) \/ paull04_clone(p) \/ CloneFails(p)
           \/ ExitStart(p) \/ ExitEnd(p) \/ WaitReap(p) \/ JoinReap(p)
           \/ WaitSleep(p) \/ JoinSleep(p) \/ WaitReturn(p) \/ JoinReturn(p)
           \/ JoinBadPointer(p) \/ GrowprocFails(p)
           \/ (\E k \in 0 .. MaxPid : KillFind(p, k)) \/ KillRead(p) \/ KillMark(p)
           \/ (\E n \in 1 .. MaxSize : growproc(p, n))
           \/ ExecStart(p) \/ ExecNoFile(p) \/ ExecTable(p) \/ ExecBad(p) \/ ExecLoaded(p)
           \/ ExecCommit(p) \/ ExecCleanMain(p) \/ ExecCleanThread(p)
           \/ FsBegin(p) \/ FsEnd(p)
    BY <1>2, Steps
  <2>2. CASE ForkAlloc(p)
    <3>1. PICK np \in Procs, nt \in Tables :
           /\ np # p /\ InUser(p, IF isThread[p] THEN "threadfork" ELSE "fork")
           /\ state[np] = "UNUSED" /\ ~isThread[np] /\ pages[nt] = 0
           /\ state'[np] = "USED" /\ table'[np] = nt
           /\ \A q \in Procs : q # np => state'[q] = state[q] /\ table'[q] = table[q] /\ tf'[q] = tf[q]
           /\ maps'[nt] = {0} /\ \A t \in Tables : t # nt => maps'[t] = maps[t]
           /\ op'[p] = At("fork", np) /\ \A q \in Procs : q # p => op'[q] = op[q]
           /\ UNCHANGED <<parent, isThread, main_thread, cnt, panicked>>
      BY <2>2, ForkEffect DEF groupVars
    <3>2. ~isThread[p] /\ op'[p].pc = "fork"
      BY <1>p, <3>1, AtFields DEF InUser
    <3>3. \A q \in Procs : op'[q].pc \in {"user", "fork", "forked", "exit", "wait", "join"}
      BY <1>0, <3>1, <3>2
    <3>4. \A q \in Procs : (op[q].pc \in {"fork", "forked"} => ~isThread[q])'
      BY <1>0, <3>1, <3>2
    <3>5. \A q \in Procs : (parent[q] # None => ~isThread[parent[q]])'
      BY <1>0, <3>1
    <3>6. ASSUME NEW m \in Procs, Used(m)', ~isThread'[m], NEW x \in maps'[table'[m]]
          PROVE  x <= cnt'[m] /\ (x = 0 \/ \E q \in Procs : isThread'[q] /\ main_thread'[q] = m /\ tf'[q] = x)
      <4>1. CASE m = np
        <5>1. x = 0 /\ cnt[np] \in Nat
          BY <1>g, <3>1, <3>6, <4>1 DEF Types
        <5> QED
          BY <3>1, <4>1, <5>1
      <4>2. CASE m # np
        <5>1. Used(m) /\ ~isThread[m]
          BY <3>1, <3>6, <4>2 DEF Used
        <5>2. table[m] \in Tables /\ table[m] # nt
          BY <3>1, <5>1, Tenant
        <5>3. x \in maps[table[m]]
          BY <3>1, <3>6, <4>2, <5>2
        <5>4. \A q \in Procs : isThread[q] => q # np
          BY <3>1
        <5> QED
          BY <1>0, <3>1, <5>1, <5>3, <5>4
      <4> QED
        BY <4>1, <4>2
    <3> QED
      BY <1>0, <1>q, <3>1, <3>3, <3>4, <3>5, <3>6
  <2>3. CASE paull04_clone(p)
    <3>1. PICK np, m \in Procs :
           /\ np # p /\ np # m /\ state[p] = "RUNNABLE"
           /\ m = main_thread[p] /\ ~isThread[m] /\ Alive(m) /\ (isThread[p] \/ p = m)
           /\ state[np] = "UNUSED" /\ ~isThread[np] /\ op[np] = User /\ table[p] \in Tables
           /\ tf'[np] = cnt[m] + 1 /\ isThread'[np] /\ main_thread'[np] = m /\ parent'[np] = m
           /\ \A q \in Procs : q # np =>
                /\ state'[q] = state[q] /\ table'[q] = table[q] /\ tf'[q] = tf[q]
                /\ isThread'[q] = isThread[q] /\ main_thread'[q] = main_thread[q] /\ parent'[q] = parent[q]
           /\ cnt'[m] = cnt[m] + 1 /\ \A q \in Procs : q # m => cnt'[q] = cnt[q]
           /\ maps'[table[p]] = maps[table[p]] \cup {cnt[m] + 1}
           /\ \A t \in Tables : t # table[p] => maps'[t] = maps[t]
           /\ panicked' = IF cnt[m] + 1 \in maps[table[p]] THEN "remap" ELSE "none"
           /\ op' = op
      BY <2>3, CloneEffect
    <3>2. table[p] = table[m] /\ Used(m) /\ cnt[m] \in Nat
      BY <1>g, <1>h, <3>1 DEF Used, Alive, Types
    <3>3. panicked' = "none"
      <4>1. cnt[m] + 1 \notin maps[table[m]]
        <5>1. \A x \in maps[table[m]] : x <= cnt[m]
          BY <1>0, <3>1, <3>2
        <5> QED
          BY <3>2, <5>1
      <4> QED
        BY <3>1, <3>2, <4>1
    <3>4. \A q \in Procs : op'[q].pc \in {"user", "fork", "forked", "exit", "wait", "join"}
      BY <1>0, <3>1
    <3>5. \A q \in Procs : (op[q].pc \in {"fork", "forked"} => ~isThread[q])'
      BY <1>0, <3>1, AtFields
    <3>6. ASSUME NEW q \in Procs, parent'[q] # None PROVE ~isThread'[parent'[q]]
      <4>1. parent'[q] \in Procs /\ ~isThread[parent'[q]] /\ parent'[q] # np
        BY <1>0, <1>g, <3>1, <3>6 DEF ParentAlive, Alive, Types
      <4> QED
        BY <3>1, <4>1
    <3>7. ASSUME NEW k \in Procs, Used(k)', ~isThread'[k], NEW x \in maps'[table'[k]]
          PROVE  x <= cnt'[k] /\ (x = 0 \/ \E q \in Procs : isThread'[q] /\ main_thread'[q] = k /\ tf'[q] = x)
      <4>1. k # np /\ Used(k) /\ ~isThread[k] /\ table'[k] = table[k] /\ table[k] \in Tables
        <5>1. k # np /\ Used(k)
          BY <3>1, <3>7 DEF Used
        <5> QED
          BY <3>1, <3>7, <5>1, Tenant
      <4>2. CASE x \in maps[table[k]]
        <5>1. x <= cnt[k] /\ (x = 0 \/ \E q \in Procs : isThread[q] /\ main_thread[q] = k /\ tf[q] = x)
          BY <1>0, <4>1, <4>2
        <5>2. x <= cnt'[k]
          <6>1. x \in Nat /\ cnt[k] \in Nat
            BY <1>g, <4>1, <4>2 DEF Types
          <6> QED
            BY <3>1, <3>2, <5>1, <6>1
        <5>3. \A q \in Procs : isThread[q] => q # np
          BY <3>1
        <5> QED
          BY <3>1, <5>1, <5>2, <5>3
      <4>3. CASE x \notin maps[table[k]]
        <5>1. table[k] = table[m] /\ x = cnt[m] + 1
          BY <3>1, <3>2, <3>7, <4>1, <4>3
        <5>2. k = m
          <6>1. Owns(k, table[k]) /\ Owns(m, table[m]) /\ table[k] \in Tables
            BY <3>1, <3>2, <4>1, Tenant
          <6> QED
            BY <5>1, <6>1 DEF TableInv
        <5> QED
          BY <3>1, <3>2, <5>1, <5>2
      <4> QED
        BY <4>2, <4>3
    <3> QED
      BY <1>q, <3>3, <3>4, <3>5, <3>6, <3>7
  <2>4. CASE ExitStart(p) \/ JoinReap(p)
    <3>1. PICK S, c : /\ Frees(p, S, c) /\ S \in SUBSET Procs /\ maps' = Unmapped(S) /\ panicked' = FreeingPanics(S)
                      /\ \A q \in S : isThread[q]
      <4>1. CASE ExitStart(p)
        <5>1. PICK S \in SUBSET Procs : /\ Frees(p, S, "exit") /\ maps' = Unmapped(S)
                                        /\ panicked' = FreeingPanics(S) /\ \A q \in S : isThread[q]
          BY <4>1, ExitFrees
        <5> QED
          BY <5>1
      <4>2. CASE JoinReap(p)
        <5>1. PICK z \in Procs : /\ Frees(p, {z}, "user") /\ maps' = Unmapped({z})
                                 /\ panicked' = FreeingPanics({z}) /\ isThread[z]
          BY <4>2, JoinFrees
        <5> QED
          BY <5>1
      <4> QED
        BY <2>4, <4>1, <4>2
    <3>2. /\ p \notin S /\ cnt' = cnt
          /\ \A q \in S : state'[q] = "UNUSED" /\ ~isThread'[q] /\ op'[q].pc = "user"
          /\ \A q \in Procs : q \notin S =>
               /\ state'[q] = state[q] /\ isThread'[q] = isThread[q]
               /\ main_thread'[q] = main_thread[q] /\ tf'[q] = tf[q] /\ table'[q] = table[q]
          /\ \A q \in Procs : parent'[q] = IF q \in S THEN None ELSE IF parent[q] \in S THEN initproc ELSE parent[q]
          /\ op'[p].pc = c /\ \A q \in Procs : q # p /\ q \notin S => op'[q] = op[q]
      BY <3>1, FreeEffect
    <3>3. c \in {"user", "exit"} /\ initproc \notin S
      BY <3>1 DEF Frees
    <3>4. panicked' = "none"
      BY <1>0, <1>p, <1>h, <3>1, FreeingCalm
    <3>5. \A q \in Procs : op'[q].pc \in {"user", "fork", "forked", "exit", "wait", "join"}
      BY <1>0, <3>2, <3>3
    <3>6. \A q \in Procs : (op[q].pc \in {"fork", "forked"} => ~isThread[q])'
      BY <1>0, <3>2, <3>3
    <3>7. ASSUME NEW q \in Procs, parent'[q] # None PROVE ~isThread'[parent'[q]]
      <4>1. parent'[q] \in Procs /\ ~isThread[parent'[q]]
        BY <1>0, <1>g, <3>2, <3>7, Constants DEF InitLives, Types
      <4> QED
        BY <3>1, <3>2, <4>1
    <3>8. ASSUME NEW m \in Procs, Used(m)', ~isThread'[m], NEW x \in maps'[table'[m]]
          PROVE  x <= cnt'[m] /\ (x = 0 \/ \E q \in Procs : isThread'[q] /\ main_thread'[q] = m /\ tf'[q] = x)
      <4>1. m \notin S /\ Used(m) /\ ~isThread[m] /\ table'[m] = table[m]
        BY <3>2, <3>8 DEF Used
      <4>2. table[m] \in Tables
        BY <4>1, Tenant
      <4>3. x \in maps[table[m]] /\ \A q \in S : table[q] = table[m] => tf[q] # x
        BY <3>1, <3>8, <4>1, <4>2 DEF Unmapped
      <4>4. x <= cnt[m] /\ (x = 0 \/ \E q \in Procs : isThread[q] /\ main_thread[q] = m /\ tf[q] = x)
        BY <1>0, <4>1, <4>3
      <4>5. \A q \in Procs : isThread[q] /\ main_thread[q] = m /\ tf[q] = x => q \notin S
        BY <1>h, <4>3
      <4> QED
        BY <3>2, <4>4, <4>5
    <3> QED
      BY <1>q, <3>4, <3>5, <3>6, <3>7, <3>8
  <2>5. CASE WaitReap(p)
    <3>1. PICK z \in Procs :
           /\ Frees(p, {z}, "user") /\ ~isThread[z] /\ state[z] = "ZOMBIE" /\ table[z] \in Tables
           /\ maps' = [maps EXCEPT ![table[z]] = {}]
           /\ panicked' = IF FreeTablePanics(maps[table[z]], table[z], sz[z]) THEN "freewalk" ELSE "none"
      BY <2>5, WaitFrees
    <3>2. /\ p # z /\ cnt' = cnt /\ state'[z] = "UNUSED" /\ ~isThread'[z] /\ op'[z].pc = "user"
          /\ \A q \in Procs : q # z =>
               /\ state'[q] = state[q] /\ isThread'[q] = isThread[q]
               /\ main_thread'[q] = main_thread[q] /\ tf'[q] = tf[q] /\ table'[q] = table[q]
          /\ \A q \in Procs : parent'[q] = IF q = z THEN None ELSE IF parent[q] = z THEN initproc ELSE parent[q]
          /\ op'[p].pc = "user" /\ \A q \in Procs : q # p /\ q # z => op'[q] = op[q]
      BY <3>1, FreeEffect
    <3>3. panicked' = "none"
      <4>0. Used(z)
        BY <3>1 DEF Used
      <4>1. 0 \in maps[table[z]]
        BY <1>0, <1>p, <3>1, <4>0, TrapParts
      <4>2. \A q \in Procs : isThread[q] => main_thread[q] # z
        BY <1>g, <3>1 DEF Member, Alive
      <4>3. maps[table[z]] = {0}
        <5>1. \A x \in maps[table[z]] : x = 0
          BY <1>0, <3>1, <4>0, <4>2
        <5> QED
          BY <4>1, <5>1
      <4>4. sz[z] = pages[table[z]]
        BY <1>p, <4>0 DEF SizeInv
      <4> QED
        BY <3>1, <4>3, <4>4 DEF FreeTablePanics
    <3>4. \A q \in Procs : op'[q].pc \in {"user", "fork", "forked", "exit", "wait", "join"}
      BY <1>0, <3>2
    <3>5. \A q \in Procs : (op[q].pc \in {"fork", "forked"} => ~isThread[q])'
      BY <1>0, <3>2
    <3>6. ASSUME NEW q \in Procs, parent'[q] # None PROVE ~isThread'[parent'[q]]
      <4>1. parent'[q] \in Procs /\ ~isThread[parent'[q]]
        BY <1>0, <1>g, <3>2, <3>6, Constants DEF InitLives, Types
      <4> QED
        BY <3>2, <4>1
    <3>7. ASSUME NEW m \in Procs, Used(m)', ~isThread'[m], NEW x \in maps'[table'[m]]
          PROVE  x <= cnt'[m] /\ (x = 0 \/ \E q \in Procs : isThread'[q] /\ main_thread'[q] = m /\ tf'[q] = x)
      <4>1. m # z /\ Used(m) /\ ~isThread[m] /\ table'[m] = table[m]
        BY <3>2, <3>7 DEF Used
      <4>2. table[m] \in Tables /\ table[m] # table[z]
        BY <3>1, <4>1, Tenant, ZombieTable
      <4>3. x \in maps[table[m]]
        BY <1>g, <3>1, <3>7, <4>1, <4>2 DEF Types
      <4>4. x <= cnt[m] /\ (x = 0 \/ \E q \in Procs : isThread[q] /\ main_thread[q] = m /\ tf[q] = x)
        BY <1>0, <4>1, <4>3
      <4>5. \A q \in Procs : isThread[q] => q # z
        BY <3>1
      <4> QED
        BY <3>2, <4>4, <4>5
    <3> QED
      BY <1>q, <3>3, <3>4, <3>5, <3>6, <3>7
  <2>6. CASE \E n \in 1 .. MaxSize : growproc(p, n)
    <3>1. UNCHANGED <<state, parent, isThread, main_thread, cnt, table, tf, maps, op, panicked>>
      BY <2>6 DEF growproc, procVars, groupVars, sysVars
    <3> QED
      BY <1>0, <3>1 DEF PeaceInv, Used
  <2>7. ASSUME Calm(p), maps' = maps, panicked' = "none",
               op'[p].pc \in {"user", "forked", "wait", "join"},
               op'[p].pc = "forked" => ~isThread[p],
               \A q \in Procs : parent'[q] # None => parent'[q] \in Procs /\ ~isThread[parent'[q]],
               \A m \in Procs : Used(m) /\ ~isThread[m] => \A x \in maps[table[m]] : x <= cnt'[m]
        PROVE  PeaceInv'
    <3>1. /\ table' = table /\ tf' = tf
          /\ \A q \in Procs : /\ Used(q)' <=> Used(q)
                              /\ isThread'[q] = isThread[q]
                              /\ isThread[q] => main_thread'[q] = main_thread[q]
                              /\ q # p => op'[q] = op[q]
      BY <2>7 DEF Calm
    <3>2. \A q \in Procs : op'[q].pc \in {"user", "fork", "forked", "exit", "wait", "join"}
      BY <1>0, <2>7, <3>1
    <3>3. \A q \in Procs : (op[q].pc \in {"fork", "forked"} => ~isThread[q])'
      BY <1>0, <2>7, <3>1
    <3>4. \A q \in Procs : (parent[q] # None => ~isThread[parent[q]])'
      BY <2>7, <3>1
    <3>5. \A m \in Procs : (Used(m) /\ ~isThread[m] => \A x \in maps[table[m]] : x <= cnt[m])'
      BY <2>7, <3>1
    <3>6. ASSUME NEW m \in Procs, Used(m)', ~isThread'[m], NEW x \in maps'[table'[m]]
          PROVE  x = 0 \/ \E q \in Procs : isThread'[q] /\ main_thread'[q] = m /\ tf'[q] = x
      <4>1. Used(m) /\ ~isThread[m] /\ x \in maps[table[m]]
        BY <2>7, <3>1, <3>6
      <4>2. x = 0 \/ \E q \in Procs : isThread[q] /\ main_thread[q] = m /\ tf[q] = x
        BY <1>0, <4>1
      <4> QED
        BY <3>1, <4>2
    <3> QED
      BY <1>q, <2>7, <3>2, <3>3, <3>4, <3>5, <3>6
  <2>8. \A q \in Procs : parent[q] # None => parent[q] \in Procs /\ ~isThread[parent[q]]
    BY <1>0, <1>g DEF Types
  <2>9. CASE ForkParent(p)
    <3>1. PICK np \in Procs : /\ op[p].pc = "fork" /\ parent' = [parent EXCEPT ![np] = p] /\ cnt' = cnt
                              /\ panicked' = panicked
      BY <1>g, <2>9 DEF ForkParent, Is, Locals, groupVars, sysVars
    <3>2. \A q \in Procs : parent'[q] # None => parent'[q] \in Procs /\ ~isThread[parent'[q]]
      BY <1>0, <1>g, <2>8, <3>1 DEF Types
    <3> QED
      BY <1>0, <2>7, <2>9, <3>1, <3>2, CalmSlots
  <2>10. CASE ForkDone(p)
    <3>1. PICK np \in Procs : /\ op[p].pc = "forked" /\ state[np] = "USED" /\ parent' = parent
                              /\ cnt' = [cnt EXCEPT ![np] = 0] /\ panicked' = panicked
      BY <1>g, <2>10 DEF ForkDone, Is, Locals, sysVars
    <3>2. ASSUME NEW m \in Procs, Used(m), ~isThread[m], NEW x \in maps[table[m]] PROVE x <= cnt'[m]
      <4>1. CASE m = np
        <5>1. \A q \in Procs : isThread[q] => main_thread[q] # np
          BY <1>g, <3>1 DEF Member, Alive
        <5>2. x = 0
          BY <1>0, <3>2, <4>1, <5>1
        <5> QED
          BY <1>g, <3>1, <4>1, <5>2 DEF Types
      <4>2. CASE m # np
        BY <1>0, <1>g, <3>1, <3>2, <4>2 DEF Types
      <4> QED
        BY <4>1, <4>2
    <3>3. op'[p].pc # "forked"
      <4>1. op' = [op EXCEPT ![p] = User]
        BY <2>10 DEF ForkDone, Goto
      <4> QED
        BY <1>g, <4>1, AtFields DEF Types
    <3> QED
      BY <1>0, <2>7, <2>8, <2>10, <3>1, <3>2, <3>3, CalmSlots
  <2>11. CASE ExitEnd(p)
    <3>1. /\ parent' = [q \in Procs |-> IF parent[q] = p THEN initproc ELSE parent[q]] /\ cnt' = cnt
          /\ panicked' = panicked /\ op' = [op EXCEPT ![p] = User]
      BY <2>11 DEF ExitEnd, Goto, groupVars
    <3>2. \A q \in Procs : parent'[q] # None => parent'[q] \in Procs /\ ~isThread[parent'[q]]
      BY <1>g, <2>8, <3>1, Constants DEF InitLives
    <3>3. op'[p].pc = "user"
      BY <1>g, <3>1, AtFields DEF Types
    <3> QED
      BY <1>0, <2>7, <2>11, <3>1, <3>2, <3>3, CalmSlots
  <2>12. CASE WaitSleep(p) \/ JoinSleep(p)
    <3>1. /\ parent' = parent /\ cnt' = cnt /\ panicked' = panicked
          /\ \E c \in {"wait", "join"} : op' = [op EXCEPT ![p] = At(c, None)]
      BY <2>12 DEF WaitSleep, JoinSleep, Sleep, Goto, groupVars, sysVars
    <3>2. op'[p].pc \in {"wait", "join"}
      BY <1>g, <3>1, AtFields DEF Types
    <3> QED
      BY <1>0, <2>7, <2>8, <2>12, <3>1, <3>2, CalmSlots
  <2>13. CASE WaitReturn(p) \/ JoinReturn(p)
    <3>1. /\ parent' = parent /\ cnt' = cnt /\ panicked' = panicked /\ op' = [op EXCEPT ![p] = User]
      BY <2>13 DEF WaitReturn, JoinReturn, Return, Goto, procVars, groupVars, sysVars
    <3>2. op'[p].pc = "user"
      BY <1>g, <3>1, AtFields DEF Types
    <3> QED
      BY <1>0, <2>7, <2>8, <2>13, <3>1, <3>2, CalmCalls
  <2>14. CASE CloneFails(p) \/ JoinBadPointer(p) \/ GrowprocFails(p) \/ FsBegin(p) \/ ExecStart(p)
              \/ \E k \in 0 .. MaxPid : KillFind(p, k)
    BY <1>p, <2>14 DEF CloneFails, JoinBadPointer, GrowprocFails, FsBegin, ExecStart, KillFind, InUser
  <2>15. CASE \/ KillRead(p) \/ KillMark(p) \/ FsEnd(p) \/ ExecNoFile(p) \/ ExecTable(p) \/ ExecBad(p)
              \/ ExecLoaded(p) \/ ExecCommit(p) \/ ExecCleanMain(p) \/ ExecCleanThread(p)
    BY <1>0, <2>15 DEF KillRead, KillMark, FsEnd, ExecNoFile, ExecTable, ExecBad, ExecLoaded, ExecCommit,
                       ExecCleanMain, ExecCleanThread, Is
  <2> QED
    BY <2>1, <2>2, <2>3, <2>4, <2>5, <2>6, <2>9, <2>10, <2>11, <2>12, <2>13, <2>14, <2>15
<1> QED
  BY <1>1, <1>2

LEMMA InitPeaceInv ==
  ASSUME Init
  PROVE  PeaceInv
<1>1. \A q \in Procs : /\ op[q].pc = "user" /\ parent[q] = None /\ cnt[q] = 0 /\ ~isThread[q]
                       /\ Used(q) => table[q] = 1
  BY AtFields DEF Init, Used
<1>2. maps[1] = {0} /\ panicked = "none"
  BY NPROCAssumption DEF Init, Tables
<1> QED
  BY <1>1, <1>2 DEF PeaceInv

-----------------------------------------------------------------------------
(* Exits that nobody misses.                                               *)

\* A step after which no sleeper has an exited child or thread it had not.
LEMMA ExitFrame ==
  ASSUME NoMissedExit, panicked = "none",
         \A q \in Procs : state'[q] = "SLEEPING" =>
           /\ state[q] = "SLEEPING" /\ op'[q].pc = op[q].pc
           /\ isThread'[q] = isThread[q] /\ main_pid'[q] = main_pid[q],
         \A z \in Procs : state'[z] = "ZOMBIE" =>
           /\ state[z] = "ZOMBIE" /\ parent'[z] = parent[z]
           /\ isThread'[z] = isThread[z] /\ main_pid'[z] = main_pid[z]
  PROVE  NoMissedExit'
<1> SUFFICES ASSUME NEW q \in Procs, state'[q] = "SLEEPING"
             PROVE  /\ op'[q].pc = "wait" => Zombies(WaitedFor(q))' = {}
                    /\ op'[q].pc = "join" /\ ~isThread'[q] => Zombies(ThreadsOf(main_pid[q]))' = {}
  BY DEF NoMissedExit
<1>1. /\ op[q].pc = "wait" => Zombies(WaitedFor(q)) = {}
      /\ op[q].pc = "join" /\ ~isThread[q] => Zombies(ThreadsOf(main_pid[q])) = {}
  BY DEF NoMissedExit
<1>2. Zombies(WaitedFor(q))' \subseteq Zombies(WaitedFor(q))
  BY DEF Zombies, WaitedFor, Children
<1>3. Zombies(ThreadsOf(main_pid[q]))' \subseteq Zombies(ThreadsOf(main_pid[q]))
  BY DEF Zombies, ThreadsOf
<1> QED
  BY <1>1, <1>2, <1>3

LEMMA ExitSleep ==
  ASSUME GInv, NoMissedExit, NEW p \in Procs, WaitSleep(p) \/ JoinSleep(p)
  PROVE  NoMissedExit'
<1>0. Types
  BY DEF GInv
<1>1. PICK c \in {"wait", "join"} :
        /\ panicked = "none" /\ state[p] = "RUNNABLE" /\ Sleep(p, c)
        /\ c = "wait" => Zombies(WaitedFor(p)) = {}
        /\ c = "join" => Zombies(ThreadsOf(main_pid[p])) = {}
  BY DEF WaitSleep, JoinSleep, Waiting, Joining, InUser, Is
<1>2. /\ state' = [state EXCEPT ![p] = "SLEEPING"] /\ op' = [op EXCEPT ![p] = At(c, None)]
      /\ UNCHANGED <<parent, isThread, main_pid>>
  BY <1>1 DEF Sleep, Goto, groupVars
<1>3. /\ state'[p] = "SLEEPING" /\ op'[p].pc = c
      /\ \A q \in Procs : q # p => state'[q] = state[q] /\ op'[q] = op[q]
  BY <1>0, <1>2, AtFields DEF Types
<1> SUFFICES ASSUME NEW q \in Procs, state'[q] = "SLEEPING"
             PROVE  /\ op'[q].pc = "wait" => Zombies(WaitedFor(q))' = {}
                    /\ op'[q].pc = "join" /\ ~isThread'[q] => Zombies(ThreadsOf(main_pid[q]))' = {}
  BY DEF NoMissedExit
<1>4. Zombies(WaitedFor(q))' = Zombies(WaitedFor(q))
  BY <1>1, <1>2, <1>3 DEF Zombies, WaitedFor, Children
<1>5. Zombies(ThreadsOf(main_pid[q]))' = Zombies(ThreadsOf(main_pid[q]))
  BY <1>1, <1>2, <1>3 DEF Zombies, ThreadsOf
<1>6. CASE q = p
  BY <1>1, <1>3, <1>4, <1>5, <1>6
<1>7. CASE q # p
  BY <1>1, <1>2, <1>3, <1>4, <1>5, <1>7 DEF NoMissedExit
<1> QED
  BY <1>6, <1>7

LEMMA ExitEnds ==
  ASSUME GInv, NoMissedExit, NEW p \in Procs, ExitEnd(p)
  PROVE  NoMissedExit'
<1>0. Types /\ \A q \in Procs : Member(q) /\ Slot(q)
  BY DEF GInv
<1>1. /\ op[p].pc = "exit" /\ state[p] = "RUNNABLE" /\ panicked = "none"
      /\ parent' = [q \in Procs |-> IF parent[q] = p THEN initproc ELSE parent[q]]
      /\ op' = [op EXCEPT ![p] = User]
      /\ UNCHANGED <<isThread, main_pid>>
  BY DEF ExitEnd, Goto, Is, groupVars
<1>2. \A q \in Procs : state'[q] = "SLEEPING" =>
        /\ q # p /\ state[q] = "SLEEPING" /\ q # parent[p] /\ op'[q] = op[q]
        /\ q = initproc => \A r \in Procs : parent[r] # p
  <2>1. \A q \in Procs : state'[q] = IF q = p THEN "ZOMBIE"
                                     ELSE IF q \in WokenByExit(p) /\ state[q] = "SLEEPING" THEN "RUNNABLE"
                                     ELSE state[q]
    BY DEF ExitEnd
  <2> QED
    BY <1>0, <1>1, <2>1 DEF WokenByExit, Children, Types
<1>3. \A z \in Procs : state'[z] = "ZOMBIE" => z = p \/ state[z] = "ZOMBIE"
  BY DEF ExitEnd
<1> SUFFICES ASSUME NEW q \in Procs, state'[q] = "SLEEPING"
             PROVE  /\ op'[q].pc = "wait" => Zombies(WaitedFor(q))' = {}
                    /\ op'[q].pc = "join" /\ ~isThread'[q] => Zombies(ThreadsOf(main_pid[q]))' = {}
  BY DEF NoMissedExit
<1>4. /\ op[q].pc = "wait" => Zombies(WaitedFor(q)) = {}
      /\ op[q].pc = "join" /\ ~isThread[q] => Zombies(ThreadsOf(main_pid[q])) = {}
  BY <1>1, <1>2 DEF NoMissedExit
<1>5. ASSUME op'[q].pc = "wait" PROVE Zombies(WaitedFor(q))' = {}
  <2> SUFFICES ASSUME NEW z \in Procs, state'[z] = "ZOMBIE", parent'[z] = q, ~isThread'[z] PROVE FALSE
    BY DEF Zombies, WaitedFor, Children
  <2>1. parent[z] = q /\ z # p
    BY <1>1, <1>2
  <2>2. state[z] = "ZOMBIE" /\ ~isThread[z]
    BY <1>1, <1>3, <2>1
  <2> QED
    BY <1>2, <1>4, <1>5, <2>1, <2>2 DEF Zombies, WaitedFor, Children
<1>6. ASSUME op'[q].pc = "join", ~isThread'[q] PROVE Zombies(ThreadsOf(main_pid[q]))' = {}
  <2> SUFFICES ASSUME NEW z \in Procs, state'[z] = "ZOMBIE", main_pid'[z] = main_pid'[q], isThread'[z] PROVE FALSE
    BY DEF Zombies, ThreadsOf
  <2>1. CASE z = p
    <3>1. main_pid[q] = pid[q]
      BY <1>0, <1>1, <1>2, <1>6 DEF Slot
    <3>2. main_thread[p] = q
      BY <1>1, <2>1, <3>1, Group DEF ThreadsOf
    <3>3. parent[p] = q
      BY <1>0, <1>1, <2>1, <3>2 DEF Member
    <3> QED
      BY <1>2, <3>3
  <2>2. CASE z # p
    BY <1>1, <1>2, <1>3, <1>4, <1>6, <2>2 DEF Zombies, ThreadsOf
  <2> QED
    BY <2>1, <2>2
<1> QED
  BY <1>5, <1>6

\* freethread() that reparents an exited child panics before init can miss it.
LEMMA ExitFree ==
  ASSUME GInv, NoMissedExit, NEW p \in Procs, NEW S, NEW c, Frees(p, S, c),
         panicked' = "none" => \A q \in Procs : parent[q] \notin S
  PROVE  NoMissedExit'
<1> SUFFICES ASSUME panicked' = "none" PROVE NoMissedExit'
  BY DEF NoMissedExit
<1>1. /\ panicked = "none" /\ state[p] = "RUNNABLE" /\ S \in SUBSET Procs /\ p \notin S
      /\ \A q \in S : state'[q] = "UNUSED"
      /\ \A q \in Procs : q \notin S =>
           state'[q] = state[q] /\ isThread'[q] = isThread[q] /\ main_pid'[q] = main_pid[q]
      /\ \A q \in Procs : parent'[q] = IF q \in S THEN None ELSE IF parent[q] \in S THEN initproc ELSE parent[q]
      /\ \A q \in Procs : q # p /\ q \notin S => op'[q] = op[q]
  BY FreeEffect
<1>2. \A q \in Procs : state'[q] = "SLEEPING" =>
           /\ state[q] = "SLEEPING" /\ op'[q].pc = op[q].pc
           /\ isThread'[q] = isThread[q] /\ main_pid'[q] = main_pid[q]
  BY <1>1
<1>3. \A z \in Procs : state'[z] = "ZOMBIE" =>
           /\ state[z] = "ZOMBIE" /\ parent'[z] = parent[z]
           /\ isThread'[z] = isThread[z] /\ main_pid'[z] = main_pid[z]
  BY <1>1
<1> QED
  BY <1>1, <1>2, <1>3, ExitFrame

LEMMA NextNoMissedExit ==
  ASSUME GInv, NoMissedExit, [Next]_vars
  PROVE  NoMissedExit'
<1>g. Types /\ ParentAlive /\ \A q \in Procs : Slot(q) /\ Locals(q)
  BY DEF GInv
<1>1. CASE UNCHANGED vars
  BY <1>1 DEF NoMissedExit, Zombies, WaitedFor, ThreadsOf, Children, vars, procVars, groupVars, sysVars
<1>2. CASE Next
  <2>1. PICK p \in Procs :
           \/ ForkAlloc(p) \/ ForkParent(p) \/ ForkDone(p) \/ paull04_clone(p) \/ CloneFails(p)
           \/ ExitStart(p) \/ ExitEnd(p) \/ WaitReap(p) \/ JoinReap(p)
           \/ WaitSleep(p) \/ JoinSleep(p) \/ WaitReturn(p) \/ JoinReturn(p)
           \/ JoinBadPointer(p) \/ GrowprocFails(p)
           \/ (\E k \in 0 .. MaxPid : KillFind(p, k)) \/ KillRead(p) \/ KillMark(p)
           \/ (\E n \in 1 .. MaxSize : growproc(p, n))
           \/ ExecStart(p) \/ ExecNoFile(p) \/ ExecTable(p) \/ ExecBad(p) \/ ExecLoaded(p)
           \/ ExecCommit(p) \/ ExecCleanMain(p) \/ ExecCleanThread(p)
           \/ FsBegin(p) \/ FsEnd(p)
    BY <1>2, Steps
  <2>2. \A S : FreeingPanics(S) = "none" => \A q \in Procs : parent[q] \notin S
    BY DEF FreeingPanics, Children
  <2>3. CASE ExitStart(p)
    <3>1. PICK S \in SUBSET Procs : Frees(p, S, "exit") /\ panicked' = FreeingPanics(S)
      BY <2>3, ExitFrees
    <3> QED
      BY <2>2, <3>1, ExitFree
  <2>4. CASE JoinReap(p)
    <3>1. PICK z \in Procs : Frees(p, {z}, "user") /\ panicked' = FreeingPanics({z})
      BY <2>4, JoinFrees
    <3> QED
      BY <2>2, <3>1, ExitFree
  <2>5. CASE WaitReap(p)
    <3>1. PICK z \in Procs : Frees(p, {z}, "user") /\ state[z] = "ZOMBIE"
      BY <2>5, WaitFrees
    <3>2. \A q \in Procs : parent[q] \notin {z}
      BY <1>g, <3>1, Constants DEF ParentAlive, Alive
    <3> QED
      BY <3>1, <3>2, ExitFree
  <2>6. CASE ExecCleanMain(p) \/ ExecCleanThread(p)
    <3>1. PICK S \in SUBSET Procs :
            Frees(p, S, "user") /\ (panicked' = "none" => FreeingPanics(S) = "none")
      BY <2>6, ExecFrees
    <3> QED
      BY <2>2, <3>1, ExitFree
  <2>7. CASE ExitEnd(p) \/ WaitSleep(p) \/ JoinSleep(p)
    BY <2>7, ExitEnds, ExitSleep
  <2>8. CASE ForkAlloc(p)
    <3>1. PICK np \in Procs :
           /\ panicked = "none" /\ state[p] = "RUNNABLE" /\ state'[np] = "USED" /\ np # p
           /\ \A q \in Procs : q # np => state'[q] = state[q]
           /\ \A q \in Procs : q # p => op'[q] = op[q]
           /\ UNCHANGED <<parent, isThread, main_pid>>
      BY <2>8, ForkEffect DEF groupVars
    <3> QED
      BY <3>1, ExitFrame
  <2>9. CASE paull04_clone(p)
    <3>1. PICK np \in Procs :
           /\ panicked = "none" /\ state[p] = "RUNNABLE" /\ state'[np] = "RUNNABLE"
           /\ \A q \in Procs : q # np =>
                /\ state'[q] = state[q] /\ isThread'[q] = isThread[q] /\ parent'[q] = parent[q]
                /\ main_pid'[q] = main_pid[q]
           /\ op' = op
      BY <2>9, CloneEffect
    <3> QED
      BY <3>1, ExitFrame
  <2>10. CASE ForkParent(p) \/ ForkDone(p)
    <3>1. PICK np \in Procs : np = op[p].arg /\ state[np] = "USED"
      BY <1>g, <2>10 DEF ForkParent, ForkDone, Is, Locals
    <3>2. /\ panicked = "none" /\ state[p] = "RUNNABLE" /\ \A q \in Procs : q # p => op'[q] = op[q]
      BY <2>10, CalmSlots DEF Calm
    <3>3. CASE ForkParent(p)
      <4>1. /\ parent' = [parent EXCEPT ![np] = p] /\ UNCHANGED <<state, isThread, main_pid>>
        BY <3>1, <3>3 DEF ForkParent, groupVars
      <4>2. \A q \in Procs : q # np => parent'[q] = parent[q]
        BY <1>g, <4>1 DEF Types
      <4> QED
        BY <3>1, <3>2, <4>1, <4>2, ExitFrame
    <3>4. CASE ForkDone(p)
      <4>1. /\ state' = [state EXCEPT ![np] = "RUNNABLE"] /\ isThread' = [isThread EXCEPT ![np] = FALSE]
            /\ main_pid' = [main_pid EXCEPT ![np] = pid[np]] /\ parent' = parent
        BY <3>1, <3>4 DEF ForkDone
      <4>2. /\ state'[np] = "RUNNABLE"
            /\ \A q \in Procs : q # np => /\ state'[q] = state[q] /\ isThread'[q] = isThread[q]
                                          /\ main_pid'[q] = main_pid[q]
        BY <1>g, <3>1, <4>1 DEF Types
      <4> QED
        BY <3>2, <4>1, <4>2, ExitFrame
    <3> QED
      BY <2>10, <3>3, <3>4
  <2>11. CASE KillMark(p)
    <3>1. /\ panicked = "none" /\ state[p] = "RUNNABLE" /\ \A q \in Procs : q # p => op'[q] = op[q]
      BY <2>11, CalmSlots DEF Calm
    <3>2. /\ state' = [state EXCEPT ![op[p].arg] = IF KillWakes(op[p].arg) THEN "RUNNABLE" ELSE @]
          /\ UNCHANGED <<parent, isThread, main_pid>>
      BY <2>11 DEF KillMark, groupVars
    <3>3. \A q \in Procs : state'[q] = state[q] \/ state'[q] = "RUNNABLE"
      BY <1>g, <3>2 DEF Types
    <3> QED
      BY <3>1, <3>2, <3>3, ExitFrame
  <2>12. CASE ExecCommit(p)
    <3>1. /\ state[p] = "RUNNABLE" /\ panicked = "none" /\ state' = state /\ parent' = parent
          /\ \A q \in Procs : q # p => /\ isThread'[q] = isThread[q] /\ main_pid'[q] = main_pid[q]
                                       /\ op'[q] = op[q]
      BY <2>12, CommitEffect DEF procVars
    <3> QED
      BY <3>1, ExitFrame
  <2>13. CASE \/ WaitReturn(p) \/ JoinReturn(p) \/ ExecNoFile(p) \/ FsBegin(p) \/ FsEnd(p)
              \/ (\E k \in 0 .. MaxPid : KillFind(p, k)) \/ KillRead(p) \/ ExecStart(p) \/ ExecLoaded(p)
              \/ JoinBadPointer(p) \/ GrowprocFails(p) \/ CloneFails(p)
    <3>1. /\ panicked = "none" /\ state[p] = "RUNNABLE" /\ \A q \in Procs : q # p => op'[q] = op[q]
      BY <2>13, CalmCalls, CalmStart, CalmLoaded, CalmSame DEF Calm
    <3>2. UNCHANGED <<state, parent, isThread, main_pid>>
      <4>1. CASE \/ WaitReturn(p) \/ JoinReturn(p) \/ ExecNoFile(p) \/ FsBegin(p) \/ FsEnd(p)
                 \/ (\E k \in 0 .. MaxPid : KillFind(p, k)) \/ KillRead(p)
        BY <4>1 DEF WaitReturn, JoinReturn, ExecNoFile, FsBegin, FsEnd, KillFind, KillRead, Return,
                    procVars, groupVars
      <4>2. CASE ExecStart(p) \/ ExecLoaded(p) \/ JoinBadPointer(p) \/ GrowprocFails(p) \/ CloneFails(p)
        BY <4>2 DEF ExecStart, ExecLoaded, JoinBadPointer, GrowprocFails, CloneFails, procVars, groupVars
      <4> QED
        BY <2>13, <4>1, <4>2
    <3> QED
      BY <3>1, <3>2, ExitFrame
  <2>14. CASE ExecTable(p) \/ ExecBad(p)
    <3>1. /\ panicked = "none" /\ state[p] = "RUNNABLE" /\ \A q \in Procs : q # p => op'[q] = op[q]
          /\ UNCHANGED <<state, parent, isThread, main_pid>>
      BY <2>14, TableEffect, BadEffect DEF procVars, groupVars
    <3> QED
      BY <3>1, ExitFrame
  <2>15. CASE \E n \in 1 .. MaxSize : growproc(p, n)
    <3>1. panicked = "none" /\ UNCHANGED <<state, parent, isThread, main_pid, op>>
      BY <2>15 DEF growproc, InUser, Is, procVars, groupVars
    <3> QED
      BY <3>1, ExitFrame
  <2> QED
    BY <2>1, <2>3, <2>4, <2>5, <2>6, <2>7, <2>8, <2>9, <2>10, <2>11, <2>12, <2>13, <2>14, <2>15
<1> QED
  BY <1>1, <1>2

-----------------------------------------------------------------------------
(* begin_op() and end_op().                                                *)

LEMMA BusyFinite ==
  IsFiniteSet(Busy) /\ Cardinality(Busy) \in Nat
BY Constants, FS_Subset, FS_CardinalityType DEF Busy

LEMMA BusyFiniteNext ==
  IsFiniteSet(Busy') /\ Cardinality(Busy') \in Nat
BY Constants, FS_Subset, FS_CardinalityType DEF Busy

LEMMA BusySame ==
  ASSUME BusyInv, Busy' \subseteq Busy, outstanding' = outstanding
  PROVE  BusyInv'
BY BusyFinite, BusyFiniteNext, FS_Subset DEF BusyInv

LEMMA BusyAdd ==
  ASSUME BusyInv, NEW p, Busy' \subseteq Busy \cup {p}, outstanding' = outstanding + 1
  PROVE  BusyInv'
<1>0. /\ IsFiniteSet(Busy \cup {p})
      /\ Cardinality(Busy \cup {p}) = IF p \in Busy THEN Cardinality(Busy) ELSE Cardinality(Busy) + 1
  BY BusyFinite, FS_AddElement, Zenon
<1>1. IsFiniteSet(Busy \cup {p}) /\ Cardinality(Busy \cup {p}) <= Cardinality(Busy) + 1
  BY <1>0, BusyFinite
<1>2. Cardinality(Busy') <= Cardinality(Busy \cup {p}) /\ Cardinality(Busy \cup {p}) \in Nat
  BY <1>1, FS_Subset, FS_CardinalityType
<1> QED
  BY <1>1, <1>2, BusyFinite, BusyFiniteNext DEF BusyInv

LEMMA BusyDrop ==
  ASSUME BusyInv, NEW p \in Busy, Busy' \subseteq Busy \ {p}, outstanding' = outstanding - 1
  PROVE  BusyInv'
<1>1. IsFiniteSet(Busy \ {p}) /\ Cardinality(Busy \ {p}) = Cardinality(Busy) - 1
  BY BusyFinite, FS_RemoveElement
<1>2. Cardinality(Busy') <= Cardinality(Busy \ {p}) /\ Cardinality(Busy \ {p}) \in Nat
  BY <1>1, FS_Subset, FS_CardinalityType
<1> QED
  BY <1>1, <1>2, BusyFinite, BusyFiniteNext DEF BusyInv

LEMMA NextBusyInv ==
  ASSUME GInv, BusyInv, [Next]_vars
  PROVE  BusyInv'
<1>1. CASE UNCHANGED vars
  BY <1>1, BusySame DEF vars, sysVars, Busy
<1>2. CASE Next
  <2>1. PICK p \in Procs :
           \/ ForkAlloc(p) \/ ForkParent(p) \/ ForkDone(p) \/ paull04_clone(p) \/ CloneFails(p)
           \/ ExitStart(p) \/ ExitEnd(p) \/ WaitReap(p) \/ JoinReap(p)
           \/ WaitSleep(p) \/ JoinSleep(p) \/ WaitReturn(p) \/ JoinReturn(p)
           \/ JoinBadPointer(p) \/ GrowprocFails(p)
           \/ (\E k \in 0 .. MaxPid : KillFind(p, k)) \/ KillRead(p) \/ KillMark(p)
           \/ (\E n \in 1 .. MaxSize : growproc(p, n))
           \/ ExecStart(p) \/ ExecNoFile(p) \/ ExecTable(p) \/ ExecBad(p) \/ ExecLoaded(p)
           \/ ExecCommit(p) \/ ExecCleanMain(p) \/ ExecCleanThread(p)
           \/ FsBegin(p) \/ FsEnd(p)
    BY <1>2, Steps
  <2>2. CASE ForkAlloc(p)
    <3>1. op'[p].pc = "fork" /\ outstanding' = outstanding /\ \A q \in Procs : q # p => op'[q] = op[q]
      BY <2>2, ForkEffect, AtFields
    <3> QED
      BY <3>1, BusySame DEF Busy
  <2>3. CASE \/ ForkParent(p) \/ ForkDone(p) \/ WaitSleep(p) \/ JoinSleep(p) \/ KillMark(p)
             \/ WaitReturn(p) \/ JoinReturn(p) \/ (\E k \in 0 .. MaxPid : KillFind(p, k)) \/ KillRead(p)
    <3>1. /\ op'[p].pc \in {"forked", "user", "wait", "join", "kill", "mark", "fs"}
          /\ \A q \in Procs : q # p => op'[q] = op[q]
      BY <2>3, CalmSlots, CalmCalls DEF Calm
    <3>2. op'[p].pc # "fs"
      <4>1. CASE ForkParent(p) \/ ForkDone(p) \/ WaitSleep(p) \/ JoinSleep(p) \/ KillMark(p)
        BY <4>1, CalmSlots
      <4>2. CASE \/ WaitReturn(p) \/ JoinReturn(p) \/ (\E k \in 0 .. MaxPid : KillFind(p, k)) \/ KillRead(p)
        <5>1. \/ op' = [op EXCEPT ![p] = User]
              \/ \E q : op' = [op EXCEPT ![p] = At("kill", q)]
              \/ \E q : op' = [op EXCEPT ![p] = At("mark", q)]
          BY <4>2 DEF WaitReturn, JoinReturn, KillFind, KillRead, Return, Goto
        <5> QED
          BY <5>1, AtFields DEF GInv, Types
      <4> QED
        BY <2>3, <4>1, <4>2
    <3>3. outstanding' = outstanding
      BY <2>3 DEF ForkParent, ForkDone, WaitSleep, JoinSleep, Sleep, KillMark, WaitReturn, JoinReturn,
                  Return, KillFind, KillRead, sysVars
    <3> QED
      BY <3>1, <3>2, <3>3, BusySame DEF Busy
  <2>4. CASE paull04_clone(p)
    <3>1. op' = op /\ outstanding' = outstanding
      BY <2>4 DEF paull04_clone
    <3> QED
      BY <3>1, BusySame DEF Busy
  <2>5. CASE CloneFails(p) \/ JoinBadPointer(p) \/ GrowprocFails(p) \/ (\E n \in 1 .. MaxSize : growproc(p, n))
    <3>1. op' = op /\ outstanding' = outstanding
      BY <2>5 DEF CloneFails, JoinBadPointer, GrowprocFails, growproc, sysVars
    <3> QED
      BY <3>1, BusySame DEF Busy
  <2>6. CASE ExitStart(p)
    <3>1. PICK S \in SUBSET Procs : Frees(p, S, "exit") /\ outstanding' = outstanding + 1
      BY <2>6, ExitFrees
    <3>2. /\ \A q \in S : op'[q].pc = "user"
          /\ \A q \in Procs : q # p /\ q \notin S => op'[q] = op[q]
      BY <3>1, FreeEffect
    <3> QED
      BY <3>1, <3>2, BusyAdd DEF Busy
  <2>7. CASE WaitReap(p) \/ JoinReap(p) \/ ExecCleanMain(p) \/ ExecCleanThread(p)
    <3>1. \E S \in SUBSET Procs : Frees(p, S, "user") /\ outstanding' = outstanding
      <4>1. CASE WaitReap(p) \/ JoinReap(p)
        <5>1. PICK z \in Procs : Frees(p, {z}, "user") /\ outstanding' = outstanding
          BY <4>1, WaitFrees, JoinFrees
        <5> QED
          BY <5>1
      <4>2. CASE ExecCleanMain(p) \/ ExecCleanThread(p)
        BY <4>2, ExecFrees
      <4> QED
        BY <2>7, <4>1, <4>2
    <3>2. PICK S \in SUBSET Procs : Frees(p, S, "user") /\ outstanding' = outstanding
      BY <3>1
    <3>3. /\ op'[p].pc = "user" /\ \A q \in S : op'[q].pc = "user"
          /\ \A q \in Procs : q # p /\ q \notin S => op'[q] = op[q]
      BY <3>2, FreeEffect
    <3> QED
      BY <3>2, <3>3, BusySame DEF Busy
  <2>8. CASE ExitEnd(p) \/ ExecNoFile(p) \/ FsEnd(p)
    <3>1. /\ op[p].pc \in {"exit", "exec", "fs"} /\ op' = [op EXCEPT ![p] = User]
          /\ outstanding' = outstanding - 1
      BY <2>8 DEF ExitEnd, ExecNoFile, FsEnd, Is, Goto
    <3>2. op'[p].pc = "user" /\ \A q \in Procs : q # p => op'[q] = op[q]
      BY <3>1, AtFields DEF GInv, Types
    <3> QED
      BY <3>1, <3>2, BusyDrop DEF Busy
  <2>9. CASE ExecStart(p) \/ FsBegin(p)
    <3>1. outstanding' = outstanding + 1 /\ \A q \in Procs : q # p => op'[q] = op[q]
      BY <2>9, CalmStart, CalmCalls DEF ExecStart, FsBegin, Calm
    <3> QED
      BY <3>1, BusyAdd DEF Busy
  <2>10. CASE ExecTable(p)
    <3>1. op[p].pc = "exec" /\ outstanding' = outstanding /\ \A q \in Procs : q # p => op'[q] = op[q]
      BY <2>10, TableEffect DEF sysVars
    <3> QED
      BY <3>1, BusySame DEF Busy
  <2>11. CASE ExecBad(p)
    <3>1. op[p].pc = "load" /\ op'[p].pc = "user" /\ \A q \in Procs : q # p => op'[q] = op[q]
      BY <2>11, BadEffect, AtFields
    <3>2. outstanding' = outstanding - 1
      BY <2>11 DEF ExecBad
    <3> QED
      BY <3>1, <3>2, BusyDrop DEF Busy
  <2>12. CASE ExecLoaded(p)
    <3>1. op[p].pc = "load" /\ op'[p].pc = "loaded" /\ \A q \in Procs : q # p => op'[q] = op[q]
      BY <2>12, CalmLoaded DEF Calm
    <3>2. outstanding' = outstanding - 1
      BY <2>12 DEF ExecLoaded
    <3> QED
      BY <3>1, <3>2, BusyDrop DEF Busy
  <2>13. CASE ExecCommit(p)
    <3>1. op'[p].pc = "commit" /\ outstanding' = outstanding /\ \A q \in Procs : q # p => op'[q] = op[q]
      BY <2>13, CommitEffect DEF sysVars
    <3> QED
      BY <3>1, BusySame DEF Busy
  <2> QED
    BY <2>1, <2>2, <2>3, <2>4, <2>5, <2>6, <2>7, <2>8, <2>9, <2>10, <2>11, <2>12, <2>13
<1> QED
  BY <1>1, <1>2

LEMMA InitBusyInv ==
  ASSUME Init
  PROVE  BusyInv
<1>1. \A p \in Procs : op[p].pc = "user"
  BY AtFields DEF Init
<1>2. Busy = {} /\ outstanding = 0
  BY <1>1 DEF Busy, Init
<1> QED
  BY <1>2, FS_EmptySet DEF BusyInv

LEMMA InitNoMissedExit ==
  ASSUME Init
  PROVE  NoMissedExit
<1>1. \A p \in Procs : state[p] # "SLEEPING"
  BY DEF Init
<1> QED
  BY <1>1 DEF NoMissedExit

-----------------------------------------------------------------------------
(* The theorems.                                                           *)

\* The inductive invariant is kept by every step of every process and thread.
THEOREM NextIInv == IInv /\ [Next]_vars => IInv'
<1> SUFFICES ASSUME IInv, [Next]_vars
             PROVE  IInv'
  OBVIOUS
<1>1. GInv /\ TableInv /\ TrapInv /\ SizeInv /\ PeaceInv /\ BusyInv /\ NoMissedExit
  BY DEF IInv
<1>2. GInv'
  BY <1>1, NextGInv
<1>3. TableInv' /\ TrapInv' /\ SizeInv' /\ PeaceInv'
  BY <1>1, <1>2, NextTableInv, NextTrapInv, NextSizeInv, NextPeaceInv
<1>4. BusyInv' /\ NoMissedExit'
  BY <1>1, NextBusyInv, NextNoMissedExit
<1> QED
  BY <1>2, <1>3, <1>4 DEF IInv

\* Every reachable state satisfies the inductive invariant.
THEOREM IInvCorrect == Spec => []IInv
<1>1. Init => IInv
  BY InitGInv, InitTableInv, InitTrapInv, InitSizeInv, InitPeaceInv, InitBusyInv, InitNoMissedExit DEF IInv
<1> QED
  BY <1>1, NextIInv, PTL DEF Spec

\* Thread groups are sound (GroupInv) whatever the processes and their threads
\* do: a thread's main thread outlives it, no page table is used after it was
\* freed, and trapframes are mapped and apart.
THEOREM GroupCorrect == Spec => []GroupInv
<1>1. IInv => GroupInv
  <2> SUFFICES ASSUME IInv
               PROVE  GroupInv
    OBVIOUS
  <2>1. GInv /\ TableInv /\ TrapInv /\ BusyInv
    BY DEF IInv
  <2>2. TypeOK
    BY <2>1 DEF GInv, Types, BusyInv, TypeOK
  <2>3. ThreadHasMain
    BY <2>1 DEF GInv, Member, Alive, ThreadHasMain
  <2>4. TablesLive
    <3> SUFFICES ASSUME NEW p \in Procs
                 PROVE  /\ Used(p) => pages[table[p]] # 0
                        /\ op[p].tbl # None /\ op[p].arg \in {None, p} => pages[op[p].tbl] # 0
      BY DEF TablesLive
    <3>1. Used(p) => pages[table[p]] # 0
      BY <2>1, Tenant
    <3>2. op[p].tbl \in Tables \cup {None}
      BY <2>1 DEF GInv, Types, OpSet
    <3>3. op[p].tbl # None /\ op[p].arg \in {None, p} => Owns(p, op[p].tbl)
      BY DEF Owns
    <3> QED
      BY <2>1, <3>1, <3>2, <3>3 DEF TableInv
  <2>5. TrapframesApart
    BY <2>1 DEF TrapInv, TrapframesApart
  <2> QED
    BY <2>2, <2>3, <2>4, <2>5 DEF GroupInv
<1> QED
  BY <1>1, IInvCorrect, PTL

\* The threads of a group agree with its page table about its size, whoever
\* calls sbrk() (SizesAgree), as long as nobody calls exec().
THEOREM SizesCorrect == Spec => []SizesAgree
<1>1. IInv => SizesAgree
  BY DEF IInv, SizeInv, SizesAgree
<1> QED
  BY <1>1, IInvCorrect, PTL

\* fork(), clone(), exit(), wait(), join() and sbrk() never panic the kernel
\* (NoPanic), for any number of processes and threads.
THEOREM NoPanicCorrect == Spec => []NoPanic
<1>1. IInv => NoPanic
  BY DEF IInv, PeaceInv, NoPanic
<1> QED
  BY <1>1, IInvCorrect, PTL

\* Nobody sleeps in wait() or join() over an exit that was missed
\* (NoMissedExit).
THEOREM NoMissedExitCorrect == Spec => []NoMissedExit
<1>1. IInv => NoMissedExit
  BY DEF IInv
<1> QED
  BY <1>1, IInvCorrect, PTL

\* log.outstanding covers every process between begin_op() and end_op(): no
\* process ever commits the log while another has a call under way, although
\* cleanAllThreads() frees threads in the middle of one.
THEOREM OutstandingCorrect == Spec => []BusyInv
<1>1. IInv => BusyInv
  BY DEF IInv
<1> QED
  BY <1>1, IInvCorrect, PTL
=============================================================================
