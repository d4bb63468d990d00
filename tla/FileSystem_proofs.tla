-------------------------- MODULE FileSystem_proofs --------------------------
(***************************************************************************)
(* The inode table is exact, for every number of processes and inodes, all *)
(* names, paths and programs, also when directories that are in use are    *)
(* removed and the disk is full in any call.                               *)
(***************************************************************************)
EXTENDS FileSystem, FiniteSetTheorems, SequenceTheorems, WellFoundedInduction, TLAPS

Entry == Names \cup Dots
Number == Inums \cup {0}
Stages == {"user", "walk", "link1", "link2", "linkfail", "linkbad", "unlink1", "unlink2", "unlink3",
           "failed", "create", "exists", "ialloc", "fill", "created", "open", "opened", "follow",
           "follow2", "chdir", "chdir2"}
Kernel == {"open", "link", "unlink", "mkdir", "mknod", "symlink", "chdir"}

\* Counts are integers here: that they are no less than zero follows from RefsExact,
\* for links from LinksCovered, which does not hold for all constants.
Dinode == [type : Types, nlink : Int, target : program.paths \cup {None}, ents : [Entry -> Number]]
Inode == [ref : Int, valid : BOOLEAN, lock : Procs \cup {None}, type : Types, nlink : Int]
Table == [Inums -> Inode]
File == [ip : Inums, writable : BOOLEAN]
Activation ==
  [at : Stages, call : Kernel \cup {None},
   arg : {None, "dev", "baddev", "create", "read", "write", "nofollow"} \cup program.paths,
   path : program.paths \cup {None}, name : Entry \cup {None}, wp : Number, rest : Seq(Entry),
   parent : BOOLEAN, then : Stages \cup {None}, ip : Number, dp : Number, cnt : Int,
   puts : Seq(Inums), iput : {"check", "trunc", "drop"}]

Typed ==
  /\ program \in Programs
  /\ dinode \in [Inums -> Dinode]
  /\ icache \in Table
  /\ cwd \in [Procs -> Inums]
  /\ ofile \in [Procs -> File \cup {None}]
  /\ op \in [Procs -> Activation]

\* Where a call is or will be at the end of its walk.
Stage(o) == IF o.at = "walk" THEN o.then ELSE o.at

HasIp == {"link1", "link2", "linkfail", "linkbad", "unlink2", "unlink3", "exists", "fill", "created",
          "open", "opened", "follow2", "chdir", "chdir2"}
HasDp == {"link2", "linkfail", "unlink1", "unlink2", "failed", "create", "ialloc", "fill"}

\* The references that a call has, by where it is.
Refers(o) ==
  /\ o.wp # 0 <=> o.at = "walk"
  /\ o.ip # 0 <=> o.at \in HasIp \/ (o.at = "walk" /\ o.then = "link2")
  /\ o.dp # 0 <=> o.at \in HasDp

\* The walk has a path to go, and each stage belongs to some call.
Walks(o) ==
  o.at = "walk" =>
    /\ o.rest # <<>>
    /\ IF o.parent THEN o.then \in {"link2", "unlink1", "create"}
                   ELSE o.then \in {"link1", "open", "follow2", "chdir"}
StageOf(o) ==
  /\ o.call = "link" <=> Stage(o) \in {"link1", "link2", "linkfail", "linkbad"}
  /\ Stage(o) \in {"create", "exists", "ialloc", "fill", "created"} => o.call \in {"open", "mkdir", "mknod", "symlink"}
  /\ Stage(o) \in {"open", "opened", "follow", "follow2"} => o.call = "open"
Args(o) ==
  /\ o.call \in {"link", "symlink"} => o.arg \in program.paths
  /\ o.call = "mknod" => o.arg \in {"dev", "baddev"}
  /\ o.call = "open" => o.path \in program.paths
  /\ o.at \in HasDp => o.name \in Entry
Puts(o) ==
  /\ Len(o.puts) <= 2
  /\ o.puts = <<>> => o.iput = "check"
  \* The inode that iput() frees is not one that the call has locked.
  /\ o.iput = "trunc" => /\ ~(o.at \in LocksDp /\ o.dp = Head(o.puts))
                         /\ ~(o.at \in LocksIp /\ o.ip = Head(o.puts))

Shape(o) == Refers(o) /\ Walks(o) /\ StageOf(o) /\ Args(o) /\ Puts(o)
Shapes == \A p \in Procs : Shape(op[p])

IInv == Typed /\ Shapes /\ RefsExact /\ LocksExact /\ CopiesExact

-----------------------------------------------------------------------------
(* Counting.                                                               *)

\* The references of one process with the places h, and those of all.
B(x, i) == IF x = i THEN 1 ELSE 0
Count(h, i) ==
  B(h.wp, i) + B(h.ip, i) + B(h.dp, i) + B(h.cwd, i) + B(h.file, i) + B(h.put, i) + B(h.put2, i)

MineOf(p, h, i) == {x \in {p} \X Places : h[x[2]] = i}

LEMMA AddIf ==
  ASSUME NEW S, IsFiniteSet(S), NEW x, x \notin S, NEW a, NEW b, NEW T,
         T = S \cup (IF a = b THEN {x} ELSE {})
  PROVE  IsFiniteSet(T) /\ Cardinality(T) = Cardinality(S) + B(a, b)
<1>1. CASE a = b
  <2>1. T = S \cup {x}
    BY <1>1
  <2> QED
    BY <1>1, <2>1, FS_AddElement DEF B
<1>2. CASE a # b
  <2>1. T = S
    BY <1>2
  <2>2. Cardinality(S) \in Nat
    BY FS_CardinalityType
  <2> QED
    BY <1>2, <2>1, <2>2 DEF B
<1> QED
  BY <1>1, <1>2

\* One process counts as many references as it has places that keep one.
LEMMA MineCount ==
  ASSUME NEW p, NEW h, NEW i
  PROVE  IsFiniteSet(MineOf(p, h, i)) /\ Cardinality(MineOf(p, h, i)) = Count(h, i)
<1> DEFINE M0 == {}
           M1 == M0 \cup (IF h.wp = i THEN {<<p, "wp">>} ELSE {})
           M2 == M1 \cup (IF h.ip = i THEN {<<p, "ip">>} ELSE {})
           M3 == M2 \cup (IF h.dp = i THEN {<<p, "dp">>} ELSE {})
           M4 == M3 \cup (IF h.cwd = i THEN {<<p, "cwd">>} ELSE {})
           M5 == M4 \cup (IF h.file = i THEN {<<p, "file">>} ELSE {})
           M6 == M5 \cup (IF h.put = i THEN {<<p, "put">>} ELSE {})
           M7 == M6 \cup (IF h.put2 = i THEN {<<p, "put2">>} ELSE {})
<1>0. IsFiniteSet(M0) /\ Cardinality(M0) = 0
  BY FS_EmptySet
<1>1. IsFiniteSet(M1) /\ Cardinality(M1) = Cardinality(M0) + B(h.wp, i)
  <2>1. <<p, "wp">> \notin M0
    OBVIOUS
  <2> HIDE DEF M0
  <2> QED
    BY <1>0, <2>1, AddIf
<1>2. IsFiniteSet(M2) /\ Cardinality(M2) = Cardinality(M1) + B(h.ip, i)
  <2>1. <<p, "ip">> \notin M1
    OBVIOUS
  <2> HIDE DEF M1
  <2> QED
    BY <1>1, <2>1, AddIf
<1>3. IsFiniteSet(M3) /\ Cardinality(M3) = Cardinality(M2) + B(h.dp, i)
  <2>1. <<p, "dp">> \notin M2
    OBVIOUS
  <2> HIDE DEF M2
  <2> QED
    BY <1>2, <2>1, AddIf
<1>4. IsFiniteSet(M4) /\ Cardinality(M4) = Cardinality(M3) + B(h.cwd, i)
  <2>1. <<p, "cwd">> \notin M3
    OBVIOUS
  <2> HIDE DEF M3
  <2> QED
    BY <1>3, <2>1, AddIf
<1>5. IsFiniteSet(M5) /\ Cardinality(M5) = Cardinality(M4) + B(h.file, i)
  <2>1. <<p, "file">> \notin M4
    OBVIOUS
  <2> HIDE DEF M4
  <2> QED
    BY <1>4, <2>1, AddIf
<1>6. IsFiniteSet(M6) /\ Cardinality(M6) = Cardinality(M5) + B(h.put, i)
  <2>1. <<p, "put">> \notin M5
    OBVIOUS
  <2> HIDE DEF M5
  <2> QED
    BY <1>5, <2>1, AddIf
<1>7. IsFiniteSet(M7) /\ Cardinality(M7) = Cardinality(M6) + B(h.put2, i)
  <2>1. <<p, "put2">> \notin M6
    OBVIOUS
  <2> HIDE DEF M6
  <2> QED
    BY <1>6, <2>1, AddIf
<1>8. M7 = MineOf(p, h, i)
  BY DEF Places, MineOf
<1> HIDE DEF M0, M1, M2, M3, M4, M5, M6, M7
<1> QED
  BY <1>0, <1>1, <1>2, <1>3, <1>4, <1>5, <1>6, <1>7, <1>8 DEF Count, B

RefsOf(h, i) == {x \in Procs \X Places : h[x[1]][x[2]] = i}

LEMMA RefsFinite ==
  ASSUME NEW h, NEW i
  PROVE  IsFiniteSet(RefsOf(h, i)) /\ Cardinality(RefsOf(h, i)) \in Nat
<1>1. IsFiniteSet(Places)
  <2>1. Places = {"wp"} \cup {"ip"} \cup {"dp"} \cup {"cwd"} \cup {"file"} \cup {"put"} \cup {"put2"}
    BY DEF Places
  <2> QED
    BY <2>1, FS_Singleton, FS_Union
<1>2. IsFiniteSet(Procs \X Places)
  BY <1>1, FS_Product, NoneAssumption
<1>3. RefsOf(h, i) \in SUBSET (Procs \X Places)
  BY DEF RefsOf
<1> QED
  BY <1>2, <1>3, FS_Subset, FS_CardinalityType

\* What all hold changes by what one process holds more.
LEMMA Recount ==
  ASSUME NEW p \in Procs, NEW h, NEW k, NEW i, \A q \in Procs \ {p} : k[q] = h[q]
  PROVE  Cardinality(RefsOf(k, i)) = Cardinality(RefsOf(h, i)) + Count(k[p], i) - Count(h[p], i)
<1> DEFINE M(g) == MineOf(p, g, i)
           Rest == {x \in (Procs \ {p}) \X Places : h[x[1]][x[2]] = i}
<1>1. RefsOf(h, i) = M(h[p]) \cup Rest /\ M(h[p]) \cap Rest = {}
  BY DEF RefsOf, MineOf
<1>2. RefsOf(k, i) = M(k[p]) \cup Rest /\ M(k[p]) \cap Rest = {}
  BY DEF RefsOf, MineOf
<1>3. IsFiniteSet(Rest) /\ Cardinality(Rest) \in Nat
  <2>1. Rest \in SUBSET RefsOf(h, i)
    BY <1>1
  <2> QED
    BY <2>1, RefsFinite, FS_Subset, FS_CardinalityType
<1>4. /\ IsFiniteSet(M(h[p])) /\ Cardinality(M(h[p])) = Count(h[p], i)
      /\ IsFiniteSet(M(k[p])) /\ Cardinality(M(k[p])) = Count(k[p], i)
  BY MineCount
<1>5. Cardinality({}) = 0
  BY FS_EmptySet
<1>6. Count(h[p], i) \in Nat /\ Count(k[p], i) \in Nat
  BY DEF Count, B
<1> HIDE DEF M, Rest
<1>7. Cardinality(RefsOf(h, i)) = Count(h[p], i) + Cardinality(Rest)
  BY <1>1, <1>3, <1>4, <1>5, <1>6, FS_Union
<1>8. Cardinality(RefsOf(k, i)) = Count(k[p], i) + Cardinality(Rest)
  BY <1>2, <1>3, <1>4, <1>5, <1>6, FS_Union
<1> QED
  BY <1>3, <1>6, <1>7, <1>8

\* One process, and two, hold at most as many references as there are.
LEMMA CountLeq ==
  ASSUME NEW p \in Procs, NEW q \in Procs, p # q, NEW h, NEW i
  PROVE  Count(h[p], i) + Count(h[q], i) <= Cardinality(RefsOf(h, i))
<1> DEFINE M(r) == MineOf(r, h[r], i)
<1>1. /\ IsFiniteSet(M(p)) /\ Cardinality(M(p)) = Count(h[p], i)
      /\ IsFiniteSet(M(q)) /\ Cardinality(M(q)) = Count(h[q], i)
  BY MineCount
<1>2. M(p) \cup M(q) \in SUBSET RefsOf(h, i) /\ M(p) \cap M(q) = {}
  BY DEF RefsOf, MineOf
<1>3. Cardinality({}) = 0
  BY FS_EmptySet
<1>4. Count(h[p], i) \in Nat /\ Count(h[q], i) \in Nat
  BY DEF Count, B
<1> HIDE DEF M
<1>5. Cardinality(M(p) \cup M(q)) = Count(h[p], i) + Count(h[q], i)
  <2>1. Cardinality(M(p) \cup M(q)) = Cardinality(M(p)) + Cardinality(M(q)) - Cardinality(M(p) \cap M(q))
    BY <1>1, FS_Union
  <2> QED
    BY <1>1, <1>2, <1>3, <1>4, <2>1
<1>6. Cardinality(M(p) \cup M(q)) <= Cardinality(RefsOf(h, i))
  BY <1>2, RefsFinite, FS_Subset
<1> QED
  BY <1>5, <1>6

LEMMA CountLeqOne ==
  ASSUME NEW p \in Procs, NEW h, NEW i
  PROVE  Count(h[p], i) <= Cardinality(RefsOf(h, i))
<1>1. Cardinality(MineOf(p, h[p], i)) = Count(h[p], i)
  BY MineCount
<1>2. MineOf(p, h[p], i) \in SUBSET RefsOf(h, i)
  BY DEF RefsOf, MineOf
<1> QED
  BY <1>1, <1>2, RefsFinite, FS_Subset

-----------------------------------------------------------------------------
(* Steps of one process.                                                   *)

\* Held and HasLocked of a process in the call o, with current directory c and
\* open file f.
HeldBy(o, c, f) ==
  [wp |-> o.wp, ip |-> o.ip, dp |-> o.dp,
   cwd |-> IF o.at = "chdir2" THEN 0 ELSE c, file |-> IF f = None THEN 0 ELSE f.ip,
   put |-> IF Len(o.puts) >= 1 THEN o.puts[Len(o.puts)] ELSE 0,
   put2 |-> IF Len(o.puts) >= 2 THEN o.puts[Len(o.puts) - 1] ELSE 0]
LockedBy(o, i) ==
  \/ o.at \in LocksDp /\ o.dp = i
  \/ o.at \in LocksIp /\ o.ip = i
  \/ o.iput = "trunc" /\ Head(o.puts) = i
Counts(o, c, f, i) == Count(HeldBy(o, c, f), i)

\* Places that hold nothing do not count.
FixedRefs(o, c, f, i) ==
  B(o.wp, i) + B(o.ip, i) + B(o.dp, i) + (IF o.at = "chdir2" THEN 0 ELSE B(c, i))
    + (IF f = None THEN 0 ELSE B(f.ip, i))

LEMMA CountsNoPut ==
  ASSUME NEW o, NEW c, NEW f, NEW i \in Inums, o.puts = <<>>
  PROVE  Counts(o, c, f, i) = FixedRefs(o, c, f, i)
<1>1. Len(o.puts) = 0 /\ 0 # i
  BY DEF Inums
<1> QED
  BY <1>1 DEF Counts, Count, HeldBy, FixedRefs, B

LEMMA CountsOnePut ==
  ASSUME NEW o, NEW c, NEW f, NEW i \in Inums, NEW x, o.puts = <<x>>
  PROVE  Counts(o, c, f, i) = FixedRefs(o, c, f, i) + B(x, i)
<1>1. Len(o.puts) = 1 /\ o.puts[1] = x /\ 0 # i
  BY DEF Inums
<1> QED
  BY <1>1 DEF Counts, Count, HeldBy, FixedRefs, B

LEMMA CountsTwoPuts ==
  ASSUME NEW o, NEW c, NEW f, NEW i \in Inums, NEW x, NEW y, o.puts = <<x, y>>
  PROVE  Counts(o, c, f, i) = FixedRefs(o, c, f, i) + B(x, i) + B(y, i)
<1>1. Len(o.puts) = 2 /\ o.puts[1] = x /\ o.puts[2] = y /\ 0 # i
  BY DEF Inums
<1> QED
  BY <1>1 DEF Counts, Count, HeldBy, FixedRefs, B

LEMMA CountsNat ==
  ASSUME NEW o, NEW c, NEW f, NEW i
  PROVE  Counts(o, c, f, i) \in Nat
BY DEF Counts, Count, B

\* References are counted by RefsOf, and are not negative.
LEMMA RefsAreCounts ==
  ASSUME RefsExact
  PROVE  LET H == [q \in Procs |-> HeldBy(op[q], cwd[q], ofile[q])] IN
         \A i \in Inums : /\ icache[i].ref = Cardinality(RefsOf(H, i)) /\ icache[i].ref \in Nat
                          /\ \A q \in Procs : H[q] = HeldBy(op[q], cwd[q], ofile[q])
<1> DEFINE H == [q \in Procs |-> HeldBy(op[q], cwd[q], ofile[q])]
<1>1. \A q \in Procs : Held(q) = H[q]
  BY DEF Held, HeldBy
<1>2. \A i \in Inums : Refs(i) = RefsOf(H, i)
  BY <1>1 DEF Refs, RefsOf
<1> QED
  BY <1>2, RefsFinite DEF RefsExact

\* A step of p keeps the invariant if the new call is a call, the references
\* change with what p holds, and the locks with what p has locked.
LEMMA Step ==
  ASSUME IInv, NEW p \in Procs, NEW N,
         program' = program, op' = [op EXCEPT ![p] = N], N \in Activation, Shape(N),
         dinode' \in [Inums -> Dinode], icache' \in Table,
         cwd' \in [Procs -> Inums], ofile' \in [Procs -> File \cup {None}],
         \A q \in Procs \ {p} : cwd'[q] = cwd[q] /\ ofile'[q] = ofile[q],
         \A i \in Inums : icache'[i].ref = icache[i].ref + Counts(N, cwd'[p], ofile'[p], i)
                                             - Counts(op[p], cwd[p], ofile[p], i),
         \A i \in Inums : icache'[i].lock = p <=> LockedBy(N, i),
         \A i \in Inums, q \in Procs \ {p} : icache'[i].lock = q <=> icache[i].lock = q,
         CopiesExact'
  PROVE  IInv'
<1>1. Typed /\ Shapes /\ RefsExact /\ LocksExact
  BY DEF IInv
<1>2. op'[p] = N /\ \A q \in Procs \ {p} : op'[q] = op[q]
  BY <1>1 DEF Typed
<1>3. Typed'
  <2>1. Dinode' = Dinode /\ Table' = Table /\ File' = File /\ Activation' = Activation
    BY DEF Dinode, Table, File, Activation, Inode, Inums, Types, Entry, Number, Dots, Stages, Kernel
  <2>2. op' \in [Procs -> Activation]
    BY <1>1 DEF Typed
  <2> QED
    BY <1>1, <2>1, <2>2 DEF Typed, Inums
<1>4. Shapes'
  <2>1. \A o : Shape(o)' <=> Shape(o)
    BY DEF Shape, Refers, Walks, StageOf, Args, Puts, Stage, HasIp, HasDp, LocksDp, LocksIp, Entry, Dots
  <2> QED
    BY <1>1, <1>2 DEF Shapes, Shape, Refers, Walks, StageOf, Args, Puts, Stage, HasIp, HasDp, LocksDp, LocksIp, Entry, Dots
<1>5. RefsExact'
  <2> DEFINE H == [q \in Procs |-> HeldBy(op[q], cwd[q], ofile[q])]
             K == [q \in Procs |-> HeldBy(op'[q], cwd'[q], ofile'[q])]
  <2>1. \A q \in Procs \ {p} : K[q] = H[q]
    BY <1>2 DEF HeldBy
  <2>2. \A i \in Inums : Cardinality(RefsOf(K, i)) = Cardinality(RefsOf(H, i)) + Count(K[p], i) - Count(H[p], i)
    BY <2>1, Recount
  <2>3. \A i \in Inums : icache[i].ref = Cardinality(RefsOf(H, i))
    BY <1>1, RefsAreCounts
  <2>4. K[p] = HeldBy(N, cwd'[p], ofile'[p]) /\ H[p] = HeldBy(op[p], cwd[p], ofile[p])
    BY <1>2
  <2>5. \A q \in Procs : Held(q)' = K[q]
    BY DEF Held, HeldBy
  <2>6. \A i \in Inums : Refs(i)' = RefsOf(K, i)
    BY <2>5 DEF Refs, RefsOf, Places
  <2> HIDE DEF H, K
  <2>7. \A i \in Inums : icache'[i].ref = Cardinality(Refs(i)')
    BY <2>2, <2>3, <2>4, <2>6 DEF Counts
  <2> QED
    BY <2>7 DEF RefsExact, Inums
<1>6. LocksExact'
  <2>1. \A i \in Inums, q \in Procs : HasLocked(q, i)' <=> LockedBy(op'[q], i)
    BY DEF HasLocked, LockedBy, LocksDp, LocksIp
  <2>2. \A i \in Inums, q \in Procs : HasLocked(q, i) <=> LockedBy(op[q], i)
    BY DEF HasLocked, LockedBy, LocksDp, LocksIp
  <2>3. \A i \in Inums : icache'[i].lock = p <=> HasLocked(p, i)'
    BY <1>2, <2>1
  <2>4. \A i \in Inums, q \in Procs \ {p} : icache'[i].lock = q <=> HasLocked(q, i)'
    BY <1>1, <1>2, <2>1, <2>2 DEF LocksExact
  <2> QED
    BY <2>3, <2>4 DEF LocksExact, Inums
<1> QED
  BY <1>3, <1>4, <1>5, <1>6 DEF IInv

-----------------------------------------------------------------------------
(* The table.                                                              *)

\* d is c with inode i locked, or unlocked, for l.
LockedAs(d, c, i, l) ==
  /\ d \in Table
  /\ \A j \in Inums :
       /\ d[j].ref = c[j].ref
       /\ d[j].lock = IF j = i THEN l ELSE c[j].lock
       /\ d[j].valid <=> c[j].valid \/ j = i
       /\ d[j].type = IF j = i /\ ~c[j].valid THEN dinode[j].type ELSE c[j].type
       /\ d[j].nlink = IF j = i /\ ~c[j].valid THEN dinode[j].nlink ELSE c[j].nlink
UnlockedAs(d, c, i) ==
  /\ d \in Table
  /\ \A j \in Inums : /\ d[j].ref = c[j].ref
                      /\ d[j].lock = IF j = i THEN None ELSE c[j].lock
                      /\ d[j].valid <=> c[j].valid
                      /\ d[j].type = c[j].type /\ d[j].nlink = c[j].nlink
\* d is c with one reference more to i.
GottenAs(d, c, i) ==
  /\ d \in Table
  /\ \A j \in Inums : /\ d[j].ref = c[j].ref + (IF j = i THEN 1 ELSE 0)
                      /\ d[j].lock = c[j].lock
                      /\ d[j].valid <=> c[j].valid /\ (j # i \/ c[j].ref > 0)
                      /\ d[j].type = c[j].type /\ d[j].nlink = c[j].nlink

LEMMA IlockTable ==
  ASSUME NEW c \in Table, NEW i \in Inums, NEW l \in Procs \cup {None}, dinode \in [Inums -> Dinode]
  PROVE  LockedAs(ilock(c, i, l), c, i, l)
<1>1. c[i] \in Inode /\ dinode[i].type \in Types /\ dinode[i].nlink \in Int
  BY DEF Table, Dinode
<1>2. CASE c[i].valid
  <2>1. ilock(c, i, l) = [c EXCEPT ![i] = [c[i] EXCEPT !.lock = l]]
    BY <1>2 DEF ilock, Table
  <2> QED
    BY <1>1, <1>2, <2>1 DEF LockedAs, Table, Inode
<1>3. CASE ~c[i].valid
  <2>1. ilock(c, i, l) = [c EXCEPT ![i] = [c[i] EXCEPT !.lock = l, !.valid = TRUE,
                                           !.type = dinode[i].type, !.nlink = dinode[i].nlink]]
    BY <1>3 DEF ilock, Table
  <2> DEFINE r == [c[i] EXCEPT !.lock = l, !.valid = TRUE, !.type = dinode[i].type, !.nlink = dinode[i].nlink]
  <2>2. /\ r \in Inode /\ r.ref = c[i].ref /\ r.lock = l /\ r.valid = TRUE
        /\ r.type = dinode[i].type /\ r.nlink = dinode[i].nlink
    BY <1>1 DEF Inode
  <2> HIDE DEF r
  <2>3. ilock(c, i, l) \in Table /\ \A j \in Inums : ilock(c, i, l)[j] = IF j = i THEN r ELSE c[j]
    BY <2>1, <2>2 DEF Table, r
  <2> QED
    BY <1>3, <2>2, <2>3 DEF LockedAs
<1> QED
  BY <1>2, <1>3

LEMMA IunlockTable ==
  ASSUME NEW c \in Table, NEW i \in Inums
  PROVE  UnlockedAs(iunlock(c, i), c, i)
BY DEF UnlockedAs, iunlock, Table, Inode

LEMMA VisitTable ==
  ASSUME NEW c \in Table, NEW i \in Inums, dinode \in [Inums -> Dinode]
  PROVE  LockedAs(Visit(c, i), c, i, None)
<1>1. LockedAs(ilock(c, i, None), c, i, None)
  BY IlockTable
<1>2. UnlockedAs(iunlock(ilock(c, i, None), i), ilock(c, i, None), i)
  BY <1>1, IunlockTable DEF LockedAs
<1> QED
  BY <1>1, <1>2 DEF Visit, LockedAs, UnlockedAs

LEMMA IgetTable ==
  ASSUME NEW c \in Table, NEW i \in Inums
  PROVE  GottenAs(iget(c, i), c, i)
<1>1. c[i] \in Inode /\ c[i].ref + 1 \in Int
  BY DEF Table, Inode
<1>v. PICK v \in BOOLEAN : v = (c[i].valid /\ c[i].ref > 0)
  BY Zenon
<1>n. PICK n \in Int : n = c[i].ref + 1
  BY <1>1
<1>x. PICK x \in Inode : x = c[i]
  BY <1>1
<1>2. PICK r : r = [x EXCEPT !.ref = n, !.valid = v]
  BY Zenon
<1>3. iget(c, i) = [c EXCEPT ![i] = r]
  BY <1>2, <1>v, <1>n, <1>x DEF iget, Table
<1>4. /\ r \in Inode /\ r.ref = c[i].ref + 1 /\ r.lock = c[i].lock
      /\ r.valid = v
      /\ r.type = c[i].type /\ r.nlink = c[i].nlink
  <2>1. r \in Inode /\ r.ref = n /\ r.lock = x.lock /\ r.valid = v /\ r.type = x.type /\ r.nlink = x.nlink
    BY <1>2 DEF Inode
  <2> QED
    BY <1>n, <1>x, <2>1
<1>5. iget(c, i) \in Table /\ \A j \in Inums : iget(c, i)[j] = IF j = i THEN r ELSE c[j]
  BY <1>3, <1>4 DEF Table
<1>6. r.valid <=> c[i].valid /\ c[i].ref > 0
  BY <1>4, <1>v, Zenon
<1>7. \A j \in Inums : c[j].ref + 0 = c[j].ref
  BY DEF Table, Inode
<1> QED
  BY <1>4, <1>5, <1>6, <1>7 DEF GottenAs

\* What p reads of an inode that it gets to lock.
LEMMA CopyIs ==
  ASSUME Typed, NEW i \in Inums
  PROVE  /\ Copy(i).type = IF icache[i].valid THEN icache[i].type ELSE dinode[i].type
         /\ Copy(i).nlink = IF icache[i].valid THEN icache[i].nlink ELSE dinode[i].nlink
         /\ Copy(i).type \in Types /\ Copy(i).nlink \in Int
<1>1. LockedAs(ilock(icache, i, None), icache, i, None)
  BY IlockTable DEF Typed
<1> QED
  BY <1>1 DEF LockedAs, Copy, Table, Inode

\* The copies stay exact when a process locks or unlocks an inode that is not free,
\* or gets a reference.
Exact(c, d) ==
  \A i \in Inums : c[i].valid /\ c[i].ref > 0 =>
    c[i].type = d[i].type /\ c[i].nlink = d[i].nlink /\ c[i].type # "free"

LEMMA ExactLocked ==
  ASSUME NEW c, NEW d, NEW i \in Inums, NEW l, LockedAs(d, c, i, l), Exact(c, dinode),
         c[i].valid \/ dinode[i].type # "free"
  PROVE  Exact(d, dinode)
BY DEF LockedAs, Exact

LEMMA ExactUnlocked ==
  ASSUME NEW c, NEW d, NEW i \in Inums, UnlockedAs(d, c, i), Exact(c, dinode)
  PROVE  Exact(d, dinode)
BY DEF UnlockedAs, Exact

LEMMA ExactGotten ==
  ASSUME NEW c \in Table, NEW d, NEW i \in Inums, GottenAs(d, c, i), Exact(c, dinode)
  PROVE  Exact(d, dinode)
BY DEF GottenAs, Exact, Table, Inode

-----------------------------------------------------------------------------
(* Calls.                                                                  *)

\* A few values that steps assign.
LEMMA Values ==
  /\ 0 \in Number /\ Inums \subseteq Number /\ 0 \notin Inums
  /\ <<>> \in Seq(Entry) /\ <<>> \in Seq(Inums)
  /\ \A x \in Inums : <<x>> \in Seq(Inums) /\ Len(<<x>>) = 1 /\ <<x>> # <<>>
  /\ Idle \in Activation
BY DEF Number, Inums, Activation, Stages, Idle, Kernel

\* What the invariant says where p is.
LEMMA Here ==
  ASSUME IInv, NEW p \in Procs
  PROVE  /\ op[p] \in Activation /\ Shape(op[p])
         /\ icache \in Table /\ dinode \in [Inums -> Dinode] /\ Exact(icache, dinode)
         /\ cwd \in [Procs -> Inums] /\ ofile \in [Procs -> File \cup {None}]
         /\ \A i \in Inums : icache[i].ref \in Nat
         /\ \A i \in Inums, q \in Procs : icache[i].lock = q <=> LockedBy(op[q], i)
<1>1. \A i \in Inums : icache[i].ref \in Nat
  BY RefsAreCounts DEF IInv
<1>2. \A i \in Inums, q \in Procs : icache[i].lock = q <=> LockedBy(op[q], i)
  BY DEF IInv, LocksExact, HasLocked, LockedBy
<1>3. Exact(icache, dinode)
  BY DEF IInv, CopiesExact, Exact
<1> QED
  BY <1>1, <1>2, <1>3 DEF IInv, Typed, Shapes

\* A process that gets the lock it waits for.
LEMMA Gets ==
  ASSUME IInv, NEW p \in Procs, NEW w, Locks(p, w)
  PROVE  /\ op[p].at = w /\ op[p].puts = <<>> /\ op[p].iput = "check"
         /\ Wants(p) \in Inums /\ icache[Wants(p)].lock = None
         /\ icache[Wants(p)].valid \/ dinode[Wants(p)].type # "free"
         /\ Wants(p) = IF w = "walk" THEN op[p].wp
                       ELSE IF w \in {"create", "unlink1", "link2"} THEN op[p].dp ELSE op[p].ip
<1>1. op[p] \in Activation /\ Shape(op[p])
  BY Here
<1>2. op[p].at = w /\ op[p].puts = <<>> /\ Wants(p) # 0 /\ icache[Wants(p)].lock = None /\ ~Panics(p)
  BY DEF Locks, Is
<1>3. Wants(p) \in Inums
  BY <1>1, <1>2 DEF Wants, Activation, Number
<1>4. Wants(p) = IF w = "walk" THEN op[p].wp
                 ELSE IF w \in {"create", "unlink1", "link2"} THEN op[p].dp ELSE op[p].ip
  BY <1>2 DEF Wants
<1> QED
  BY <1>1, <1>2, <1>3, <1>4 DEF Panics, Shape, Puts

\* A call about to walk: the path may be used up.
OnWalk(o) ==
  /\ o \in Activation /\ o.at = "walk" /\ o.wp \in Inums /\ o.dp = 0
  /\ o.ip # 0 <=> o.then = "link2"
  /\ IF o.parent THEN o.then \in {"link2", "unlink1", "create"}
                 ELSE o.then \in {"link1", "open", "follow2", "chdir"}
  /\ StageOf(o) /\ Args(o)
  /\ Len(o.puts) <= 1 /\ o.iput = "check"

LEMMA ShapeOnWalk ==
  ASSUME NEW o \in Activation, Shape(o), o.at = "walk", o.puts = <<>>
  PROVE  OnWalk(o)
<1>1. o.dp = 0 /\ o.wp # 0 /\ (o.ip # 0 <=> o.then = "link2")
  BY DEF Shape, Refers, HasIp, HasDp
<1>2. o.wp \in Inums
  BY <1>1 DEF Activation, Number
<1> QED
  BY <1>1, <1>2 DEF Shape, OnWalk, Walks, Puts

LEMMA PutsShape ==
  ASSUME NEW N, N.iput = "check", N.puts = <<>> \/ (\E x : N.puts = <<x>>) \/ (\E x, y : N.puts = <<x, y>>)
  PROVE  Puts(N)
<1>1. Len(N.puts) <= 2
  <2>1. CASE N.puts = <<>>
    BY <2>1
  <2>2. ASSUME NEW x, N.puts = <<x>> PROVE Len(N.puts) <= 2
    BY <2>2
  <2>3. ASSUME NEW x, NEW y, N.puts = <<x, y>> PROVE Len(N.puts) <= 2
    BY <2>3
  <2> QED
    BY <2>1, <2>2, <2>3
<1> QED
  BY <1>1 DEF Puts

LEMMA NotFoundShape ==
  ASSUME NEW o, OnWalk(o), o.puts = <<>>, NEW N, N = NotFound(o, <<o.wp>>)
  PROVE  /\ N \in Activation /\ Shape(N)
         /\ \A c, f : \A i \in Inums : Counts(N, c, f, i) = Counts(o, c, f, i)
         /\ \A i \in Inums : ~LockedBy(N, i)
<1>0. /\ o.wp \in Inums /\ <<o.wp>> \in Seq(Inums) /\ Len(<<o.wp>>) = 1 /\ <<o.wp>> # <<>> /\ o \in Activation
      /\ <<>> \in Seq(Entry)
  BY DEF OnWalk
<1>1. CASE o.call = "link" /\ o.ip # 0
  <2>1. N = [o EXCEPT !.at = "linkbad", !.wp = 0, !.rest = <<>>, !.puts = <<o.wp>>]
    BY <1>1 DEF NotFound
  <2>2. N \in Activation
    <3>1. "linkbad" \in Stages /\ 0 \in Number
      BY Values DEF Stages
    <3> QED
      BY <1>0, <2>1, <3>1, ZenonT(60) DEF Activation
  <2>3. /\ N.at = "linkbad" /\ N.wp = 0 /\ N.puts = <<o.wp>> /\ N.ip = o.ip /\ N.dp = 0 /\ N.iput = "check"
        /\ N.call = "link" /\ N.arg = o.arg /\ N.path = o.path
    BY <1>0, <1>1, <2>1 DEF Activation, OnWalk
  <2>4. Shape(N)
    <3>1. Refers(N) /\ Walks(N)
      BY <1>1, <2>3 DEF Refers, Walks, HasIp, HasDp
    <3>2. StageOf(N)
      BY <2>3 DEF StageOf, Stage
    <3>3. Args(N)
      BY <1>1, <2>3 DEF Args, OnWalk, HasDp
    <3>4. Puts(N)
      BY <2>3, PutsShape
    <3> QED
      BY <3>1, <3>2, <3>3, <3>4 DEF Shape
  <2>5. \A c, f : \A i \in Inums : Counts(N, c, f, i) = Counts(o, c, f, i)
    <3> SUFFICES ASSUME NEW c, NEW f, NEW i \in Inums PROVE Counts(N, c, f, i) = Counts(o, c, f, i)
      OBVIOUS
    <3>1. Counts(N, c, f, i) = FixedRefs(N, c, f, i) + B(o.wp, i) /\ Counts(o, c, f, i) = FixedRefs(o, c, f, i)
      BY <2>3, CountsOnePut, CountsNoPut
    <3> QED
      BY <2>3, <3>1 DEF FixedRefs, B, OnWalk, Inums
  <2> QED
    BY <2>2, <2>3, <2>4, <2>5 DEF LockedBy, LocksDp, LocksIp
<1>2. CASE ~(o.call = "link" /\ o.ip # 0)
  <2>1. N = [Idle EXCEPT !.puts = <<o.wp>>]
    BY <1>2 DEF NotFound
  <2>2. N \in Activation
    BY <1>0, <2>1, Values DEF Activation
  <2>3. /\ N.at = "user" /\ N.wp = 0 /\ N.puts = <<o.wp>> /\ N.ip = 0 /\ N.dp = 0 /\ N.iput = "check"
        /\ N.call = None
    BY <1>0, <2>1, Values DEF Idle, Activation
  <2>4. o.ip = 0 /\ o.dp = 0 /\ o.at = "walk"
    BY <1>2 DEF OnWalk, StageOf, Stage
  <2>5. Shape(N)
    <3>1. Refers(N) /\ Walks(N)
      BY <2>3 DEF Refers, Walks, HasIp, HasDp
    <3>2. StageOf(N)
      BY <2>3, NoneAssumption DEF StageOf, Stage
    <3>3. Args(N)
      BY <2>3, NoneAssumption DEF Args, HasDp
    <3>4. Puts(N)
      BY <2>3, PutsShape
    <3> QED
      BY <3>1, <3>2, <3>3, <3>4 DEF Shape
  <2>6. \A c, f : \A i \in Inums : Counts(N, c, f, i) = Counts(o, c, f, i)
    <3> SUFFICES ASSUME NEW c, NEW f, NEW i \in Inums PROVE Counts(N, c, f, i) = Counts(o, c, f, i)
      OBVIOUS
    <3>1. Counts(N, c, f, i) = FixedRefs(N, c, f, i) + B(o.wp, i) /\ Counts(o, c, f, i) = FixedRefs(o, c, f, i)
      BY <2>3, CountsOnePut, CountsNoPut
    <3> QED
      BY <2>3, <2>4, <3>1 DEF FixedRefs, B, Inums
  <2> QED
    BY <2>2, <2>3, <2>5, <2>6 DEF LockedBy, LocksDp, LocksIp
<1> QED
  BY <1>1, <1>2

\* The call starts a walk, goes on with it, or has its inode.
LEMMA ArrivedShape ==
  ASSUME NEW o, OnWalk(o), o.parent /\ o.rest = <<>> => o.puts = <<>>, NEW N, N = Arrived(o)
  PROVE  /\ N \in Activation /\ Shape(N)
         /\ \A c, f : \A i \in Inums : Counts(N, c, f, i) = Counts(o, c, f, i)
         /\ \A i \in Inums : ~LockedBy(N, i)
<1>0. o \in Activation /\ o.at = "walk" /\ o.iput = "check" /\ Len(o.puts) <= 1
  BY DEF OnWalk
<1>1. CASE o.rest # <<>>
  <2>1. N = o
    BY <1>1 DEF Arrived
  <2>2. Refers(o) /\ Walks(o)
    BY <1>1, Values DEF OnWalk, Refers, Walks, HasIp, HasDp
  <2>3. Puts(o)
    BY <1>0 DEF Puts
  <2>4. Shape(o)
    BY <2>2, <2>3 DEF OnWalk, Shape
  <2> QED
    BY <1>0, <2>1, <2>4 DEF LockedBy, LocksDp, LocksIp
<1>2. CASE o.rest = <<>> /\ o.parent
  <2>1. N = NotFound(o, <<o.wp>>)
    BY <1>2 DEF Arrived
  <2> QED
    BY <1>2, <2>1, NotFoundShape
<1>3. CASE o.rest = <<>> /\ ~o.parent
  <2>1. N = [o EXCEPT !.at = o.then, !.ip = o.wp, !.wp = 0]
    BY <1>3 DEF Arrived
  <2>2. o.then \in {"link1", "open", "follow2", "chdir"} /\ o.wp \in Inums /\ o.wp # 0 /\ o.dp = 0 /\ o.ip = 0
    BY <1>3, Values DEF OnWalk
  <2>3. N \in Activation
    <3>1. o.then \in Stages /\ o.wp \in Number
      BY <2>2, Values DEF Stages
    <3> QED
      BY <1>0, <2>1, <3>1, Values DEF Activation
  <2>4. /\ N.at = o.then /\ N.wp = 0 /\ N.ip = o.wp /\ N.dp = 0 /\ N.puts = o.puts /\ N.iput = "check"
        /\ N.call = o.call /\ N.arg = o.arg /\ N.path = o.path
    BY <1>0, <2>1, <2>2 DEF Activation
  <2>5. Refers(N) /\ Walks(N)
    BY <2>2, <2>4 DEF Refers, Walks, HasIp, HasDp
  <2>6. StageOf(N)
    <3>1. StageOf(o) /\ Stage(o) = o.then /\ Stage(N) = o.then
      BY <1>0, <2>2, <2>4 DEF OnWalk, Stage
    <3> QED
      BY <2>4, <3>1 DEF StageOf
  <2>7. Args(N)
    BY <2>2, <2>4 DEF OnWalk, Args, HasDp
  <2>8. Puts(N)
    BY <1>0, <2>4 DEF Puts
  <2>9. \A c, f : \A i \in Inums : Counts(N, c, f, i) = Counts(o, c, f, i)
    <3> SUFFICES ASSUME NEW c, NEW f, NEW i \in Inums PROVE Counts(N, c, f, i) = Counts(o, c, f, i)
      OBVIOUS
    <3>1. N.at # "chdir2" /\ o.at # "chdir2" /\ i # 0
      BY <1>0, <2>2, <2>4, Values
    <3> QED
      BY <2>2, <2>4, <3>1 DEF Counts, Count, HeldBy, B
  <2> QED
    BY <2>2, <2>3, <2>4, <2>5, <2>6, <2>7, <2>8, <2>9 DEF Shape, LockedBy, LocksDp, LocksIp
<1> QED
  BY <1>1, <1>2, <1>3

\* The call is over but for its iputs.
Ended(s) == [Idle EXCEPT !.puts = s]

LEMMA ReturnShape ==
  ASSUME NEW s \in Seq(Inums), s = <<>> \/ (\E x : s = <<x>>) \/ (\E x, y : s = <<x, y>>),
         NEW N, N = Ended(s)
  PROVE  /\ N \in Activation /\ Shape(N)
         /\ N.at = "user" /\ N.wp = 0 /\ N.ip = 0 /\ N.dp = 0 /\ N.puts = s /\ N.iput = "check"
         /\ \A i \in Inums : ~LockedBy(N, i)
<1>1. N \in Activation
  BY Values DEF Activation, Ended
<1>2. N.at = "user" /\ N.wp = 0 /\ N.ip = 0 /\ N.dp = 0 /\ N.puts = s /\ N.iput = "check" /\ N.call = None
  BY DEF Idle, Ended
<1>3. Refers(N) /\ Walks(N)
  BY <1>2 DEF Refers, Walks, HasIp, HasDp
<1>4. StageOf(N)
  BY <1>2, NoneAssumption DEF StageOf, Stage
<1>5. Args(N)
  BY <1>2, NoneAssumption DEF Args, HasDp
<1>6. Puts(N)
  BY <1>2, PutsShape
<1> QED
  BY <1>1, <1>2, <1>3, <1>4, <1>5, <1>6 DEF Shape, LockedBy, LocksDp, LocksIp

-----------------------------------------------------------------------------
(* Steps that leave the disk alone: e is the inode that p gets, 0 if none.  *)

Refd(N, p, e) ==
  \A j \in Inums : Counts(N, cwd[p], ofile[p], j) = Counts(op[p], cwd[p], ofile[p], j) + B(e, j)

LEMMA StepSame ==
  ASSUME IInv, NEW p \in Procs, NEW N \in Activation, Shape(N),
         NEW C \in Table, Exact(C, dinode), \A j \in Inums : C[j].ref = icache[j].ref,
         NEW e \in Number, icache' = IF e = 0 THEN C ELSE iget(C, e), Refd(N, p, e),
         \A j \in Inums : C[j].lock = p <=> LockedBy(N, j),
         \A j \in Inums, q \in Procs \ {p} : C[j].lock = q <=> icache[j].lock = q,
         op' = [op EXCEPT ![p] = N], program' = program, dinode' = dinode, cwd' = cwd, ofile' = ofile
  PROVE  IInv'
<1>1. /\ icache \in Table /\ dinode \in [Inums -> Dinode]
      /\ cwd \in [Procs -> Inums] /\ ofile \in [Procs -> File \cup {None}]
      /\ \A j \in Inums : icache[j].ref \in Nat
  BY Here
<1>2. /\ icache' \in Table /\ Exact(icache', dinode)
      /\ \A j \in Inums : icache'[j].ref = icache[j].ref + B(e, j) /\ icache'[j].lock = C[j].lock
  <2>1. CASE e = 0
    BY <1>1, <2>1, Values DEF B
  <2>2. CASE e # 0
    <3>1. e \in Inums /\ icache' = iget(C, e)
      BY <2>2 DEF Number
    <3>2. GottenAs(icache', C, e)
      BY <3>1, IgetTable
    <3>3. Exact(icache', dinode)
      BY <3>1, <3>2, ExactGotten
    <3> QED
      BY <3>2, <3>3 DEF GottenAs, B
  <2> QED
    BY <2>1, <2>2
<1>3. CopiesExact'
  BY <1>2 DEF CopiesExact, Exact, Inums
<1>4. \A j \in Inums : icache'[j].ref = icache[j].ref + Counts(N, cwd'[p], ofile'[p], j) - Counts(op[p], cwd[p], ofile[p], j)
  <2> SUFFICES ASSUME NEW j \in Inums
               PROVE  icache'[j].ref = icache[j].ref + Counts(N, cwd'[p], ofile'[p], j) - Counts(op[p], cwd[p], ofile[p], j)
    OBVIOUS
  <2>1. Counts(op[p], cwd[p], ofile[p], j) \in Nat /\ B(e, j) \in Nat
    BY CountsNat DEF B
  <2>2. Counts(N, cwd'[p], ofile'[p], j) = Counts(op[p], cwd[p], ofile[p], j) + B(e, j)
    BY DEF Refd
  <2> QED
    BY <1>1, <1>2, <2>1, <2>2
<1>5. /\ \A j \in Inums : icache'[j].lock = p <=> LockedBy(N, j)
      /\ \A j \in Inums, q \in Procs \ {p} : icache'[j].lock = q <=> icache[j].lock = q
  BY <1>2
<1>6. /\ dinode' \in [Inums -> Dinode] /\ cwd' \in [Procs -> Inums] /\ ofile' \in [Procs -> File \cup {None}]
      /\ \A q \in Procs \ {p} : cwd'[q] = cwd[q] /\ ofile'[q] = ofile[q]
  BY <1>1
<1> QED
  BY <1>2, <1>3, <1>4, <1>5, <1>6, Step

\* p takes and drops the lock of an inode in one step ...
LEMMA StepVisit ==
  ASSUME IInv, NEW p \in Procs, NEW N \in Activation, Shape(N),
         NEW i \in Inums, icache[i].lock = None, icache[i].valid \/ dinode[i].type # "free",
         NEW e \in Number, icache' = IF e = 0 THEN Visit(icache, i) ELSE iget(Visit(icache, i), e), Refd(N, p, e),
         \A j \in Inums : LockedBy(N, j) <=> LockedBy(op[p], j),
         op' = [op EXCEPT ![p] = N], program' = program, dinode' = dinode, cwd' = cwd, ofile' = ofile
  PROVE  IInv'
<1>1. /\ icache \in Table /\ dinode \in [Inums -> Dinode] /\ Exact(icache, dinode)
      /\ \A j \in Inums : icache[j].lock = p <=> LockedBy(op[p], j)
  BY Here
<1> DEFINE C == Visit(icache, i)
<1>2. LockedAs(C, icache, i, None)
  BY <1>1, VisitTable
<1> HIDE DEF C
<1>3. Exact(C, dinode)
  BY <1>1, <1>2, ExactLocked
<1>4. C \in Table /\ \A j \in Inums : C[j].ref = icache[j].ref
  BY <1>2 DEF LockedAs
<1>5. \A j \in Inums : C[j].lock = icache[j].lock
  BY <1>2 DEF LockedAs
<1>6. \A j \in Inums : C[j].lock = p <=> LockedBy(N, j)
  BY <1>1, <1>5
<1>7. \A j \in Inums, q \in Procs \ {p} : C[j].lock = q <=> icache[j].lock = q
  BY <1>5
<1>8. icache' = IF e = 0 THEN C ELSE iget(C, e)
  BY DEF C
<1> QED
  BY <1>3, <1>4, <1>6, <1>7, <1>8, StepSame

\* ... takes and keeps it ...
Takes(N, p, i) == \A j \in Inums : LockedBy(N, j) <=> LockedBy(op[p], j) \/ j = i

LEMMA StepLock ==
  ASSUME IInv, NEW p \in Procs, NEW N \in Activation, Shape(N),
         NEW i \in Inums, icache[i].lock = None, icache[i].valid \/ dinode[i].type # "free",
         NEW e \in Number, icache' = IF e = 0 THEN ilock(icache, i, p) ELSE iget(ilock(icache, i, p), e), Refd(N, p, e),
         Takes(N, p, i),
         op' = [op EXCEPT ![p] = N], program' = program, dinode' = dinode, cwd' = cwd, ofile' = ofile
  PROVE  IInv'
<1>1. /\ icache \in Table /\ dinode \in [Inums -> Dinode] /\ Exact(icache, dinode)
      /\ \A j \in Inums : icache[j].lock = p <=> LockedBy(op[p], j)
  BY Here
<1> DEFINE C == ilock(icache, i, p)
<1>2. LockedAs(C, icache, i, p)
  BY <1>1, IlockTable
<1> HIDE DEF C
<1>3. Exact(C, dinode)
  BY <1>1, <1>2, ExactLocked
<1>4. C \in Table /\ \A j \in Inums : C[j].ref = icache[j].ref
  BY <1>2 DEF LockedAs
<1>5. \A j \in Inums : C[j].lock = IF j = i THEN p ELSE icache[j].lock
  BY <1>2 DEF LockedAs
<1>6. \A j \in Inums : C[j].lock = p <=> LockedBy(N, j)
  BY <1>1, <1>5 DEF Takes
<1>7. \A j \in Inums, q \in Procs \ {p} : C[j].lock = q <=> icache[j].lock = q
  BY <1>5, NoneAssumption
<1>8. icache' = IF e = 0 THEN C ELSE iget(C, e)
  BY DEF C
<1> QED
  BY <1>3, <1>4, <1>6, <1>7, <1>8, StepSame

\* ... or drops it.
LEMMA StepUnlock ==
  ASSUME IInv, NEW p \in Procs, NEW N \in Activation, Shape(N),
         NEW i \in Inums, LockedBy(op[p], i), icache' = iunlock(icache, i), Refd(N, p, 0),
         \A j \in Inums : LockedBy(N, j) <=> LockedBy(op[p], j) /\ j # i,
         op' = [op EXCEPT ![p] = N], program' = program, dinode' = dinode, cwd' = cwd, ofile' = ofile
  PROVE  IInv'
<1>1. /\ icache \in Table /\ dinode \in [Inums -> Dinode] /\ Exact(icache, dinode)
      /\ \A j \in Inums : icache[j].lock = p <=> LockedBy(op[p], j)
  BY Here
<1> DEFINE C == iunlock(icache, i)
<1>2. UnlockedAs(C, icache, i)
  BY <1>1, IunlockTable
<1> HIDE DEF C
<1>3. Exact(C, dinode)
  BY <1>1, <1>2, ExactUnlocked
<1>4. C \in Table /\ \A j \in Inums : C[j].ref = icache[j].ref
  BY <1>2 DEF UnlockedAs
<1>5. \A j \in Inums : C[j].lock = IF j = i THEN None ELSE icache[j].lock
  BY <1>2 DEF UnlockedAs
<1>6. \A j \in Inums : C[j].lock = p <=> LockedBy(N, j)
  BY <1>1, <1>5, NoneAssumption
<1>7. \A j \in Inums, q \in Procs \ {p} : C[j].lock = q <=> icache[j].lock = q
  BY <1>1, <1>5, NoneAssumption
<1>8. icache' = IF 0 = 0 THEN C ELSE iget(C, 0)
  BY DEF C
<1> QED
  BY <1>3, <1>4, <1>6, <1>7, <1>8, Values, StepSame, ZenonT(60)

\* A reference without a lock.
LEMMA StepGet ==
  ASSUME IInv, NEW p \in Procs, NEW N \in Activation, Shape(N),
         NEW e \in Number, icache' = IF e = 0 THEN icache ELSE iget(icache, e), Refd(N, p, e),
         \A j \in Inums : LockedBy(N, j) <=> LockedBy(op[p], j),
         op' = [op EXCEPT ![p] = N], program' = program, dinode' = dinode, cwd' = cwd, ofile' = ofile
  PROVE  IInv'
<1>1. /\ icache \in Table /\ Exact(icache, dinode)
      /\ \A j \in Inums : icache[j].lock = p <=> LockedBy(op[p], j)
  BY Here
<1>2. \A j \in Inums : icache[j].lock = p <=> LockedBy(N, j)
  BY <1>1
<1> QED
  BY <1>1, <1>2, StepSame

-----------------------------------------------------------------------------
(* Paths.                                                                  *)

\* An entry of a directory is the number of an inode, or 0.
LEMMA EntryNumber ==
  ASSUME IInv, NEW i \in Inums, NEW n \in Entry
  PROVE  dinode[i].ents[n] \in Number
BY DEF IInv, Typed, Dinode

\* A call that is not at a place with a lock has none.
LEMMA NoLock ==
  ASSUME NEW o, o.at \notin LocksDp, o.at \notin LocksIp, o.iput # "trunc", NEW i
  PROVE  ~LockedBy(o, i)
BY DEF LockedBy

LEMMA namexInv ==
  ASSUME IInv, NEW p \in Procs, namex(p)
  PROVE  IInv'
<1> DEFINE o == op[p]  i == o.wp  e == dinode[i].ents[Head(o.rest)]
           w == [o EXCEPT !.wp = e, !.rest = Tail(@), !.puts = <<i>>]
           N == Arrived(w)
<1>1. /\ Locks(p, "walk") /\ ~(o.parent /\ Len(o.rest) = 1) /\ e # 0
      /\ icache' = iget(Visit(icache, i), e) /\ op' = [op EXCEPT ![p] = N]
      /\ program' = program /\ dinode' = dinode /\ cwd' = cwd /\ ofile' = ofile
  BY DEF namex, Become
<1>2. /\ o.at = "walk" /\ o.puts = <<>> /\ o.iput = "check" /\ i \in Inums /\ icache[i].lock = None
      /\ icache[i].valid \/ dinode[i].type # "free"
  BY <1>1, Gets
<1>3. o \in Activation /\ Shape(o)
  BY Here
<1>4. OnWalk(o)
  BY <1>2, <1>3, ShapeOnWalk
<1>5. o.rest \in Seq(Entry) /\ o.rest # <<>> /\ Head(o.rest) \in Entry /\ Tail(o.rest) \in Seq(Entry)
      /\ (o.parent => Tail(o.rest) # <<>>)
  <2>1. o.rest \in Seq(Entry) /\ o.rest # <<>>
    BY <1>2, <1>3 DEF Activation, Shape, Walks
  <2>2. Len(o.rest) \in Nat /\ Len(o.rest) > 0 /\ Len(Tail(o.rest)) = Len(o.rest) - 1
    BY <2>1, LenProperties, HeadTailProperties, EmptySeq
  <2>3. Head(o.rest) \in Entry /\ Tail(o.rest) \in Seq(Entry)
    BY <2>1, HeadTailProperties
  <2>4. o.parent => Len(Tail(o.rest)) # Len(<<>>)
    BY <1>1, <2>2
  <2>5. o.parent => Tail(o.rest) # <<>>
    BY <2>4
  <2> QED
    BY <2>1, <2>3, <2>5
<1>6. e \in Number /\ e \in Inums
  BY <1>1, <1>2, <1>5, EntryNumber DEF Number
<1>7. w \in Activation
  BY <1>2, <1>3, <1>5, <1>6, Values, ZenonT(60) DEF Activation
<1>8. /\ w.at = "walk" /\ w.wp = e /\ w.ip = o.ip /\ w.dp = o.dp /\ w.rest = Tail(o.rest) /\ w.puts = <<i>>
      /\ w.parent = o.parent /\ w.then = o.then /\ w.call = o.call /\ w.arg = o.arg /\ w.path = o.path
      /\ w.iput = "check"
  BY <1>2, <1>3 DEF Activation
<1> HIDE DEF w
<1>9. OnWalk(w)
  <2>1. StageOf(w) /\ Args(w)
    BY <1>2, <1>4, <1>8 DEF OnWalk, StageOf, Stage, Args, HasDp
  <2>2. Len(w.puts) <= 1
    BY <1>8
  <2> QED
    BY <1>4, <1>6, <1>7, <1>8, <2>1, <2>2 DEF OnWalk
<1>10. /\ N \in Activation /\ Shape(N)
       /\ \A c, f : \A j \in Inums : Counts(N, c, f, j) = Counts(w, c, f, j)
       /\ \A j \in Inums : ~LockedBy(N, j)
  BY <1>5, <1>8, <1>9, ArrivedShape
<1> HIDE DEF N
<1>11. Refd(N, p, e)
  <2> SUFFICES ASSUME NEW j \in Inums
               PROVE  Counts(N, cwd[p], ofile[p], j) = Counts(o, cwd[p], ofile[p], j) + B(e, j)
    BY DEF Refd
  <2>1. /\ Counts(N, cwd[p], ofile[p], j) = FixedRefs(w, cwd[p], ofile[p], j) + B(i, j)
        /\ Counts(o, cwd[p], ofile[p], j) = FixedRefs(o, cwd[p], ofile[p], j)
    BY <1>2, <1>8, <1>10, CountsOnePut, CountsNoPut
  <2> QED
    BY <1>2, <1>8, <2>1 DEF FixedRefs, B
<1>12. \A j \in Inums : LockedBy(N, j) <=> LockedBy(o, j)
  BY <1>2, <1>10, NoLock DEF LocksDp, LocksIp
<1>13. icache' = IF e = 0 THEN Visit(icache, i) ELSE iget(Visit(icache, i), e)
  BY <1>1
<1> HIDE DEF i, e
<1> QED
  BY <1>1, <1>2, <1>6, <1>10, <1>11, <1>12, <1>13, StepVisit

LEMMA namexFailsInv ==
  ASSUME IInv, NEW p \in Procs, namexFails(p)
  PROVE  IInv'
<1> DEFINE o == op[p]  i == o.wp  N == NotFound(o, <<i>>)
<1>1. /\ Locks(p, "walk")
      /\ icache' = Visit(icache, i) /\ op' = [op EXCEPT ![p] = N]
      /\ program' = program /\ dinode' = dinode /\ cwd' = cwd /\ ofile' = ofile
  BY DEF namexFails, Become
<1>2. /\ o.at = "walk" /\ o.puts = <<>> /\ o.iput = "check" /\ i \in Inums /\ icache[i].lock = None
      /\ icache[i].valid \/ dinode[i].type # "free"
  BY <1>1, Gets
<1>3. o \in Activation /\ Shape(o)
  BY Here
<1>4. OnWalk(o)
  BY <1>2, <1>3, ShapeOnWalk
<1>5. /\ N \in Activation /\ Shape(N)
      /\ \A c, f : \A j \in Inums : Counts(N, c, f, j) = Counts(o, c, f, j)
      /\ \A j \in Inums : ~LockedBy(N, j)
  BY <1>2, <1>4, NotFoundShape
<1> HIDE DEF N
<1>6. Refd(N, p, 0)
  BY <1>5, CountsNat, Values DEF Refd, B
<1>7. \A j \in Inums : LockedBy(N, j) <=> LockedBy(o, j)
  BY <1>2, <1>5, NoLock DEF LocksDp, LocksIp
<1>8. icache' = IF 0 = 0 THEN Visit(icache, i) ELSE iget(Visit(icache, i), 0)
  BY <1>1
<1> HIDE DEF i
<1> QED
  BY <1>1, <1>2, <1>5, <1>6, <1>7, <1>8, Values, StepVisit

LEMMA nameiparentInv ==
  ASSUME IInv, NEW p \in Procs, nameiparent(p)
  PROVE  IInv'
<1> DEFINE o == op[p]  i == o.wp
           N == [o EXCEPT !.at = o.then, !.wp = 0, !.dp = i, !.name = Head(o.rest), !.rest = <<>>]
<1>1. /\ Locks(p, "walk") /\ o.parent
      /\ icache' = Visit(icache, i) /\ op' = [op EXCEPT ![p] = N]
      /\ program' = program /\ dinode' = dinode /\ cwd' = cwd /\ ofile' = ofile
  BY DEF nameiparent, Become
<1>2. /\ o.at = "walk" /\ o.puts = <<>> /\ o.iput = "check" /\ i \in Inums /\ icache[i].lock = None
      /\ icache[i].valid \/ dinode[i].type # "free"
  BY <1>1, Gets
<1>3. o \in Activation /\ Shape(o)
  BY Here
<1>4. /\ o.then \in {"link2", "unlink1", "create"} /\ o.dp = 0 /\ (o.ip # 0 <=> o.then = "link2")
      /\ Head(o.rest) \in Entry /\ StageOf(o) /\ Args(o)
  <2>1. o.rest \in Seq(Entry) /\ o.rest # <<>>
    BY <1>2, <1>3 DEF Activation, Shape, Walks
  <2>2. Head(o.rest) \in Entry
    BY <2>1, HeadTailProperties
  <2> QED
    BY <1>1, <1>2, <1>3, <2>2, ShapeOnWalk DEF OnWalk
<1>5. N \in Activation
  <2>1. o.then \in Stages /\ i \in Number /\ Head(o.rest) \in Entry \cup {None}
    BY <1>2, <1>4, Values DEF Stages
  <2> QED
    BY <1>3, <2>1, Values DEF Activation
<1>6. /\ N.at = o.then /\ N.wp = 0 /\ N.ip = o.ip /\ N.dp = i /\ N.name = Head(o.rest) /\ N.puts = <<>>
      /\ N.call = o.call /\ N.arg = o.arg /\ N.path = o.path /\ N.iput = "check"
  BY <1>2, <1>3 DEF Activation
<1> HIDE DEF N
<1>7. Shape(N)
  <2>1. Refers(N)
    BY <1>2, <1>4, <1>6, Values DEF Refers, HasIp, HasDp
  <2>2. Walks(N)
    BY <1>4, <1>6 DEF Walks
  <2>3. StageOf(N)
    BY <1>2, <1>4, <1>6 DEF StageOf, Stage
  <2>4. Args(N)
    BY <1>4, <1>6 DEF Args
  <2>5. Puts(N)
    BY <1>6, PutsShape
  <2> QED
    BY <2>1, <2>2, <2>3, <2>4, <2>5 DEF Shape
<1>8. Refd(N, p, 0)
  <2> SUFFICES ASSUME NEW j \in Inums
               PROVE  Counts(N, cwd[p], ofile[p], j) = Counts(o, cwd[p], ofile[p], j) + B(0, j)
    BY DEF Refd
  <2>1. /\ Counts(N, cwd[p], ofile[p], j) = FixedRefs(N, cwd[p], ofile[p], j)
        /\ Counts(o, cwd[p], ofile[p], j) = FixedRefs(o, cwd[p], ofile[p], j)
    BY <1>2, <1>6, CountsNoPut
  <2> QED
    BY <1>2, <1>4, <1>6, <2>1, Values DEF FixedRefs, B
<1>9. \A j \in Inums : LockedBy(N, j) <=> LockedBy(o, j)
  BY <1>2, <1>4, <1>6, NoLock DEF LocksDp, LocksIp
<1>10. icache' = IF 0 = 0 THEN Visit(icache, i) ELSE iget(Visit(icache, i), 0)
  BY <1>1
<1> HIDE DEF i
<1> QED
  BY <1>1, <1>2, <1>5, <1>7, <1>8, <1>9, <1>10, Values, StepVisit

-----------------------------------------------------------------------------
(* Branches of several calls.                                              *)

\* dirlink() finds the name: its inode is got and put.
LEMMA LinkEntryExists ==
  ASSUME IInv, NEW p \in Procs, Locks(p, "link2"), NEW i, i = op[p].dp,
         NEW e, e = dinode[i].ents[op[p].name], e # 0,
         icache' = iget(ilock(icache, i, p), e), op' = [op EXCEPT ![p] = [op[p] EXCEPT !.at = "linkfail", !.puts = <<e>>]],
         program' = program, dinode' = dinode, cwd' = cwd, ofile' = ofile
  PROVE  IInv'
<1> DEFINE o == op[p]
           N == [o EXCEPT !.at = "linkfail", !.puts = <<e>>]
<1>1. o \in Activation /\ Shape(o)
  BY Here
<1>2. /\ o.at = "link2" /\ o.puts = <<>> /\ o.iput = "check" /\ i \in Inums /\ icache[i].lock = None
      /\ icache[i].valid \/ dinode[i].type # "free"
  BY Gets
<1>3. o.wp = 0 /\ o.ip # 0 /\ o.ip \in Inums /\ o.dp # 0 /\ o.dp \in Inums /\ o.name \in Entry /\ StageOf(o) /\ Args(o)
  BY <1>1, <1>2 DEF Shape, Refers, HasIp, HasDp, Args, Activation, Number
<1>4. e \in Number /\ e \in Inums
  BY <1>2, <1>3, EntryNumber DEF Number
<1>5. N \in Activation
  <2>1. "linkfail" \in Stages /\ <<e>> \in Seq(Inums)
    BY <1>1, <1>2, <1>3, <1>4, Values DEF Stages
  <2>2. o \in Activation
    BY <1>1
  <2> QED
    BY <2>1, <2>2 DEF Activation
<1>6. /\ N.at = "linkfail" /\ N.wp = o.wp /\ N.ip = o.ip /\ N.dp = o.dp /\ N.puts = <<e>>
      /\ N.iput = o.iput /\ N.call = o.call /\ N.arg = o.arg /\ N.path = o.path /\ N.name = o.name
  BY <1>1 DEF Activation
<1> HIDE DEF N
<1>7. Shape(N)
  <2>1. Refers(N)
    BY <1>2, <1>3, <1>4, <1>6, Values DEF Refers, HasIp, HasDp
  <2>2. Walks(N)
    BY <1>6 DEF Walks
  <2>3. StageOf(N)
    BY <1>2, <1>3, <1>6 DEF StageOf, Stage
  <2>4. Args(N)
    BY <1>3, <1>6 DEF Args, HasDp
  <2>5. Puts(N)
    BY <1>2, <1>6, PutsShape
  <2> QED
    BY <2>1, <2>2, <2>3, <2>4, <2>5 DEF Shape
<1>8. Refd(N, p, e)
  <2> SUFFICES ASSUME NEW j \in Inums
               PROVE  Counts(N, cwd[p], ofile[p], j) = Counts(o, cwd[p], ofile[p], j) + B(e, j)
    BY DEF Refd
  <2>1. /\ Counts(N, cwd[p], ofile[p], j) = FixedRefs(N, cwd[p], ofile[p], j) + B(e, j)
        /\ Counts(o, cwd[p], ofile[p], j) = FixedRefs(o, cwd[p], ofile[p], j)
    BY <1>2, <1>6, CountsOnePut, CountsNoPut
  <2> QED
    BY <1>2, <1>3, <1>6, <2>1, Values DEF FixedRefs, B
<1>9. Takes(N, p, i)
  BY <1>2, <1>3, <1>6 DEF LockedBy, LocksDp, LocksIp, Takes
<1>10. icache' = IF e = 0 THEN ilock(icache, i, p) ELSE iget(ilock(icache, i, p), e)
  OBVIOUS
<1>11. op' = [op EXCEPT ![p] = N]
  BY DEF N
<1> QED
  BY <1>2, <1>4, <1>5, <1>7, <1>8, <1>9, <1>10, <1>11, StepLock

\* The disk is full.
LEMMA LinkEntryFull ==
  ASSUME IInv, NEW p \in Procs, Locks(p, "link2"), NEW i, i = op[p].dp,
         icache' = Visit(icache, i), op' = [op EXCEPT ![p] = [op[p] EXCEPT !.at = "linkbad", !.dp = 0, !.puts = <<i>>]],
         program' = program, dinode' = dinode, cwd' = cwd, ofile' = ofile
  PROVE  IInv'
<1> DEFINE o == op[p]
           N == [o EXCEPT !.at = "linkbad", !.dp = 0, !.puts = <<i>>]
<1>1. o \in Activation /\ Shape(o)
  BY Here
<1>2. /\ o.at = "link2" /\ o.puts = <<>> /\ o.iput = "check" /\ i \in Inums /\ icache[i].lock = None
      /\ icache[i].valid \/ dinode[i].type # "free"
  BY Gets
<1>3. o.wp = 0 /\ o.ip # 0 /\ o.ip \in Inums /\ o.dp # 0 /\ o.dp \in Inums /\ o.name \in Entry /\ StageOf(o) /\ Args(o)
  BY <1>1, <1>2 DEF Shape, Refers, HasIp, HasDp, Args, Activation, Number
<1>4. 0 \in Number
  BY Values
<1>5. N \in Activation
  <2>1. "linkbad" \in Stages /\ 0 \in Number /\ <<i>> \in Seq(Inums)
    BY <1>1, <1>2, <1>3, <1>4, Values DEF Stages
  <2>2. o \in Activation
    BY <1>1
  <2> QED
    BY <2>1, <2>2 DEF Activation
<1>6. /\ N.at = "linkbad" /\ N.wp = o.wp /\ N.ip = o.ip /\ N.dp = 0 /\ N.puts = <<i>>
      /\ N.iput = o.iput /\ N.call = o.call /\ N.arg = o.arg /\ N.path = o.path /\ N.name = o.name
  BY <1>1 DEF Activation
<1> HIDE DEF N
<1>7. Shape(N)
  <2>1. Refers(N)
    BY <1>2, <1>3, <1>4, <1>6, Values DEF Refers, HasIp, HasDp
  <2>2. Walks(N)
    BY <1>6 DEF Walks
  <2>3. StageOf(N)
    BY <1>2, <1>3, <1>6 DEF StageOf, Stage
  <2>4. Args(N)
    BY <1>3, <1>6 DEF Args, HasDp
  <2>5. Puts(N)
    BY <1>2, <1>6, PutsShape
  <2> QED
    BY <2>1, <2>2, <2>3, <2>4, <2>5 DEF Shape
<1>8. Refd(N, p, 0)
  <2> SUFFICES ASSUME NEW j \in Inums
               PROVE  Counts(N, cwd[p], ofile[p], j) = Counts(o, cwd[p], ofile[p], j) + B(0, j)
    BY DEF Refd
  <2>1. /\ Counts(N, cwd[p], ofile[p], j) = FixedRefs(N, cwd[p], ofile[p], j) + B(i, j)
        /\ Counts(o, cwd[p], ofile[p], j) = FixedRefs(o, cwd[p], ofile[p], j)
    BY <1>2, <1>6, CountsOnePut, CountsNoPut
  <2> QED
    BY <1>2, <1>3, <1>6, <2>1, Values DEF FixedRefs, B
<1>9. \A j \in Inums : LockedBy(N, j) <=> LockedBy(o, j)
  BY <1>2, <1>3, <1>6 DEF LockedBy, LocksDp, LocksIp
<1>10. icache' = IF 0 = 0 THEN Visit(icache, i) ELSE iget(Visit(icache, i), 0)
  OBVIOUS
<1>11. op' = [op EXCEPT ![p] = N]
  BY DEF N
<1> QED
  BY <1>2, <1>4, <1>5, <1>7, <1>8, <1>9, <1>10, <1>11, StepVisit

LEMMA LinkFailsStep ==
  ASSUME IInv, NEW p \in Procs, Is(p, "linkfail"), NEW i, i = op[p].dp,
         icache' = iunlock(icache, i), op' = [op EXCEPT ![p] = [op[p] EXCEPT !.at = "linkbad", !.dp = 0, !.puts = <<i>>]],
         program' = program, dinode' = dinode, cwd' = cwd, ofile' = ofile
  PROVE  IInv'
<1> DEFINE o == op[p]
           N == [o EXCEPT !.at = "linkbad", !.dp = 0, !.puts = <<i>>]
<1>1. o \in Activation /\ Shape(o)
  BY Here
<1>2. o.at = "linkfail" /\ o.puts = <<>> /\ o.iput = "check" /\ i \in Inums
  <2>1. o.at = "linkfail" /\ o.puts = <<>>
    BY DEF Is
  <2>2. o.dp # 0 /\ o.dp \in Number /\ o.iput = "check"
    BY <1>1, <2>1 DEF Shape, Refers, Puts, HasIp, HasDp, Activation
  <2> QED
    BY <2>1, <2>2 DEF Number
<1>3. o.wp = 0 /\ o.ip # 0 /\ o.ip \in Inums /\ o.dp # 0 /\ o.dp \in Inums /\ o.name \in Entry /\ StageOf(o) /\ Args(o)
  BY <1>1, <1>2 DEF Shape, Refers, HasIp, HasDp, Args, Activation, Number
<1>4. 0 \in Number
  BY Values
<1>5. N \in Activation
  <2>1. "linkbad" \in Stages /\ 0 \in Number /\ <<i>> \in Seq(Inums)
    BY <1>1, <1>2, <1>3, <1>4, Values DEF Stages
  <2>2. o \in Activation
    BY <1>1
  <2> QED
    BY <2>1, <2>2 DEF Activation
<1>6. /\ N.at = "linkbad" /\ N.wp = o.wp /\ N.ip = o.ip /\ N.dp = 0 /\ N.puts = <<i>>
      /\ N.iput = o.iput /\ N.call = o.call /\ N.arg = o.arg /\ N.path = o.path /\ N.name = o.name
  BY <1>1 DEF Activation
<1> HIDE DEF N
<1>7. Shape(N)
  <2>1. Refers(N)
    BY <1>2, <1>3, <1>4, <1>6, Values DEF Refers, HasIp, HasDp
  <2>2. Walks(N)
    BY <1>6 DEF Walks
  <2>3. StageOf(N)
    BY <1>2, <1>3, <1>6 DEF StageOf, Stage
  <2>4. Args(N)
    BY <1>3, <1>6 DEF Args, HasDp
  <2>5. Puts(N)
    BY <1>2, <1>6, PutsShape
  <2> QED
    BY <2>1, <2>2, <2>3, <2>4, <2>5 DEF Shape
<1>8. Refd(N, p, 0)
  <2> SUFFICES ASSUME NEW j \in Inums
               PROVE  Counts(N, cwd[p], ofile[p], j) = Counts(o, cwd[p], ofile[p], j) + B(0, j)
    BY DEF Refd
  <2>1. /\ Counts(N, cwd[p], ofile[p], j) = FixedRefs(N, cwd[p], ofile[p], j) + B(i, j)
        /\ Counts(o, cwd[p], ofile[p], j) = FixedRefs(o, cwd[p], ofile[p], j)
    BY <1>2, <1>6, CountsOnePut, CountsNoPut
  <2> QED
    BY <1>2, <1>3, <1>6, <2>1, Values DEF FixedRefs, B
<1>9. LockedBy(o, i) /\ \A j \in Inums : LockedBy(N, j) <=> LockedBy(o, j) /\ j # i
  BY <1>2, <1>3, <1>6 DEF LockedBy, LocksDp, LocksIp
<1>10. op' = [op EXCEPT ![p] = N]
  BY DEF N
<1> QED
  BY <1>2, <1>5, <1>7, <1>8, <1>9, <1>10, StepUnlock

\* unlink() keeps the directory locked and gets the inode of the entry.
LEMMA UnlinkFound ==
  ASSUME IInv, NEW p \in Procs, Locks(p, "unlink1"), NEW i, i = op[p].dp,
         NEW e, e = dinode[i].ents[op[p].name], e # 0,
         icache' = iget(ilock(icache, i, p), e), op' = [op EXCEPT ![p] = [op[p] EXCEPT !.at = "unlink2", !.ip = e]],
         program' = program, dinode' = dinode, cwd' = cwd, ofile' = ofile
  PROVE  IInv'
<1> DEFINE o == op[p]
           N == [o EXCEPT !.at = "unlink2", !.ip = e]
<1>1. o \in Activation /\ Shape(o)
  BY Here
<1>2. /\ o.at = "unlink1" /\ o.puts = <<>> /\ o.iput = "check" /\ i \in Inums /\ icache[i].lock = None
      /\ icache[i].valid \/ dinode[i].type # "free"
  BY Gets
<1>3. o.wp = 0 /\ o.ip = 0 /\ o.dp # 0 /\ o.dp \in Inums /\ o.name \in Entry /\ StageOf(o) /\ Args(o)
  BY <1>1, <1>2 DEF Shape, Refers, HasIp, HasDp, Args, Activation, Number
<1>4. e \in Number /\ e \in Inums
  BY <1>2, <1>3, EntryNumber DEF Number
<1>5. N \in Activation
  <2>1. "unlink2" \in Stages /\ e \in Number
    BY <1>1, <1>2, <1>3, <1>4, Values DEF Stages
  <2>2. o \in Activation
    BY <1>1
  <2> QED
    BY <2>1, <2>2 DEF Activation
<1>6. /\ N.at = "unlink2" /\ N.wp = o.wp /\ N.ip = e /\ N.dp = o.dp /\ N.puts = o.puts
      /\ N.iput = o.iput /\ N.call = o.call /\ N.arg = o.arg /\ N.path = o.path /\ N.name = o.name
  BY <1>1 DEF Activation
<1> HIDE DEF N
<1>7. Shape(N)
  <2>1. Refers(N)
    BY <1>2, <1>3, <1>4, <1>6, Values DEF Refers, HasIp, HasDp
  <2>2. Walks(N)
    BY <1>6 DEF Walks
  <2>3. StageOf(N)
    BY <1>2, <1>3, <1>6 DEF StageOf, Stage
  <2>4. Args(N)
    BY <1>3, <1>6 DEF Args, HasDp
  <2>5. Puts(N)
    BY <1>2, <1>6, PutsShape
  <2> QED
    BY <2>1, <2>2, <2>3, <2>4, <2>5 DEF Shape
<1>8. Refd(N, p, e)
  <2> SUFFICES ASSUME NEW j \in Inums
               PROVE  Counts(N, cwd[p], ofile[p], j) = Counts(o, cwd[p], ofile[p], j) + B(e, j)
    BY DEF Refd
  <2>1. /\ Counts(N, cwd[p], ofile[p], j) = FixedRefs(N, cwd[p], ofile[p], j)
        /\ Counts(o, cwd[p], ofile[p], j) = FixedRefs(o, cwd[p], ofile[p], j)
    BY <1>2, <1>6, CountsNoPut
  <2> QED
    BY <1>2, <1>3, <1>6, <2>1, Values DEF FixedRefs, B
<1>9. Takes(N, p, i)
  BY <1>2, <1>3, <1>6 DEF LockedBy, LocksDp, LocksIp, Takes
<1>10. icache' = IF e = 0 THEN ilock(icache, i, p) ELSE iget(ilock(icache, i, p), e)
  OBVIOUS
<1>11. op' = [op EXCEPT ![p] = N]
  BY DEF N
<1> QED
  BY <1>2, <1>4, <1>5, <1>7, <1>8, <1>9, <1>10, <1>11, StepLock

\* The directory is not empty.
LEMMA UnlinkNotEmpty ==
  ASSUME IInv, NEW p \in Procs, Locks(p, "unlink2"), NEW i, i = op[p].ip,
         icache' = Visit(icache, i), op' = [op EXCEPT ![p] = [op[p] EXCEPT !.at = "failed", !.ip = 0, !.puts = <<i>>]],
         program' = program, dinode' = dinode, cwd' = cwd, ofile' = ofile
  PROVE  IInv'
<1> DEFINE o == op[p]
           N == [o EXCEPT !.at = "failed", !.ip = 0, !.puts = <<i>>]
<1>1. o \in Activation /\ Shape(o)
  BY Here
<1>2. /\ o.at = "unlink2" /\ o.puts = <<>> /\ o.iput = "check" /\ i \in Inums /\ icache[i].lock = None
      /\ icache[i].valid \/ dinode[i].type # "free"
  BY Gets
<1>3. o.wp = 0 /\ o.ip # 0 /\ o.ip \in Inums /\ o.dp # 0 /\ o.dp \in Inums /\ o.name \in Entry /\ StageOf(o) /\ Args(o)
  BY <1>1, <1>2 DEF Shape, Refers, HasIp, HasDp, Args, Activation, Number
<1>4. 0 \in Number
  BY Values
<1>5. N \in Activation
  <2>1. "failed" \in Stages /\ 0 \in Number /\ <<i>> \in Seq(Inums)
    BY <1>1, <1>2, <1>3, <1>4, Values DEF Stages
  <2>2. o \in Activation
    BY <1>1
  <2> QED
    BY <2>1, <2>2 DEF Activation
<1>6. /\ N.at = "failed" /\ N.wp = o.wp /\ N.ip = 0 /\ N.dp = o.dp /\ N.puts = <<i>>
      /\ N.iput = o.iput /\ N.call = o.call /\ N.arg = o.arg /\ N.path = o.path /\ N.name = o.name
  BY <1>1 DEF Activation
<1> HIDE DEF N
<1>7. Shape(N)
  <2>1. Refers(N)
    BY <1>2, <1>3, <1>4, <1>6, Values DEF Refers, HasIp, HasDp
  <2>2. Walks(N)
    BY <1>6 DEF Walks
  <2>3. StageOf(N)
    BY <1>2, <1>3, <1>6 DEF StageOf, Stage
  <2>4. Args(N)
    BY <1>3, <1>6 DEF Args, HasDp
  <2>5. Puts(N)
    BY <1>2, <1>6, PutsShape
  <2> QED
    BY <2>1, <2>2, <2>3, <2>4, <2>5 DEF Shape
<1>8. Refd(N, p, 0)
  <2> SUFFICES ASSUME NEW j \in Inums
               PROVE  Counts(N, cwd[p], ofile[p], j) = Counts(o, cwd[p], ofile[p], j) + B(0, j)
    BY DEF Refd
  <2>1. /\ Counts(N, cwd[p], ofile[p], j) = FixedRefs(N, cwd[p], ofile[p], j) + B(i, j)
        /\ Counts(o, cwd[p], ofile[p], j) = FixedRefs(o, cwd[p], ofile[p], j)
    BY <1>2, <1>6, CountsOnePut, CountsNoPut
  <2> QED
    BY <1>2, <1>3, <1>6, <2>1, Values DEF FixedRefs, B
<1>9. \A j \in Inums : LockedBy(N, j) <=> LockedBy(o, j)
  BY <1>2, <1>3, <1>6 DEF LockedBy, LocksDp, LocksIp
<1>10. icache' = IF 0 = 0 THEN Visit(icache, i) ELSE iget(Visit(icache, i), 0)
  OBVIOUS
<1>11. op' = [op EXCEPT ![p] = N]
  BY DEF N
<1> QED
  BY <1>2, <1>4, <1>5, <1>7, <1>8, <1>9, <1>10, <1>11, StepVisit

\* create() finds the name ...
LEMMA CreateExists ==
  ASSUME IInv, NEW p \in Procs, Locks(p, "create"), NEW i, i = op[p].dp,
         NEW e, e = dinode[i].ents[op[p].name], e # 0,
         icache' = iget(Visit(icache, i), e), op' = [op EXCEPT ![p] = [op[p] EXCEPT !.at = "exists", !.ip = e, !.dp = 0, !.puts = <<i>>]],
         program' = program, dinode' = dinode, cwd' = cwd, ofile' = ofile
  PROVE  IInv'
<1> DEFINE o == op[p]
           N == [o EXCEPT !.at = "exists", !.ip = e, !.dp = 0, !.puts = <<i>>]
<1>1. o \in Activation /\ Shape(o)
  BY Here
<1>2. /\ o.at = "create" /\ o.puts = <<>> /\ o.iput = "check" /\ i \in Inums /\ icache[i].lock = None
      /\ icache[i].valid \/ dinode[i].type # "free"
  BY Gets
<1>3. o.wp = 0 /\ o.ip = 0 /\ o.dp # 0 /\ o.dp \in Inums /\ o.name \in Entry /\ StageOf(o) /\ Args(o)
  BY <1>1, <1>2 DEF Shape, Refers, HasIp, HasDp, Args, Activation, Number
<1>4. e \in Number /\ e \in Inums
  BY <1>2, <1>3, EntryNumber DEF Number
<1>5. N \in Activation
  <2>1. "exists" \in Stages /\ e \in Number /\ 0 \in Number /\ <<i>> \in Seq(Inums)
    BY <1>1, <1>2, <1>3, <1>4, Values DEF Stages
  <2>2. o \in Activation
    BY <1>1
  <2> QED
    BY <2>1, <2>2 DEF Activation
<1>6. /\ N.at = "exists" /\ N.wp = o.wp /\ N.ip = e /\ N.dp = 0 /\ N.puts = <<i>>
      /\ N.iput = o.iput /\ N.call = o.call /\ N.arg = o.arg /\ N.path = o.path /\ N.name = o.name
  BY <1>1 DEF Activation
<1> HIDE DEF N
<1>7. Shape(N)
  <2>1. Refers(N)
    BY <1>2, <1>3, <1>4, <1>6, Values DEF Refers, HasIp, HasDp
  <2>2. Walks(N)
    BY <1>6 DEF Walks
  <2>3. StageOf(N)
    BY <1>2, <1>3, <1>6 DEF StageOf, Stage
  <2>4. Args(N)
    BY <1>3, <1>6 DEF Args, HasDp
  <2>5. Puts(N)
    BY <1>2, <1>6, PutsShape
  <2> QED
    BY <2>1, <2>2, <2>3, <2>4, <2>5 DEF Shape
<1>8. Refd(N, p, e)
  <2> SUFFICES ASSUME NEW j \in Inums
               PROVE  Counts(N, cwd[p], ofile[p], j) = Counts(o, cwd[p], ofile[p], j) + B(e, j)
    BY DEF Refd
  <2>1. /\ Counts(N, cwd[p], ofile[p], j) = FixedRefs(N, cwd[p], ofile[p], j) + B(i, j)
        /\ Counts(o, cwd[p], ofile[p], j) = FixedRefs(o, cwd[p], ofile[p], j)
    BY <1>2, <1>6, CountsOnePut, CountsNoPut
  <2> QED
    BY <1>2, <1>3, <1>6, <2>1, Values DEF FixedRefs, B
<1>9. \A j \in Inums : LockedBy(N, j) <=> LockedBy(o, j)
  BY <1>2, <1>3, <1>6 DEF LockedBy, LocksDp, LocksIp
<1>10. icache' = IF e = 0 THEN Visit(icache, i) ELSE iget(Visit(icache, i), e)
  OBVIOUS
<1>11. op' = [op EXCEPT ![p] = N]
  BY DEF N
<1> QED
  BY <1>2, <1>4, <1>5, <1>7, <1>8, <1>9, <1>10, <1>11, StepVisit, ZenonT(60)

\* ... or keeps the directory locked.
LEMMA CreateNew ==
  ASSUME IInv, NEW p \in Procs, Locks(p, "create"), NEW i, i = op[p].dp,
         icache' = ilock(icache, i, p), op' = [op EXCEPT ![p] = [op[p] EXCEPT !.at = "ialloc"]],
         program' = program, dinode' = dinode, cwd' = cwd, ofile' = ofile
  PROVE  IInv'
<1> DEFINE o == op[p]
           N == [o EXCEPT !.at = "ialloc"]
<1>1. o \in Activation /\ Shape(o)
  BY Here
<1>2. /\ o.at = "create" /\ o.puts = <<>> /\ o.iput = "check" /\ i \in Inums /\ icache[i].lock = None
      /\ icache[i].valid \/ dinode[i].type # "free"
  BY Gets
<1>3. o.wp = 0 /\ o.ip = 0 /\ o.dp # 0 /\ o.dp \in Inums /\ o.name \in Entry /\ StageOf(o) /\ Args(o)
  BY <1>1, <1>2 DEF Shape, Refers, HasIp, HasDp, Args, Activation, Number
<1>4. 0 \in Number
  BY Values
<1>5. N \in Activation
  <2>1. "ialloc" \in Stages
    BY <1>1, <1>2, <1>3, <1>4, Values DEF Stages
  <2>2. o \in Activation
    BY <1>1
  <2> QED
    BY <2>1, <2>2 DEF Activation
<1>6. /\ N.at = "ialloc" /\ N.wp = o.wp /\ N.ip = o.ip /\ N.dp = o.dp /\ N.puts = o.puts
      /\ N.iput = o.iput /\ N.call = o.call /\ N.arg = o.arg /\ N.path = o.path /\ N.name = o.name
  BY <1>1 DEF Activation
<1> HIDE DEF N
<1>7. Shape(N)
  <2>1. Refers(N)
    BY <1>2, <1>3, <1>4, <1>6, Values DEF Refers, HasIp, HasDp
  <2>2. Walks(N)
    BY <1>6 DEF Walks
  <2>3. StageOf(N)
    BY <1>2, <1>3, <1>6 DEF StageOf, Stage
  <2>4. Args(N)
    BY <1>3, <1>6 DEF Args, HasDp
  <2>5. Puts(N)
    BY <1>2, <1>6, PutsShape
  <2> QED
    BY <2>1, <2>2, <2>3, <2>4, <2>5 DEF Shape
<1>8. Refd(N, p, 0)
  <2> SUFFICES ASSUME NEW j \in Inums
               PROVE  Counts(N, cwd[p], ofile[p], j) = Counts(o, cwd[p], ofile[p], j) + B(0, j)
    BY DEF Refd
  <2>1. /\ Counts(N, cwd[p], ofile[p], j) = FixedRefs(N, cwd[p], ofile[p], j)
        /\ Counts(o, cwd[p], ofile[p], j) = FixedRefs(o, cwd[p], ofile[p], j)
    BY <1>2, <1>6, CountsNoPut
  <2> QED
    BY <1>2, <1>3, <1>6, <2>1, Values DEF FixedRefs, B
<1>9. Takes(N, p, i)
  BY <1>2, <1>3, <1>6 DEF LockedBy, LocksDp, LocksIp, Takes
<1>10. icache' = IF 0 = 0 THEN ilock(icache, i, p) ELSE iget(ilock(icache, i, p), 0)
  OBVIOUS
<1>11. op' = [op EXCEPT ![p] = N]
  BY DEF N
<1> QED
  BY <1>2, <1>4, <1>5, <1>7, <1>8, <1>9, <1>10, <1>11, StepLock

\* open() has its inode.
LEMMA ExistsOpens ==
  ASSUME IInv, NEW p \in Procs, Locks(p, "exists"), NEW i, i = op[p].ip,
         op[p].call = "open",
         icache' = ilock(icache, i, p), op' = [op EXCEPT ![p] = [op[p] EXCEPT !.at = "opened"]],
         program' = program, dinode' = dinode, cwd' = cwd, ofile' = ofile
  PROVE  IInv'
<1> DEFINE o == op[p]
           N == [o EXCEPT !.at = "opened"]
<1>1. o \in Activation /\ Shape(o)
  BY Here
<1>2. /\ o.at = "exists" /\ o.puts = <<>> /\ o.iput = "check" /\ i \in Inums /\ icache[i].lock = None
      /\ icache[i].valid \/ dinode[i].type # "free"
  BY Gets
<1>3. o.wp = 0 /\ o.ip # 0 /\ o.ip \in Inums /\ o.dp = 0 /\ StageOf(o) /\ Args(o)
  BY <1>1, <1>2 DEF Shape, Refers, HasIp, HasDp, Args, Activation, Number
<1>4. 0 \in Number
  BY Values
<1>5. N \in Activation
  <2>1. "opened" \in Stages
    BY <1>1, <1>2, <1>3, <1>4, Values DEF Stages
  <2>2. o \in Activation
    BY <1>1
  <2> QED
    BY <2>1, <2>2 DEF Activation
<1>6. /\ N.at = "opened" /\ N.wp = o.wp /\ N.ip = o.ip /\ N.dp = o.dp /\ N.puts = o.puts
      /\ N.iput = o.iput /\ N.call = o.call /\ N.arg = o.arg /\ N.path = o.path /\ N.name = o.name
  BY <1>1 DEF Activation
<1> HIDE DEF N
<1>7. Shape(N)
  <2>1. Refers(N)
    BY <1>2, <1>3, <1>4, <1>6, Values DEF Refers, HasIp, HasDp
  <2>2. Walks(N)
    BY <1>6 DEF Walks
  <2>3. StageOf(N)
    BY <1>2, <1>3, <1>6 DEF StageOf, Stage
  <2>4. Args(N)
    BY <1>3, <1>6 DEF Args, HasDp
  <2>5. Puts(N)
    BY <1>2, <1>6, PutsShape
  <2> QED
    BY <2>1, <2>2, <2>3, <2>4, <2>5 DEF Shape
<1>8. Refd(N, p, 0)
  <2> SUFFICES ASSUME NEW j \in Inums
               PROVE  Counts(N, cwd[p], ofile[p], j) = Counts(o, cwd[p], ofile[p], j) + B(0, j)
    BY DEF Refd
  <2>1. /\ Counts(N, cwd[p], ofile[p], j) = FixedRefs(N, cwd[p], ofile[p], j)
        /\ Counts(o, cwd[p], ofile[p], j) = FixedRefs(o, cwd[p], ofile[p], j)
    BY <1>2, <1>6, CountsNoPut
  <2> QED
    BY <1>2, <1>3, <1>6, <2>1, Values DEF FixedRefs, B
<1>9. Takes(N, p, i)
  BY <1>2, <1>3, <1>6 DEF LockedBy, LocksDp, LocksIp, Takes
<1>10. icache' = IF 0 = 0 THEN ilock(icache, i, p) ELSE iget(ilock(icache, i, p), 0)
  OBVIOUS
<1>11. op' = [op EXCEPT ![p] = N]
  BY DEF N
<1> QED
  BY <1>2, <1>4, <1>5, <1>7, <1>8, <1>9, <1>10, <1>11, StepLock

LEMMA OpenOpens ==
  ASSUME IInv, NEW p \in Procs, Locks(p, "open"), NEW i, i = op[p].ip,
         icache' = ilock(icache, i, p), op' = [op EXCEPT ![p] = [op[p] EXCEPT !.at = "opened"]],
         program' = program, dinode' = dinode, cwd' = cwd, ofile' = ofile
  PROVE  IInv'
<1> DEFINE o == op[p]
           N == [o EXCEPT !.at = "opened"]
<1>1. o \in Activation /\ Shape(o)
  BY Here
<1>2. /\ o.at = "open" /\ o.puts = <<>> /\ o.iput = "check" /\ i \in Inums /\ icache[i].lock = None
      /\ icache[i].valid \/ dinode[i].type # "free"
  BY Gets
<1>3. o.wp = 0 /\ o.ip # 0 /\ o.ip \in Inums /\ o.dp = 0 /\ StageOf(o) /\ Args(o)
  BY <1>1, <1>2 DEF Shape, Refers, HasIp, HasDp, Args, Activation, Number
<1>4. 0 \in Number
  BY Values
<1>5. N \in Activation
  <2>1. "opened" \in Stages
    BY <1>1, <1>2, <1>3, <1>4, Values DEF Stages
  <2>2. o \in Activation
    BY <1>1
  <2> QED
    BY <2>1, <2>2 DEF Activation
<1>6. /\ N.at = "opened" /\ N.wp = o.wp /\ N.ip = o.ip /\ N.dp = o.dp /\ N.puts = o.puts
      /\ N.iput = o.iput /\ N.call = o.call /\ N.arg = o.arg /\ N.path = o.path /\ N.name = o.name
  BY <1>1 DEF Activation
<1> HIDE DEF N
<1>7. Shape(N)
  <2>1. Refers(N)
    BY <1>2, <1>3, <1>4, <1>6, Values DEF Refers, HasIp, HasDp
  <2>2. Walks(N)
    BY <1>6 DEF Walks
  <2>3. StageOf(N)
    BY <1>2, <1>3, <1>6 DEF StageOf, Stage
  <2>4. Args(N)
    BY <1>3, <1>6 DEF Args, HasDp
  <2>5. Puts(N)
    BY <1>2, <1>6, PutsShape
  <2> QED
    BY <2>1, <2>2, <2>3, <2>4, <2>5 DEF Shape
<1>8. Refd(N, p, 0)
  <2> SUFFICES ASSUME NEW j \in Inums
               PROVE  Counts(N, cwd[p], ofile[p], j) = Counts(o, cwd[p], ofile[p], j) + B(0, j)
    BY DEF Refd
  <2>1. /\ Counts(N, cwd[p], ofile[p], j) = FixedRefs(N, cwd[p], ofile[p], j)
        /\ Counts(o, cwd[p], ofile[p], j) = FixedRefs(o, cwd[p], ofile[p], j)
    BY <1>2, <1>6, CountsNoPut
  <2> QED
    BY <1>2, <1>3, <1>6, <2>1, Values DEF FixedRefs, B
<1>9. Takes(N, p, i)
  BY <1>2, <1>3, <1>6 DEF LockedBy, LocksDp, LocksIp, Takes
<1>10. icache' = IF 0 = 0 THEN ilock(icache, i, p) ELSE iget(ilock(icache, i, p), 0)
  OBVIOUS
<1>11. op' = [op EXCEPT ![p] = N]
  BY DEF N
<1> QED
  BY <1>2, <1>4, <1>5, <1>7, <1>8, <1>9, <1>10, <1>11, StepLock

LEMMA FollowedOpens ==
  ASSUME IInv, NEW p \in Procs, Locks(p, "follow2"), NEW i, i = op[p].ip,
         icache' = ilock(icache, i, p), op' = [op EXCEPT ![p] = [op[p] EXCEPT !.at = "opened"]],
         program' = program, dinode' = dinode, cwd' = cwd, ofile' = ofile
  PROVE  IInv'
<1> DEFINE o == op[p]
           N == [o EXCEPT !.at = "opened"]
<1>1. o \in Activation /\ Shape(o)
  BY Here
<1>2. /\ o.at = "follow2" /\ o.puts = <<>> /\ o.iput = "check" /\ i \in Inums /\ icache[i].lock = None
      /\ icache[i].valid \/ dinode[i].type # "free"
  BY Gets
<1>3. o.wp = 0 /\ o.ip # 0 /\ o.ip \in Inums /\ o.dp = 0 /\ StageOf(o) /\ Args(o)
  BY <1>1, <1>2 DEF Shape, Refers, HasIp, HasDp, Args, Activation, Number
<1>4. 0 \in Number
  BY Values
<1>5. N \in Activation
  <2>1. "opened" \in Stages
    BY <1>1, <1>2, <1>3, <1>4, Values DEF Stages
  <2>2. o \in Activation
    BY <1>1
  <2> QED
    BY <2>1, <2>2 DEF Activation
<1>6. /\ N.at = "opened" /\ N.wp = o.wp /\ N.ip = o.ip /\ N.dp = o.dp /\ N.puts = o.puts
      /\ N.iput = o.iput /\ N.call = o.call /\ N.arg = o.arg /\ N.path = o.path /\ N.name = o.name
  BY <1>1 DEF Activation
<1> HIDE DEF N
<1>7. Shape(N)
  <2>1. Refers(N)
    BY <1>2, <1>3, <1>4, <1>6, Values DEF Refers, HasIp, HasDp
  <2>2. Walks(N)
    BY <1>6 DEF Walks
  <2>3. StageOf(N)
    BY <1>2, <1>3, <1>6 DEF StageOf, Stage
  <2>4. Args(N)
    BY <1>3, <1>6 DEF Args, HasDp
  <2>5. Puts(N)
    BY <1>2, <1>6, PutsShape
  <2> QED
    BY <2>1, <2>2, <2>3, <2>4, <2>5 DEF Shape
<1>8. Refd(N, p, 0)
  <2> SUFFICES ASSUME NEW j \in Inums
               PROVE  Counts(N, cwd[p], ofile[p], j) = Counts(o, cwd[p], ofile[p], j) + B(0, j)
    BY DEF Refd
  <2>1. /\ Counts(N, cwd[p], ofile[p], j) = FixedRefs(N, cwd[p], ofile[p], j)
        /\ Counts(o, cwd[p], ofile[p], j) = FixedRefs(o, cwd[p], ofile[p], j)
    BY <1>2, <1>6, CountsNoPut
  <2> QED
    BY <1>2, <1>3, <1>6, <2>1, Values DEF FixedRefs, B
<1>9. Takes(N, p, i)
  BY <1>2, <1>3, <1>6 DEF LockedBy, LocksDp, LocksIp, Takes
<1>10. icache' = IF 0 = 0 THEN ilock(icache, i, p) ELSE iget(ilock(icache, i, p), 0)
  OBVIOUS
<1>11. op' = [op EXCEPT ![p] = N]
  BY DEF N
<1> QED
  BY <1>2, <1>4, <1>5, <1>7, <1>8, <1>9, <1>10, <1>11, StepLock

\* The call fails and puts the only inode that it holds.
LEMMA ReturnVisit ==
  ASSUME IInv, NEW p \in Procs, NEW w \in {"link1", "exists", "open", "chdir", "unlink1"}, Locks(p, w),
         NEW i, i = Wants(p), icache' = Visit(icache, i), Return(p, <<i>>),
         program' = program, dinode' = dinode, cwd' = cwd, ofile' = ofile
  PROVE  IInv'
<1> DEFINE o == op[p]
<1>0. PICK N : N = Ended(<<i>>)
  OBVIOUS
<1>1. o \in Activation /\ Shape(o)
  BY Here
<1>2. /\ o.at = w /\ o.puts = <<>> /\ o.iput = "check" /\ i \in Inums /\ icache[i].lock = None
      /\ icache[i].valid \/ dinode[i].type # "free"
      /\ i = IF w = "unlink1" THEN o.dp ELSE o.ip
  BY Gets
<1>3. o.wp = 0 /\ (w = "unlink1" => o.ip = 0) /\ (w # "unlink1" => o.dp = 0)
  BY <1>1, <1>2 DEF Shape, Refers, HasIp, HasDp
<1>4. /\ N \in Activation /\ Shape(N)
      /\ N.at = "user" /\ N.wp = 0 /\ N.ip = 0 /\ N.dp = 0 /\ N.puts = <<i>>
      /\ \A j \in Inums : ~LockedBy(N, j)
  <2>1. <<i>> \in Seq(Inums)
    BY <1>2
  <2> QED
    BY <1>0, <2>1, ReturnShape
<1>5. Refd(N, p, 0)
  <2> SUFFICES ASSUME NEW j \in Inums
               PROVE  Counts(N, cwd[p], ofile[p], j) = Counts(o, cwd[p], ofile[p], j) + B(0, j)
    BY DEF Refd
  <2>1. /\ Counts(N, cwd[p], ofile[p], j) = FixedRefs(N, cwd[p], ofile[p], j) + B(i, j)
        /\ Counts(o, cwd[p], ofile[p], j) = FixedRefs(o, cwd[p], ofile[p], j)
    BY <1>2, <1>4, CountsOnePut, CountsNoPut
  <2> QED
    BY <1>2, <1>3, <1>4, <2>1, Values DEF FixedRefs, B
<1>6. \A j \in Inums : LockedBy(N, j) <=> LockedBy(o, j)
  BY <1>2, <1>4, NoLock DEF LocksDp, LocksIp
<1>7. icache' = IF 0 = 0 THEN Visit(icache, i) ELSE iget(Visit(icache, i), 0)
  OBVIOUS
<1>8. op' = [op EXCEPT ![p] = N]
  BY <1>0 DEF Return, Ended
<1> QED
  BY <1>2, <1>4, <1>5, <1>6, <1>7, <1>8, Values, StepVisit

\* The same for a call that has the inode locked.
LEMMA ReturnFacts ==
  ASSUME IInv, NEW p \in Procs, NEW w \in {"failed", "ialloc", "opened", "created", "unlink3"}, Is(p, w),
         NEW i, i = (IF w \in {"failed", "ialloc"} THEN op[p].dp ELSE op[p].ip),
         NEW N, N = Ended(<<i>>)
  PROVE  /\ N \in Activation /\ Shape(N) /\ Refd(N, p, 0) /\ i \in Inums /\ LockedBy(op[p], i)
         /\ \A j \in Inums : LockedBy(N, j) <=> LockedBy(op[p], j) /\ j # i
<1> DEFINE o == op[p]
<1>1. o \in Activation /\ Shape(o)
  BY Here
<1>2. o.at = w /\ o.puts = <<>> /\ o.iput = "check"
  BY <1>1 DEF Is, Shape, Puts
<1>3. /\ o.wp = 0 /\ i # 0 /\ i \in Number
      /\ w \in {"failed", "ialloc"} => o.ip = 0
      /\ w \notin {"failed", "ialloc"} => o.dp = 0
  BY <1>1, <1>2 DEF Shape, Refers, HasIp, HasDp, Activation
<1>4. i \in Inums
  BY <1>3 DEF Number
<1>5. /\ N \in Activation /\ Shape(N)
      /\ N.at = "user" /\ N.wp = 0 /\ N.ip = 0 /\ N.dp = 0 /\ N.puts = <<i>>
      /\ \A j \in Inums : ~LockedBy(N, j)
  <2>1. <<i>> \in Seq(Inums)
    BY <1>4
  <2> QED
    BY <2>1, ReturnShape, ZenonT(60)
<1>6. Refd(N, p, 0)
  <2> SUFFICES ASSUME NEW j \in Inums
               PROVE  Counts(N, cwd[p], ofile[p], j) = Counts(o, cwd[p], ofile[p], j) + B(0, j)
    BY DEF Refd
  <2>1. Counts(N, cwd[p], ofile[p], j) = FixedRefs(N, cwd[p], ofile[p], j) + B(i, j)
    <3>1. \A x : N.puts = <<x>> => Counts(N, cwd[p], ofile[p], j) = FixedRefs(N, cwd[p], ofile[p], j) + B(x, j)
      BY CountsOnePut
    <3>2. N.puts = <<i>>
      BY <1>5
    <3> QED
      BY <3>1, <3>2
  <2>2. Counts(o, cwd[p], ofile[p], j) = FixedRefs(o, cwd[p], ofile[p], j)
    BY <1>2, CountsNoPut
  <2> QED
    BY <1>2, <1>3, <1>5, <2>1, <2>2, Values DEF FixedRefs, B
<1>7. \A j \in Inums : LockedBy(o, j) <=> j = i
  BY <1>2, <1>3 DEF LockedBy, LocksDp, LocksIp
<1> QED
  BY <1>4, <1>5, <1>6, <1>7

LEMMA ReturnUnlock ==
  ASSUME IInv, NEW p \in Procs, NEW w \in {"failed", "ialloc", "opened", "created"}, Is(p, w),
         NEW i, i = (IF w \in {"failed", "ialloc"} THEN op[p].dp ELSE op[p].ip),
         icache' = iunlock(icache, i), Return(p, <<i>>),
         program' = program, dinode' = dinode, cwd' = cwd, ofile' = ofile
  PROVE  IInv'
<1> DEFINE N == Ended(<<i>>)
<1>1. /\ N \in Activation /\ Shape(N) /\ Refd(N, p, 0) /\ i \in Inums /\ LockedBy(op[p], i)
      /\ \A j \in Inums : LockedBy(N, j) <=> LockedBy(op[p], j) /\ j # i
  <2>1. w \in {"failed", "ialloc", "opened", "created", "unlink3"}
    OBVIOUS
  <2> QED
    BY <2>1, ReturnFacts
<1>2. op' = [op EXCEPT ![p] = N]
  BY DEF Return, Ended
<1> HIDE DEF N
<1> QED
  BY <1>1, <1>2, StepUnlock

\* A call starts to walk a path.
LEMMA WalkingShape ==
  ASSUME Typed, NEW p \in Procs, NEW o \in Activation, o.puts = <<>>, o.iput = "check", o.wp = 0, o.dp = 0,
         o.at # "chdir2", NEW path \in program.paths, NEW parent \in BOOLEAN, NEW then \in Stages,
         IF parent THEN then \in {"link2", "unlink1", "create"} ELSE then \in {"link1", "open", "follow2", "chdir"},
         o.ip # 0 <=> then = "link2",
         o.call = "link" <=> then \in {"link1", "link2"},
         then = "create" => o.call \in {"open", "mkdir", "mknod", "symlink"},
         then \in {"open", "follow2"} => o.call = "open", Args([o EXCEPT !.at = "walk"]),
         NEW N, N = Walking(p, o, path, parent, then)
  PROVE  /\ N \in Activation /\ Shape(N) /\ Start(p, path) \in Inums
         /\ \A c, f : \A j \in Inums : Counts(N, c, f, j) = Counts(o, c, f, j) + B(Start(p, path), j)
         /\ \A j \in Inums : ~LockedBy(N, j)
<1> DEFINE w == [o EXCEPT !.at = "walk", !.wp = Start(p, path), !.rest = path.elems, !.parent = parent, !.then = then]
<1>1. Start(p, path) \in Inums
  BY DiskAssumption DEF Start, Typed, ROOTINO, Inums
<1>2. path.elems \in Seq(Entry)
  BY ChoiceAssumption DEF Typed, Entry, Dots
<1>3. w \in Activation
  <2>1. "walk" \in Stages /\ Start(p, path) \in Number /\ then \in Stages \cup {None}
    BY <1>1, Values DEF Stages
  <2> QED
    BY <1>2, <2>1 DEF Activation
<1>4. /\ w.at = "walk" /\ w.wp = Start(p, path) /\ w.rest = path.elems /\ w.parent = parent /\ w.then = then
      /\ w.ip = o.ip /\ w.dp = o.dp /\ w.puts = <<>> /\ w.iput = "check"
      /\ w.call = o.call /\ w.arg = o.arg /\ w.path = o.path /\ w.name = o.name
  BY DEF Activation
<1> HIDE DEF w
<1>5. StageOf(w)
  BY <1>4 DEF StageOf, Stage
<1>6. Args(w)
  <2>1. LET a == [o EXCEPT !.at = "walk"] IN a.call = o.call /\ a.arg = o.arg /\ a.path = o.path
    BY DEF Activation
  <2> QED
    BY <1>4, <2>1 DEF Args, HasDp
<1>7. OnWalk(w)
  <2>1. Len(w.puts) <= 1
    BY <1>4
  <2> QED
    BY <1>1, <1>3, <1>4, <1>5, <1>6, <2>1 DEF OnWalk
<1>8. N = Arrived(w)
  BY DEF Walking, w
<1>9. /\ N \in Activation /\ Shape(N) /\ \A j \in Inums : ~LockedBy(N, j)
      /\ \A c, f : \A j \in Inums : Counts(N, c, f, j) = Counts(w, c, f, j)
  BY <1>4, <1>7, <1>8, ArrivedShape
<1>10. \A c, f : \A j \in Inums : Counts(w, c, f, j) = Counts(o, c, f, j) + B(Start(p, path), j)
  <2> SUFFICES ASSUME NEW c, NEW f, NEW j \in Inums
               PROVE  Counts(w, c, f, j) = Counts(o, c, f, j) + B(Start(p, path), j)
    OBVIOUS
  <2>1. Counts(w, c, f, j) = FixedRefs(w, c, f, j) /\ Counts(o, c, f, j) = FixedRefs(o, c, f, j)
    BY <1>4, CountsNoPut
  <2> QED
    BY <1>4, <2>1, Values DEF FixedRefs, B
<1> QED
  BY <1>1, <1>9, <1>10

\* open() reads the target of a link and puts the link.
LEMMA FollowNext ==
  ASSUME IInv, NEW p \in Procs, Is(p, "opened"), NEW i, i = op[p].ip,
         NEW n \in Int, NEW t \in program.paths \cup {None},
         op[p].call = "open" => t \in program.paths,
         icache' = iunlock(icache, i), op' = [op EXCEPT ![p] = [op[p] EXCEPT !.at = "follow", !.ip = 0, !.cnt = n, !.path = t, !.puts = <<i>>]],
         program' = program, dinode' = dinode, cwd' = cwd, ofile' = ofile
  PROVE  IInv'
<1> DEFINE o == op[p]
           N == [o EXCEPT !.at = "follow", !.ip = 0, !.cnt = n, !.path = t, !.puts = <<i>>]
<1>1. o \in Activation /\ Shape(o)
  BY Here
<1>2. o.at = "opened" /\ o.puts = <<>> /\ o.iput = "check" /\ i \in Inums
  <2>1. o.at = "opened" /\ o.puts = <<>>
    BY DEF Is
  <2>2. o.ip # 0 /\ o.ip \in Number /\ o.iput = "check"
    BY <1>1, <2>1 DEF Shape, Refers, Puts, HasIp, HasDp, Activation
  <2> QED
    BY <2>1, <2>2 DEF Number
<1>3. o.wp = 0 /\ o.ip # 0 /\ o.ip \in Inums /\ o.dp = 0 /\ StageOf(o) /\ Args(o)
  BY <1>1, <1>2 DEF Shape, Refers, HasIp, HasDp, Args, Activation, Number
<1>4. 0 \in Number
  BY Values
<1>p. n \in Int /\ t \in program.paths \cup {None} /\ (o.call = "open" => t \in program.paths)
  OBVIOUS
<1>5. N \in Activation
  <2>1. "follow" \in Stages /\ 0 \in Number /\ n \in Int /\ t \in program.paths \cup {None} /\ <<i>> \in Seq(Inums)
    BY <1>1, <1>2, <1>3, <1>4, <1>p, Values DEF Stages
  <2>2. o \in Activation
    BY <1>1
  <2> QED
    BY <2>1, <2>2 DEF Activation
<1>6. /\ N.at = "follow" /\ N.wp = o.wp /\ N.ip = 0 /\ N.dp = o.dp /\ N.puts = <<i>>
      /\ N.iput = o.iput /\ N.call = o.call /\ N.arg = o.arg /\ N.path = t /\ N.name = o.name
  BY <1>1 DEF Activation
<1> HIDE DEF N
<1>7. Shape(N)
  <2>1. Refers(N)
    BY <1>2, <1>3, <1>4, <1>6, Values DEF Refers, HasIp, HasDp
  <2>2. Walks(N)
    BY <1>6 DEF Walks
  <2>3. StageOf(N)
    BY <1>2, <1>3, <1>6 DEF StageOf, Stage
  <2>4. Args(N)
    BY <1>3, <1>6, <1>p DEF Args, HasDp
  <2>5. Puts(N)
    BY <1>2, <1>6, PutsShape
  <2> QED
    BY <2>1, <2>2, <2>3, <2>4, <2>5 DEF Shape
<1>8. Refd(N, p, 0)
  <2> SUFFICES ASSUME NEW j \in Inums
               PROVE  Counts(N, cwd[p], ofile[p], j) = Counts(o, cwd[p], ofile[p], j) + B(0, j)
    BY DEF Refd
  <2>1. /\ Counts(N, cwd[p], ofile[p], j) = FixedRefs(N, cwd[p], ofile[p], j) + B(i, j)
        /\ Counts(o, cwd[p], ofile[p], j) = FixedRefs(o, cwd[p], ofile[p], j)
    BY <1>2, <1>6, CountsOnePut, CountsNoPut
  <2> QED
    BY <1>2, <1>3, <1>6, <2>1, Values DEF FixedRefs, B
<1>9. LockedBy(o, i) /\ \A j \in Inums : LockedBy(N, j) <=> LockedBy(o, j) /\ j # i
  BY <1>2, <1>3, <1>6 DEF LockedBy, LocksDp, LocksIp
<1>10. op' = [op EXCEPT ![p] = N]
  BY DEF N
<1> QED
  BY <1>2, <1>5, <1>7, <1>8, <1>9, <1>10, StepUnlock

-----------------------------------------------------------------------------
(* Steps that change the disk.                                             *)

LEMMA StepDisk ==
  ASSUME IInv, NEW p \in Procs, NEW N \in Activation, Shape(N), NEW e \in Number, Refd(N, p, e),
         icache' \in Table, dinode' \in [Inums -> Dinode], Exact(icache', dinode'),
         \A j \in Inums : icache'[j].ref = icache[j].ref + B(e, j),
         \A j \in Inums : icache'[j].lock = p <=> LockedBy(N, j),
         \A j \in Inums, q \in Procs \ {p} : icache'[j].lock = q <=> icache[j].lock = q,
         op' = [op EXCEPT ![p] = N], program' = program, cwd' = cwd, ofile' = ofile
  PROVE  IInv'
<1>1. /\ cwd \in [Procs -> Inums] /\ ofile \in [Procs -> File \cup {None}]
      /\ \A j \in Inums : icache[j].ref \in Nat
  BY Here
<1>2. CopiesExact'
  BY DEF CopiesExact, Exact, Inums
<1>3. \A j \in Inums : icache'[j].ref = icache[j].ref + Counts(N, cwd'[p], ofile'[p], j) - Counts(op[p], cwd[p], ofile[p], j)
  <2> SUFFICES ASSUME NEW j \in Inums
               PROVE  icache'[j].ref = icache[j].ref + Counts(N, cwd'[p], ofile'[p], j) - Counts(op[p], cwd[p], ofile[p], j)
    OBVIOUS
  <2>1. Counts(op[p], cwd[p], ofile[p], j) \in Nat /\ B(e, j) \in Nat
    BY CountsNat DEF B
  <2>2. Counts(N, cwd'[p], ofile'[p], j) = Counts(op[p], cwd[p], ofile[p], j) + B(e, j)
    BY DEF Refd
  <2> QED
    BY <1>1, <2>1, <2>2
<1>4. /\ cwd' \in [Procs -> Inums] /\ ofile' \in [Procs -> File \cup {None}]
      /\ \A q \in Procs \ {p} : cwd'[q] = cwd[q] /\ ofile'[q] = ofile[q]
  BY <1>1
<1> QED
  BY <1>2, <1>3, <1>4, Step

\* The same for a step that gets no reference.
LEMMA StepKeep ==
  ASSUME IInv, NEW p \in Procs, NEW N \in Activation, Shape(N), Refd(N, p, 0),
         icache' \in Table, dinode' \in [Inums -> Dinode], Exact(icache', dinode'),
         \A j \in Inums : icache'[j].ref = icache[j].ref,
         \A j \in Inums : icache'[j].lock = p <=> LockedBy(N, j),
         \A j \in Inums, q \in Procs \ {p} : icache'[j].lock = q <=> icache[j].lock = q,
         op' = [op EXCEPT ![p] = N], program' = program, cwd' = cwd, ofile' = ofile
  PROVE  IInv'
<1>1. \A j \in Inums : B(0, j) = 0 /\ icache[j].ref \in Nat
  BY Here, Values DEF B
<1>2. \A j \in Inums : icache'[j].ref = icache[j].ref + B(0, j)
  BY <1>1
<1>3. 0 \in Number
  BY Values
<1> QED
  BY <1>2, <1>3, StepDisk

LEMMA VisitFacts ==
  ASSUME IInv, NEW i \in Inums, icache[i].lock = None, icache[i].valid \/ dinode[i].type # "free",
         NEW C, C = Visit(icache, i)
  PROVE  /\ C \in Table /\ Exact(C, dinode)
         /\ \A j \in Inums : C[j].ref = icache[j].ref /\ C[j].lock = icache[j].lock
         /\ C[i].valid /\ C[i].nlink = Copy(i).nlink
<1>1. icache \in Table /\ dinode \in [Inums -> Dinode] /\ Exact(icache, dinode) /\ Typed
  BY DEF IInv, Typed, CopiesExact, Exact
<1>2. LockedAs(C, icache, i, None)
  BY <1>1, VisitTable
<1>3. Exact(C, dinode)
  BY <1>1, <1>2, ExactLocked
<1>4. C[i].nlink = Copy(i).nlink
  BY <1>1, <1>2, CopyIs DEF LockedAs
<1> QED
  BY <1>2, <1>3, <1>4 DEF LockedAs

LEMMA LockFacts ==
  ASSUME IInv, NEW p \in Procs, NEW i \in Inums, icache[i].lock = None,
         icache[i].valid \/ dinode[i].type # "free", NEW C, C = ilock(icache, i, p)
  PROVE  /\ C \in Table /\ Exact(C, dinode)
         /\ \A j \in Inums : C[j].ref = icache[j].ref /\ C[j].lock = IF j = i THEN p ELSE icache[j].lock
         /\ C[i].valid /\ C[i].type = Copy(i).type
<1>1. icache \in Table /\ dinode \in [Inums -> Dinode] /\ Exact(icache, dinode) /\ Typed
  BY DEF IInv, Typed, CopiesExact, Exact
<1>2. LockedAs(C, icache, i, p)
  BY <1>1, IlockTable
<1>3. Exact(C, dinode)
  BY <1>1, <1>2, ExactLocked
<1>4. C[i].type = Copy(i).type
  BY <1>1, <1>2, CopyIs DEF LockedAs
<1> QED
  BY <1>2, <1>3, <1>4 DEF LockedAs

LEMMA UnlockFacts ==
  ASSUME NEW T \in Table, Exact(T, dinode), NEW i \in Inums, NEW C, C = iunlock(T, i)
  PROVE  /\ C \in Table /\ Exact(C, dinode)
         /\ \A j \in Inums : /\ C[j].ref = T[j].ref /\ C[j].lock = IF j = i THEN None ELSE T[j].lock
                             /\ C[j].type = T[j].type /\ C[j].nlink = T[j].nlink
<1>1. UnlockedAs(C, T, i)
  BY IunlockTable
<1>2. Exact(C, dinode)
  BY <1>1, ExactUnlocked
<1> QED
  BY <1>1, <1>2 DEF UnlockedAs

\* A count of links and an entry change.
SetNlink(T, C, i, n) == T = [C EXCEPT ![i].nlink = n]
SetEntry(T, D, d, x, e, n) == T = [D EXCEPT ![d].ents[x] = e, ![d].nlink = n]

LEMMA NlinkTable ==
  ASSUME NEW C \in Table, NEW i \in Inums, NEW n \in Int, NEW T, SetNlink(T, C, i, n)
  PROVE  /\ T \in Table
         /\ \A j \in Inums : /\ T[j].ref = C[j].ref /\ T[j].lock = C[j].lock /\ T[j].type = C[j].type
                             /\ T[j].nlink = IF j = i THEN n ELSE C[j].nlink
         /\ \A j \in Inums : T[j].valid <=> C[j].valid
<1>1. T \in Table
  BY DEF Table, Inode, SetNlink
<1>2. \A j \in Inums : /\ T[j].ref = C[j].ref /\ T[j].lock = C[j].lock /\ T[j].type = C[j].type
                       /\ T[j].nlink = IF j = i THEN n ELSE C[j].nlink
  BY DEF Table, Inode, SetNlink
<1>3. \A j \in Inums : T[j].valid <=> C[j].valid
  BY DEF Table, Inode, SetNlink
<1> QED
  BY <1>1, <1>2, <1>3

LEMMA EntryDisk ==
  ASSUME NEW D \in [Inums -> Dinode], NEW d \in Inums, NEW x \in Entry, NEW e \in Number, NEW n \in Int,
         NEW T, SetEntry(T, D, d, x, e, n)
  PROVE  /\ T \in [Inums -> Dinode]
         /\ \A j \in Inums : T[j].type = D[j].type /\ T[j].nlink = IF j = d THEN n ELSE D[j].nlink
<1> DEFINE E == [D[d].ents EXCEPT ![x] = e]
           R == [D[d] EXCEPT !.ents = E, !.nlink = n]
<1>1. D[d] \in Dinode /\ D[d].ents \in [Entry -> Number]
  BY DEF Dinode
<1>2. E \in [Entry -> Number]
  BY <1>1
<1>3. T = [D EXCEPT ![d] = R]
  BY DEF SetEntry
<1> HIDE DEF E
<1>4. R \in Dinode /\ R.type = D[d].type /\ R.nlink = n
  BY <1>1, <1>2 DEF Dinode
<1> HIDE DEF R
<1> QED
  BY <1>3, <1>4

LEMMA SetLinksTable ==
  ASSUME NEW C \in Table, Exact(C, dinode), dinode \in [Inums -> Dinode], NEW i \in Inums, NEW n \in Int,
         SetLinks(i, C, dinode, n)
  PROVE  /\ icache' \in Table /\ dinode' \in [Inums -> Dinode] /\ Exact(icache', dinode')
         /\ \A j \in Inums : icache'[j].ref = C[j].ref /\ icache'[j].lock = C[j].lock
<1>1. icache' = [C EXCEPT ![i].nlink = n] /\ dinode' = [dinode EXCEPT ![i].nlink = n]
  BY DEF SetLinks
<1>2. icache' \in Table
  BY <1>1 DEF Table, Inode
<1>3. dinode' \in [Inums -> Dinode]
  BY <1>1 DEF Dinode
<1>4. \A j \in Inums : /\ icache'[j].ref = C[j].ref /\ icache'[j].lock = C[j].lock
                       /\ icache'[j].type = C[j].type /\ icache'[j].nlink = IF j = i THEN n ELSE C[j].nlink
  BY <1>1 DEF Table, Inode
<1>5. \A j \in Inums : icache'[j].valid <=> C[j].valid
  BY <1>1 DEF Table, Inode
<1>6. \A j \in Inums : dinode'[j].type = dinode[j].type /\ dinode'[j].nlink = IF j = i THEN n ELSE dinode[j].nlink
  BY <1>1 DEF Dinode
<1> QED
  BY <1>2, <1>3, <1>4, <1>5, <1>6 DEF Exact

-----------------------------------------------------------------------------
(* link() and unlink().                                                    *)

LEMMA sys_linkInv ==
  ASSUME IInv, NEW p \in Procs, sys_link(p)
  PROVE  IInv'
<1> DEFINE o == op[p]
           i == o.ip
           s == Start(p, o.arg)
           V == Visit(icache, i)
<1>1. Locks(p, "link1") /\ program' = program /\ cwd' = cwd /\ ofile' = ofile
  BY DEF sys_link
<1>2. /\ o.at = "link1" /\ o.puts = <<>> /\ o.iput = "check" /\ i \in Inums /\ icache[i].lock = None
      /\ icache[i].valid \/ dinode[i].type # "free"
      /\ i = Wants(p)
  BY <1>1, Gets
<1>3. o \in Activation /\ Shape(o) /\ Typed
  BY Here DEF IInv
<1>4. CASE Copy(i).type = "dir"
  <2>1. Return(p, <<i>>) /\ icache' = Visit(icache, i) /\ dinode' = dinode
    BY <1>4 DEF sys_link
  <2> QED
    BY <1>1, <1>2, <2>1, ReturnVisit
<1>5. CASE Copy(i).type # "dir"
  <2> DEFINE N == Walking(p, o, o.arg, TRUE, "link2")
             n == Copy(i).nlink + 1
  <2>1. SetLinks(i, iget(V, s), dinode, n) /\ op' = [op EXCEPT ![p] = N]
    BY <1>5 DEF sys_link, Become
  <2>2. /\ o.wp = 0 /\ o.dp = 0 /\ o.ip # 0 /\ o.call = "link" /\ o.arg \in program.paths
    BY <1>2, <1>3 DEF Shape, Refers, HasIp, HasDp, StageOf, Stage, Args
  <2>3. Args([o EXCEPT !.at = "walk"])
    <3>1. LET a == [o EXCEPT !.at = "walk"] IN a.at = "walk" /\ a.call = o.call /\ a.arg = o.arg
      BY <1>3 DEF Activation
    <3> QED
      BY <2>2, <3>1 DEF Args, HasDp
  <2>4. /\ N \in Activation /\ Shape(N) /\ s \in Inums
        /\ \A c, f : \A j \in Inums : Counts(N, c, f, j) = Counts(o, c, f, j) + B(s, j)
        /\ \A j \in Inums : ~LockedBy(N, j)
    <3>1. "link2" \in Stages
      BY DEF Stages
    <3> QED
      BY <1>2, <1>3, <2>2, <2>3, <3>1, WalkingShape
  <2> HIDE DEF N, s
  <2>5. /\ V \in Table /\ Exact(V, dinode)
        /\ \A j \in Inums : V[j].ref = icache[j].ref /\ V[j].lock = icache[j].lock
    BY <1>2, VisitFacts
  <2> HIDE DEF V
  <2>6. GottenAs(iget(V, s), V, s)
    BY <2>4, <2>5, IgetTable
  <2>7. Exact(iget(V, s), dinode) /\ iget(V, s) \in Table
    BY <2>4, <2>5, <2>6, ExactGotten DEF GottenAs
  <2>8. n \in Int /\ dinode \in [Inums -> Dinode]
    BY <1>2, <1>3, CopyIs DEF Typed
  <2> HIDE DEF n
  <2>9. /\ icache' \in Table /\ dinode' \in [Inums -> Dinode] /\ Exact(icache', dinode')
        /\ \A j \in Inums : icache'[j].ref = iget(V, s)[j].ref /\ icache'[j].lock = iget(V, s)[j].lock
    BY <1>2, <2>1, <2>7, <2>8, SetLinksTable
  <2>10. \A j \in Inums : icache'[j].lock = icache[j].lock
    BY <2>5, <2>6, <2>9 DEF GottenAs
  <2>16. \A j \in Inums : icache'[j].ref = icache[j].ref + B(s, j)
    BY <2>5, <2>6, <2>9 DEF GottenAs, B
  <2>17. op' = [op EXCEPT ![p] = N]
    BY <2>1
  <2>11. Refd(N, p, s)
    BY <2>4 DEF Refd
  <2>12. \A j \in Inums : icache[j].lock = p <=> LockedBy(o, j)
    BY Here
  <2>13. \A j \in Inums : icache'[j].lock = p <=> LockedBy(N, j)
    BY <1>2, <2>4, <2>10, <2>12, NoLock DEF LocksDp, LocksIp
  <2>14. \A j \in Inums, q \in Procs \ {p} : icache'[j].lock = q <=> icache[j].lock = q
    BY <2>10
  <2>15. s \in Number
    BY <2>4, Values
  <2> QED
    BY <1>1, <2>4, <2>9, <2>11, <2>13, <2>14, <2>15, <2>16, <2>17, StepDisk
<1> QED
  BY <1>4, <1>5

LEMMA LinkEntryInv ==
  ASSUME IInv, NEW p \in Procs, LinkEntry(p)
  PROVE  IInv'
<1> DEFINE o == op[p]
           d == o.dp
           e == dinode[d].ents[o.name]
<1>1. Locks(p, "link2") /\ program' = program /\ cwd' = cwd /\ ofile' = ofile
  BY DEF LinkEntry
<1>2. /\ o.at = "link2" /\ o.puts = <<>> /\ o.iput = "check" /\ d \in Inums /\ icache[d].lock = None
      /\ icache[d].valid \/ dinode[d].type # "free"
  BY <1>1, Gets
<1>3. CASE e # 0
  <2>1. /\ icache' = iget(ilock(icache, d, p), e) /\ dinode' = dinode
        /\ op' = [op EXCEPT ![p] = [o EXCEPT !.at = "linkfail", !.puts = <<e>>]]
    BY <1>3 DEF LinkEntry, Become
  <2> QED
    BY <1>1, <1>3, <2>1, LinkEntryExists
<1>4. CASE e = 0 /\ dinode' = dinode /\ op' = [op EXCEPT ![p] = [o EXCEPT !.at = "linkbad", !.dp = 0, !.puts = <<d>>]]
  <2>1. icache' = Visit(icache, d)
    BY <1>4 DEF LinkEntry
  <2> QED
    BY <1>1, <1>4, <2>1, LinkEntryFull
<1>5. CASE e = 0 /\ dinode' = [dinode EXCEPT ![d].ents[o.name] = o.ip] /\ op' = [op EXCEPT ![p] = Ended(<<d, o.ip>>)]
  <2>1. icache' = Visit(icache, d)
    BY <1>5 DEF LinkEntry
  <2>2. PICK N : N = Ended(<<d, o.ip>>)
    OBVIOUS
  <2>3. o \in Activation /\ Shape(o) /\ dinode \in [Inums -> Dinode]
    BY Here
  <2>4. o.wp = 0 /\ o.ip # 0 /\ o.ip \in Number /\ o.name \in Entry
    BY <1>2, <2>3 DEF Shape, Refers, Args, HasIp, HasDp, Activation
  <2>5. o.ip \in Inums /\ <<d, o.ip>> \in Seq(Inums)
    BY <1>2, <2>4 DEF Number
  <2>6. /\ N \in Activation /\ Shape(N)
        /\ N.at = "user" /\ N.wp = 0 /\ N.ip = 0 /\ N.dp = 0 /\ N.puts = <<d, o.ip>>
        /\ \A j \in Inums : ~LockedBy(N, j)
    BY <2>2, <2>5, ReturnShape
  <2>7. Refd(N, p, 0)
    <3> SUFFICES ASSUME NEW j \in Inums
                 PROVE  Counts(N, cwd[p], ofile[p], j) = Counts(o, cwd[p], ofile[p], j) + B(0, j)
      BY DEF Refd
    <3>1. Counts(N, cwd[p], ofile[p], j) = FixedRefs(N, cwd[p], ofile[p], j) + B(d, j) + B(o.ip, j)
      BY <2>6, CountsTwoPuts
    <3>2. Counts(o, cwd[p], ofile[p], j) = FixedRefs(o, cwd[p], ofile[p], j)
      BY <1>2, CountsNoPut
    <3> QED
      BY <1>2, <2>4, <2>6, <3>1, <3>2, Values DEF FixedRefs, B
  <2>8. /\ icache' \in Table /\ Exact(icache', dinode)
        /\ \A j \in Inums : icache'[j].ref = icache[j].ref /\ icache'[j].lock = icache[j].lock
    BY <1>2, <2>1, VisitFacts
  <2>9. dinode' \in [Inums -> Dinode]
    BY <1>2, <1>5, <2>3, <2>4 DEF Dinode
  <2>10. \A j \in Inums : dinode'[j].type = dinode[j].type /\ dinode'[j].nlink = dinode[j].nlink
    BY <1>2, <1>5, <2>3 DEF Dinode
  <2>11. Exact(icache', dinode')
    BY <2>8, <2>10 DEF Exact
  <2>12. \A j \in Inums : icache'[j].ref = icache[j].ref + B(0, j)
    <3>1. \A j \in Inums : B(0, j) = 0 /\ icache[j].ref \in Nat
      BY Here, Values DEF B
    <3> QED
      BY <2>8, <3>1
  <2>13. \A j \in Inums : icache[j].lock = p <=> LockedBy(o, j)
    BY Here
  <2>14. \A j \in Inums : icache'[j].lock = p <=> LockedBy(N, j)
    BY <1>2, <2>6, <2>8, <2>13, NoLock DEF LocksDp, LocksIp
  <2>15. \A j \in Inums, q \in Procs \ {p} : icache'[j].lock = q <=> icache[j].lock = q
    BY <2>8
  <2>16. op' = [op EXCEPT ![p] = N] /\ 0 \in Number
    BY <1>5, <2>2, Values
  <2> QED
    BY <1>1, <2>6, <2>7, <2>8, <2>9, <2>11, <2>12, <2>14, <2>15, <2>16, StepDisk
<1> QED
  BY <1>3, <1>4, <1>5 DEF LinkEntry, Return, Become, Ended

LEMMA LinkFailsInv ==
  ASSUME IInv, NEW p \in Procs, LinkFails(p)
  PROVE  IInv'
BY LinkFailsStep DEF LinkFails, Become

LEMMA FailedInv ==
  ASSUME IInv, NEW p \in Procs, Failed(p)
  PROVE  IInv'
<1>1. /\ Is(p, "failed") /\ icache' = iunlock(icache, op[p].dp) /\ Return(p, <<op[p].dp>>)
      /\ program' = program /\ dinode' = dinode /\ cwd' = cwd /\ ofile' = ofile
  BY DEF Failed
<1>2. "failed" \in {"failed", "ialloc", "opened", "created"}
      /\ op[p].dp = IF "failed" \in {"failed", "ialloc"} THEN op[p].dp ELSE op[p].ip
  OBVIOUS
<1> QED
  BY <1>1, <1>2, ReturnUnlock

LEMMA sys_unlinkInv ==
  ASSUME IInv, NEW p \in Procs, sys_unlink(p)
  PROVE  IInv'
<1> DEFINE o == op[p]
           d == o.dp
           e == dinode[d].ents[o.name]
<1>1. Locks(p, "unlink1") /\ program' = program /\ dinode' = dinode /\ cwd' = cwd /\ ofile' = ofile
  BY DEF sys_unlink
<1>2. CASE o.name \in Dots \/ e = 0
  <2>1. Return(p, <<d>>) /\ icache' = Visit(icache, d)
    BY <1>2 DEF sys_unlink
  <2>2. d = Wants(p)
    BY <1>1, Gets
  <2> QED
    BY <1>1, <2>1, <2>2, ReturnVisit
<1>3. CASE ~(o.name \in Dots \/ e = 0)
  <2>1. /\ icache' = iget(ilock(icache, d, p), e) /\ e # 0
        /\ op' = [op EXCEPT ![p] = [o EXCEPT !.at = "unlink2", !.ip = e]]
    BY <1>3 DEF sys_unlink, Become
  <2> QED
    BY <1>1, <2>1, UnlinkFound
<1> QED
  BY <1>2, <1>3

LEMMA LinkBadInv ==
  ASSUME IInv, NEW p \in Procs, LinkBad(p)
  PROVE  IInv'
<1> DEFINE o == op[p]
           i == o.ip
           V == Visit(icache, i)
           n == Copy(i).nlink - 1
<1>0. PICK N : N = Ended(<<i>>)
  OBVIOUS
<1>1. /\ Locks(p, "linkbad") /\ program' = program /\ cwd' = cwd /\ ofile' = ofile
      /\ SetLinks(i, V, dinode, n) /\ op' = [op EXCEPT ![p] = N]
  BY <1>0 DEF LinkBad, Return, Ended
<1>2. /\ o.at = "linkbad" /\ o.puts = <<>> /\ o.iput = "check" /\ i \in Inums /\ icache[i].lock = None
      /\ icache[i].valid \/ dinode[i].type # "free"
  BY <1>1, Gets
<1>3. o \in Activation /\ Shape(o) /\ dinode \in [Inums -> Dinode] /\ Typed
  BY Here DEF IInv
<1>4. o.wp = 0 /\ o.dp = 0
  BY <1>2, <1>3 DEF Shape, Refers, HasIp, HasDp
<1>5. /\ N \in Activation /\ Shape(N)
      /\ N.at = "user" /\ N.wp = 0 /\ N.ip = 0 /\ N.dp = 0 /\ N.puts = <<i>>
      /\ \A j \in Inums : ~LockedBy(N, j)
  <2>1. <<i>> \in Seq(Inums)
    BY <1>2
  <2> QED
    BY <1>0, <2>1, ReturnShape
<1>6. Refd(N, p, 0)
  <2> SUFFICES ASSUME NEW j \in Inums
               PROVE  Counts(N, cwd[p], ofile[p], j) = Counts(o, cwd[p], ofile[p], j) + B(0, j)
    BY DEF Refd
  <2>1. /\ Counts(N, cwd[p], ofile[p], j) = FixedRefs(N, cwd[p], ofile[p], j) + B(i, j)
        /\ Counts(o, cwd[p], ofile[p], j) = FixedRefs(o, cwd[p], ofile[p], j)
    BY <1>2, <1>5, CountsOnePut, CountsNoPut
  <2> QED
    BY <1>2, <1>4, <1>5, <2>1, Values DEF FixedRefs, B
<1>7. /\ V \in Table /\ Exact(V, dinode)
      /\ \A j \in Inums : V[j].ref = icache[j].ref /\ V[j].lock = icache[j].lock
  BY <1>2, VisitFacts
<1>8. n \in Int
  BY <1>2, <1>3, CopyIs
<1> HIDE DEF V, n
<1>9. /\ icache' \in Table /\ dinode' \in [Inums -> Dinode] /\ Exact(icache', dinode')
      /\ \A j \in Inums : icache'[j].ref = V[j].ref /\ icache'[j].lock = V[j].lock
  BY <1>1, <1>2, <1>3, <1>7, <1>8, SetLinksTable
<1>10. \A j \in Inums : icache'[j].ref = icache[j].ref
  BY <1>7, <1>9
<1>11. \A j \in Inums : icache'[j].lock = p <=> LockedBy(N, j)
  <2>1. \A j \in Inums : icache[j].lock = p <=> LockedBy(o, j)
    BY Here
  <2> QED
    BY <1>2, <1>5, <1>7, <1>9, <2>1, NoLock DEF LocksDp, LocksIp
<1>12. \A j \in Inums, q \in Procs \ {p} : icache'[j].lock = q <=> icache[j].lock = q
  BY <1>7, <1>9
<1>13. op' = [op EXCEPT ![p] = N]
  BY <1>1
<1> QED
  BY <1>1, <1>5, <1>6, <1>9, <1>10, <1>11, <1>12, <1>13, StepKeep

\* A call that has its inode locked changes its links and returns.
LEMMA ReturnSets ==
  ASSUME IInv, NEW p \in Procs, NEW w \in {"unlink3", "created"}, Is(p, w), NEW i, i = op[p].ip, NEW n \in Int,
         SetLinks(i, iunlock(icache, i), dinode, n), Return(p, <<i>>),
         program' = program, cwd' = cwd, ofile' = ofile
  PROVE  IInv'
<1> DEFINE N == Ended(<<i>>)
           C == iunlock(icache, i)
<1>1. /\ N \in Activation /\ Shape(N) /\ Refd(N, p, 0) /\ i \in Inums /\ LockedBy(op[p], i)
      /\ \A j \in Inums : LockedBy(N, j) <=> LockedBy(op[p], j) /\ j # i
  <2>1. w \in {"failed", "ialloc", "opened", "created", "unlink3"} /\ w \notin {"failed", "ialloc"}
    OBVIOUS
  <2> QED
    BY <2>1, ReturnFacts
<1>2. op' = [op EXCEPT ![p] = N]
  BY DEF Return, Ended
<1> HIDE DEF N
<1>3. /\ icache \in Table /\ Exact(icache, dinode) /\ dinode \in [Inums -> Dinode]
      /\ \A j \in Inums : icache[j].lock = p <=> LockedBy(op[p], j)
  BY Here
<1>4. /\ C \in Table /\ Exact(C, dinode)
      /\ \A j \in Inums : C[j].ref = icache[j].ref /\ C[j].lock = IF j = i THEN None ELSE icache[j].lock
  BY <1>1, <1>3, UnlockFacts
<1>5. SetLinks(i, C, dinode, n)
  OBVIOUS
<1> HIDE DEF C
<1>6. /\ icache' \in Table /\ dinode' \in [Inums -> Dinode] /\ Exact(icache', dinode')
      /\ \A j \in Inums : icache'[j].ref = C[j].ref /\ icache'[j].lock = C[j].lock
  BY <1>1, <1>3, <1>4, <1>5, SetLinksTable
<1>7. \A j \in Inums : icache'[j].ref = icache[j].ref
  BY <1>4, <1>6
<1>8. \A j \in Inums : icache'[j].lock = p <=> LockedBy(N, j)
  BY <1>1, <1>3, <1>4, <1>6, NoneAssumption
<1>9. \A j \in Inums, q \in Procs \ {p} : icache'[j].lock = q <=> icache[j].lock = q
  BY <1>1, <1>3, <1>4, <1>6, NoneAssumption
<1> QED
  BY <1>1, <1>2, <1>6, <1>7, <1>8, <1>9, StepKeep

LEMMA UnlinkedInv ==
  ASSUME IInv, NEW p \in Procs, Unlinked(p)
  PROVE  IInv'
<1> DEFINE i == op[p].ip
           n == icache[i].nlink - 1
<1>1. /\ Is(p, "unlink3") /\ program' = program /\ cwd' = cwd /\ ofile' = ofile
      /\ SetLinks(i, iunlock(icache, i), dinode, n) /\ Return(p, <<i>>)
  BY DEF Unlinked
<1>2. op[p] \in Activation /\ Shape(op[p]) /\ icache \in Table
  BY Here
<1>3. i \in Inums
  BY <1>1, <1>2 DEF Is, Shape, Refers, HasIp, Activation, Number
<1>4. n \in Int
  BY <1>2, <1>3 DEF Table, Inode
<1> HIDE DEF n
<1> QED
  BY <1>1, <1>4, ReturnSets

\* The entry goes, and with a directory a link of its parent.
LEMMA UnlinkRemoves ==
  ASSUME IInv, NEW p \in Procs, UnlinkEntry(p), ~(Copy(op[p].ip).type = "dir" /\ ~isdirempty(op[p].ip))
  PROVE  IInv'
<1> DEFINE o == op[p]
           i == o.ip
           d == o.dp
           less == IF Copy(i).type = "dir" THEN 1 ELSE 0
           N == [o EXCEPT !.at = "unlink3", !.dp = 0, !.puts = <<d>>]
           L == ilock(icache, i, p)
           U == iunlock(L, d)
<1>0. /\ Locks(p, "unlink2") /\ program' = program /\ cwd' = cwd /\ ofile' = ofile /\ less \in Int
      /\ icache' = [U EXCEPT ![d].nlink = U[d].nlink - less]
      /\ dinode' = [dinode EXCEPT ![d].ents[o.name] = 0, ![d].nlink = dinode[d].nlink - less]
      /\ op' = [op EXCEPT ![p] = N]
  BY DEF UnlinkEntry, Become
<1> HIDE DEF less
<1>1. /\ o \in Activation /\ Shape(o) /\ icache \in Table /\ Exact(icache, dinode) /\ dinode \in [Inums -> Dinode]
      /\ \A j \in Inums : icache[j].lock = p <=> LockedBy(o, j)
  BY Here
<1>2. /\ o.at = "unlink2" /\ o.puts = <<>> /\ o.iput = "check" /\ i \in Inums /\ icache[i].lock = None
      /\ icache[i].valid \/ dinode[i].type # "free"
  BY <1>0, Gets
<1>3. o.wp = 0 /\ o.ip # 0 /\ o.dp # 0 /\ o.dp \in Inums /\ o.name \in Entry /\ StageOf(o) /\ Args(o)
  BY <1>1, <1>2 DEF Shape, Refers, HasIp, HasDp, Args, Activation, Number
<1>4. 0 \in Number /\ d \in Inums
  BY <1>3, Values
<1>5. N \in Activation
  <2>1. "unlink3" \in Stages /\ 0 \in Number /\ <<d>> \in Seq(Inums)
    BY <1>4, Values DEF Stages
  <2>2. o \in Activation
    BY <1>1
  <2> QED
    BY <2>1, <2>2 DEF Activation
<1>6. /\ N.at = "unlink3" /\ N.wp = o.wp /\ N.ip = o.ip /\ N.dp = 0 /\ N.puts = <<d>>
      /\ N.iput = o.iput /\ N.call = o.call /\ N.arg = o.arg /\ N.path = o.path
  BY <1>1 DEF Activation
<1>7. op' = [op EXCEPT ![p] = N]
  BY <1>0
<1> HIDE DEF N
<1>8. Shape(N)
  <2>1. Refers(N)
    BY <1>2, <1>3, <1>6 DEF Refers, HasIp, HasDp
  <2>2. Walks(N)
    BY <1>6 DEF Walks
  <2>3. StageOf(N)
    BY <1>2, <1>3, <1>6 DEF StageOf, Stage
  <2>4. Args(N)
    BY <1>3, <1>6 DEF Args, HasDp
  <2>5. Puts(N)
    BY <1>2, <1>6, PutsShape
  <2> QED
    BY <2>1, <2>2, <2>3, <2>4, <2>5 DEF Shape
<1>9. Refd(N, p, 0)
  <2> SUFFICES ASSUME NEW j \in Inums
               PROVE  Counts(N, cwd[p], ofile[p], j) = Counts(o, cwd[p], ofile[p], j) + B(0, j)
    BY DEF Refd
  <2>1. /\ Counts(N, cwd[p], ofile[p], j) = FixedRefs(N, cwd[p], ofile[p], j) + B(d, j)
        /\ Counts(o, cwd[p], ofile[p], j) = FixedRefs(o, cwd[p], ofile[p], j)
    BY <1>2, <1>6, CountsOnePut, CountsNoPut
  <2> QED
    BY <1>2, <1>3, <1>4, <1>6, <2>1, Values DEF FixedRefs, B
<1>10. \A j \in Inums : LockedBy(o, j) <=> j = d
  BY <1>2 DEF LockedBy, LocksDp, LocksIp
<1>11. \A j \in Inums : LockedBy(N, j) <=> j = i
  BY <1>2, <1>6 DEF LockedBy, LocksDp, LocksIp
<1>12. i # d
  BY <1>1, <1>2, <1>4, <1>10, NoneAssumption
<1>13. /\ L \in Table /\ Exact(L, dinode)
       /\ \A j \in Inums : L[j].ref = icache[j].ref /\ L[j].lock = IF j = i THEN p ELSE icache[j].lock
  BY <1>2, LockFacts
<1> HIDE DEF L
<1>14. /\ U \in Table /\ Exact(U, dinode)
       /\ \A j \in Inums : U[j].ref = L[j].ref /\ U[j].lock = IF j = d THEN None ELSE L[j].lock
  BY <1>4, <1>13, UnlockFacts
<1>15. icache' = [U EXCEPT ![d].nlink = U[d].nlink - less] /\ less \in Int
  BY <1>0
<1> HIDE DEF U
<1>16. PICK n, m : n = U[d].nlink - less /\ m = dinode[d].nlink - less
  OBVIOUS
<1>17. n \in Int /\ m \in Int /\ U[d].nlink \in Int /\ dinode[d].nlink \in Int
  BY <1>1, <1>4, <1>14, <1>15, <1>16 DEF Table, Inode, Dinode
<1>18. /\ icache' \in Table
       /\ \A j \in Inums : /\ icache'[j].ref = U[j].ref /\ icache'[j].lock = U[j].lock /\ icache'[j].type = U[j].type
                           /\ icache'[j].nlink = IF j = d THEN n ELSE U[j].nlink
       /\ \A j \in Inums : icache'[j].valid <=> U[j].valid
  <2>1. SetNlink(icache', U, d, n)
    BY <1>15, <1>16 DEF SetNlink
  <2> QED
    BY <1>4, <1>14, <1>17, <2>1, NlinkTable
<1>19. /\ dinode' \in [Inums -> Dinode]
       /\ \A j \in Inums : dinode'[j].type = dinode[j].type /\ dinode'[j].nlink = IF j = d THEN m ELSE dinode[j].nlink
  <2>1. SetEntry(dinode', dinode, d, o.name, 0, m)
    BY <1>0, <1>16 DEF SetEntry
  <2> QED
    BY <1>1, <1>3, <1>4, <1>17, <2>1, EntryDisk
<1>20. Exact(icache', dinode')
  <2> SUFFICES ASSUME NEW j \in Inums, icache'[j].valid /\ icache'[j].ref > 0
               PROVE  icache'[j].type = dinode'[j].type /\ icache'[j].nlink = dinode'[j].nlink /\ icache'[j].type # "free"
    BY DEF Exact
  <2>1. U[j].valid /\ U[j].ref > 0
    BY <1>18
  <2>2. U[j].type = dinode[j].type /\ U[j].nlink = dinode[j].nlink /\ U[j].type # "free"
    BY <1>14, <2>1 DEF Exact
  <2>3. j = d => n = m
    BY <1>16, <2>2
  <2> QED
    BY <1>18, <1>19, <2>2, <2>3
<1>21. \A j \in Inums : icache'[j].ref = icache[j].ref
  BY <1>13, <1>14, <1>18
<1>22. \A j \in Inums : icache'[j].lock = p <=> LockedBy(N, j)
  BY <1>1, <1>10, <1>11, <1>12, <1>13, <1>14, <1>18, NoneAssumption
<1>23. \A j \in Inums, q \in Procs \ {p} : icache'[j].lock = q <=> icache[j].lock = q
  BY <1>1, <1>2, <1>10, <1>12, <1>13, <1>14, <1>18, NoneAssumption
<1> QED
  BY <1>0, <1>5, <1>7, <1>8, <1>9, <1>18, <1>19, <1>20, <1>21, <1>22, <1>23, StepKeep

LEMMA UnlinkEntryInv ==
  ASSUME IInv, NEW p \in Procs, UnlinkEntry(p)
  PROVE  IInv'
<1> DEFINE o == op[p]
           i == o.ip
<1>1. Locks(p, "unlink2") /\ program' = program /\ cwd' = cwd /\ ofile' = ofile
  BY DEF UnlinkEntry
<1>2. CASE Copy(i).type = "dir" /\ ~isdirempty(i)
  <2>1. /\ icache' = Visit(icache, i) /\ dinode' = dinode
        /\ op' = [op EXCEPT ![p] = [o EXCEPT !.at = "failed", !.ip = 0, !.puts = <<i>>]]
    BY <1>2 DEF UnlinkEntry, Become
  <2> QED
    BY <1>1, <2>1, UnlinkNotEmpty
<1>3. CASE ~(Copy(i).type = "dir" /\ ~isdirempty(i))
  BY <1>3, UnlinkRemoves
<1> QED
  BY <1>2, <1>3

-----------------------------------------------------------------------------
(* create() and open().                                                    *)

LEMMA createInv ==
  ASSUME IInv, NEW p \in Procs, create(p)
  PROVE  IInv'
<1> DEFINE o == op[p]
           d == o.dp
           e == dinode[d].ents[o.name]
<1>1. Locks(p, "create") /\ program' = program /\ dinode' = dinode /\ cwd' = cwd /\ ofile' = ofile
  BY DEF create
<1>2. CASE e # 0
  <2>1. /\ icache' = iget(Visit(icache, d), e)
        /\ op' = [op EXCEPT ![p] = [o EXCEPT !.at = "exists", !.ip = e, !.dp = 0, !.puts = <<d>>]]
    BY <1>2 DEF create, Become
  <2> QED
    BY <1>1, <1>2, <2>1, CreateExists
<1>3. CASE e = 0
  <2>1. icache' = ilock(icache, d, p) /\ op' = [op EXCEPT ![p] = [o EXCEPT !.at = "ialloc"]]
    BY <1>3 DEF create, Become
  <2> QED
    BY <1>1, <2>1, CreateNew
<1> QED
  BY <1>2, <1>3

LEMMA ExistsInv ==
  ASSUME IInv, NEW p \in Procs, Exists(p)
  PROVE  IInv'
<1> DEFINE o == op[p]
           i == o.ip
<1>1. Locks(p, "exists") /\ program' = program /\ dinode' = dinode /\ cwd' = cwd /\ ofile' = ofile
  BY DEF Exists
<1>2. CASE o.call = "open" /\ Copy(i).type \in {"file", "dev", "baddev"}
  <2>1. icache' = ilock(icache, i, p) /\ op' = [op EXCEPT ![p] = [o EXCEPT !.at = "opened"]]
    BY <1>2 DEF Exists, Become
  <2> QED
    BY <1>1, <1>2, <2>1, ExistsOpens
<1>3. CASE ~(o.call = "open" /\ Copy(i).type \in {"file", "dev", "baddev"})
  <2>1. Return(p, <<i>>) /\ icache' = Visit(icache, i)
    BY <1>3 DEF Exists
  <2>2. i = Wants(p)
    BY <1>1, Gets
  <2> QED
    BY <1>1, <2>1, <2>2, ReturnVisit
<1> QED
  BY <1>2, <1>3

LEMMA sys_openInv ==
  ASSUME IInv, NEW p \in Procs, sys_open(p)
  PROVE  IInv'
<1> DEFINE o == op[p]
           i == o.ip
<1>1. Locks(p, "open") /\ program' = program /\ dinode' = dinode /\ cwd' = cwd /\ ofile' = ofile
  BY DEF sys_open
<1>2. CASE ~(Copy(i).type = "dir" /\ o.arg # "read")
  <2>1. icache' = ilock(icache, i, p) /\ op' = [op EXCEPT ![p] = [o EXCEPT !.at = "opened"]]
    BY <1>2 DEF sys_open, Become
  <2> QED
    BY <1>1, <2>1, OpenOpens
<1>3. CASE Copy(i).type = "dir" /\ o.arg # "read"
  <2>1. Return(p, <<i>>) /\ icache' = Visit(icache, i)
    BY <1>3 DEF sys_open
  <2>2. i = Wants(p)
    BY <1>1, Gets
  <2> QED
    BY <1>1, <2>1, <2>2, ReturnVisit
<1> QED
  BY <1>2, <1>3

LEMMA FollowedInv ==
  ASSUME IInv, NEW p \in Procs, Followed(p)
  PROVE  IInv'
<1>1. /\ Locks(p, "follow2") /\ program' = program /\ dinode' = dinode /\ cwd' = cwd /\ ofile' = ofile
      /\ icache' = ilock(icache, op[p].ip, p) /\ op' = [op EXCEPT ![p] = [op[p] EXCEPT !.at = "opened"]]
  BY DEF Followed, Become
<1> QED
  BY <1>1, FollowedOpens

LEMMA FollowLinkInv ==
  ASSUME IInv, NEW p \in Procs, FollowLink(p)
  PROVE  IInv'
<1> DEFINE o == op[p]
           i == o.ip
           n == o.cnt - 1
           t == ReadTarget(i, o.path)
<1>1. /\ Is(p, "opened") /\ icache' = iunlock(icache, i)
      /\ program' = program /\ dinode' = dinode /\ cwd' = cwd /\ ofile' = ofile
  BY DEF FollowLink
<1>2. CASE o.cnt = 1
  <2>1. Return(p, <<i>>)
    BY <1>2 DEF FollowLink
  <2>2. /\ "opened" \in {"failed", "ialloc", "opened", "created"}
        /\ i = IF "opened" \in {"failed", "ialloc"} THEN o.dp ELSE o.ip
    OBVIOUS
  <2> QED
    BY <1>1, <2>1, <2>2, ReturnUnlock
<1>3. CASE o.cnt # 1
  <2>1. op' = [op EXCEPT ![p] = [o EXCEPT !.at = "follow", !.ip = 0, !.cnt = n, !.path = t, !.puts = <<i>>]]
    BY <1>3 DEF FollowLink, Become
  <2>2. o \in Activation /\ Shape(o) /\ dinode \in [Inums -> Dinode]
    BY Here
  <2>3. i \in Inums
    BY <1>1, <2>2 DEF Is, Shape, Refers, HasIp, Activation, Number
  <2>4. dinode[i].target \in program.paths \cup {None}
    BY <2>2, <2>3 DEF Dinode
  <2>5. o.cnt \in Int /\ o.path \in program.paths \cup {None} /\ (o.call = "open" => o.path \in program.paths)
    BY <2>2 DEF Activation, Shape, Args
  <2>6. n \in Int /\ t \in program.paths \cup {None} /\ (o.call = "open" => t \in program.paths)
    BY <2>4, <2>5 DEF ReadTarget
  <2> HIDE DEF n, t
  <2> QED
    BY <1>1, <2>1, <2>6, FollowNext
<1> QED
  BY <1>2, <1>3

\* A set of numbers that is not empty has a least one.
LEMMA Least ==
  ASSUME NEW S \in SUBSET Nat, S # {}
  PROVE  Min(S) \in S /\ \A y \in S : Min(S) <= y
<1> DEFINE R == OpToRel(<, Nat)
<1>1. \A x, y \in Nat : <<x, y>> \in R <=> x < y
  BY DEF OpToRel
<1>2. IsWellFoundedOn(R, Nat)
  BY NatLessThanWellFounded
<1> HIDE DEF R
<1>3. PICK x \in S : \A y \in S : ~(<<y, x>> \in R)
  BY <1>2, WFMin
<1>4. \A y \in S : x <= y
  <2> TAKE y \in S
  <2>1. x \in Nat /\ y \in Nat
    OBVIOUS
  <2>2. ~(y < x)
    BY <1>1, <1>3, <2>1
  <2> QED
    BY <2>1, <2>2
<1> QED
  BY <1>4 DEF Min

LEMMA TypeForType ==
  ASSUME NEW o, Shape(o), Stage(o) = "ialloc"
  PROVE  TypeFor(o) \in Types /\ TypeFor(o) # "free"
<1>1. o.call \in {"open", "mkdir", "mknod", "symlink"} /\ (o.call = "mknod" => o.arg \in {"dev", "baddev"})
  BY DEF Shape, StageOf, Args
<1> QED
  BY <1>1 DEF TypeFor, Types

LEMMA iallocTakes ==
  ASSUME IInv, NEW p \in Procs, ialloc(p), {j \in Inums : dinode[j].type = "free"} # {}
  PROVE  IInv'
<1> DEFINE o == op[p]
           free == {j \in Inums : dinode[j].type = "free"}
           t == TypeFor(o)
           R == [FreeDinode EXCEPT !.type = t]
<1>1. PICK i : i = Min(free)
  OBVIOUS
<1> DEFINE N == [o EXCEPT !.at = "fill", !.ip = i]
<1>2. /\ Is(p, "ialloc") /\ program' = program /\ cwd' = cwd /\ ofile' = ofile
      /\ icache' = iget(icache, i) /\ dinode' = [dinode EXCEPT ![i] = R] /\ op' = [op EXCEPT ![p] = N]
  BY <1>1 DEF ialloc, Become
<1>3. i \in Inums /\ dinode[i].type = "free"
  <2>1. free \in SUBSET Nat /\ free # {}
    BY DEF Inums
  <2>2. Min(free) \in free
    BY <2>1, Least
  <2> QED
    BY <1>1, <2>2
<1>4. /\ o \in Activation /\ Shape(o) /\ icache \in Table /\ Exact(icache, dinode) /\ dinode \in [Inums -> Dinode]
      /\ \A j \in Inums : icache[j].lock = p <=> LockedBy(o, j)
  BY Here
<1>5. o.at = "ialloc" /\ o.puts = <<>> /\ o.iput = "check"
  BY <1>2, <1>4 DEF Is, Shape, Puts
<1>6. o.wp = 0 /\ o.ip = 0 /\ o.dp # 0 /\ o.name \in Entry /\ StageOf(o) /\ Args(o)
  BY <1>4, <1>5 DEF Shape, Refers, HasIp, HasDp, Args
<1>7. t \in Types /\ t # "free"
  BY <1>4, <1>5, TypeForType DEF Stage
<1> HIDE DEF t
<1>8. R \in Dinode /\ R.type = t
  <2>1. FreeDinode \in Dinode
    BY Values DEF FreeDinode, NoEnts, Dinode, Types, Entry
  <2> QED
    BY <1>7, <2>1 DEF Dinode
<1> HIDE DEF R
<1>9. N \in Activation
  <2>1. "fill" \in Stages /\ i \in Number
    BY <1>3, Values DEF Stages
  <2>2. o \in Activation
    BY <1>4
  <2> QED
    BY <2>1, <2>2 DEF Activation
<1>10. /\ N.at = "fill" /\ N.wp = o.wp /\ N.ip = i /\ N.dp = o.dp /\ N.puts = o.puts
       /\ N.iput = o.iput /\ N.call = o.call /\ N.arg = o.arg /\ N.path = o.path /\ N.name = o.name
  BY <1>4 DEF Activation
<1>11. op' = [op EXCEPT ![p] = N]
  BY <1>2
<1> HIDE DEF N
<1>12. Shape(N)
  <2>1. Refers(N)
    BY <1>3, <1>6, <1>10, Values DEF Refers, HasIp, HasDp
  <2>2. Walks(N)
    BY <1>10 DEF Walks
  <2>3. StageOf(N)
    BY <1>5, <1>6, <1>10 DEF StageOf, Stage
  <2>4. Args(N)
    BY <1>6, <1>10 DEF Args, HasDp
  <2>5. Puts(N)
    BY <1>5, <1>10, PutsShape
  <2> QED
    BY <2>1, <2>2, <2>3, <2>4, <2>5 DEF Shape
<1>13. Refd(N, p, i)
  <2> SUFFICES ASSUME NEW j \in Inums
               PROVE  Counts(N, cwd[p], ofile[p], j) = Counts(o, cwd[p], ofile[p], j) + B(i, j)
    BY DEF Refd
  <2>1. /\ Counts(N, cwd[p], ofile[p], j) = FixedRefs(N, cwd[p], ofile[p], j)
        /\ Counts(o, cwd[p], ofile[p], j) = FixedRefs(o, cwd[p], ofile[p], j)
    BY <1>5, <1>10, CountsNoPut
  <2> QED
    BY <1>5, <1>6, <1>10, <2>1, Values DEF FixedRefs, B
<1>14. GottenAs(iget(icache, i), icache, i)
  BY <1>3, <1>4, IgetTable
<1>15. /\ icache' \in Table
       /\ \A j \in Inums : /\ icache'[j].ref = icache[j].ref + (IF j = i THEN 1 ELSE 0) /\ icache'[j].lock = icache[j].lock
                           /\ icache'[j].type = icache[j].type /\ icache'[j].nlink = icache[j].nlink
       /\ \A j \in Inums : icache'[j].valid <=> icache[j].valid /\ (j # i \/ icache[j].ref > 0)
  BY <1>2, <1>14 DEF GottenAs
<1>16. dinode' \in [Inums -> Dinode] /\ \A j \in Inums : j # i => dinode'[j] = dinode[j]
  BY <1>2, <1>4, <1>8
<1>17. Exact(icache', dinode')
  <2> SUFFICES ASSUME NEW j \in Inums, icache'[j].valid /\ icache'[j].ref > 0
               PROVE  icache'[j].type = dinode'[j].type /\ icache'[j].nlink = dinode'[j].nlink /\ icache'[j].type # "free"
    BY DEF Exact
  <2>1. j # i
    BY <1>3, <1>4, <1>15 DEF Exact
  <2>2. icache[j].valid /\ icache[j].ref > 0
    <3>1. icache[j].ref \in Int
      BY <1>4 DEF Table, Inode
    <3> QED
      BY <1>15, <2>1, <3>1
  <2>3. icache[j].type = dinode[j].type /\ icache[j].nlink = dinode[j].nlink /\ icache[j].type # "free"
    BY <1>4, <2>2 DEF Exact
  <2> QED
    BY <1>15, <1>16, <2>1, <2>3
<1>18. \A j \in Inums : icache'[j].ref = icache[j].ref + B(i, j)
  BY <1>15 DEF B
<1>19. \A j \in Inums : icache'[j].lock = p <=> LockedBy(N, j)
  <2>1. \A j \in Inums : LockedBy(N, j) <=> LockedBy(o, j)
    BY <1>5, <1>10 DEF LockedBy, LocksDp, LocksIp
  <2> QED
    BY <1>4, <1>15, <2>1
<1>20. \A j \in Inums, q \in Procs \ {p} : icache'[j].lock = q <=> icache[j].lock = q
  BY <1>15
<1>21. i \in Number
  BY <1>3, Values
<1>22. program' = program /\ cwd' = cwd /\ ofile' = ofile
  BY <1>2
<1> QED
  BY <1>22, <1>9, <1>11, <1>12, <1>13, <1>15, <1>16, <1>17, <1>18, <1>19, <1>20, <1>21, StepDisk

LEMMA iallocInv ==
  ASSUME IInv, NEW p \in Procs, ialloc(p)
  PROVE  IInv'
<1> DEFINE o == op[p]
           free == {j \in Inums : dinode[j].type = "free"}
<1>1. CASE free = {}
  <2>1. /\ Is(p, "ialloc") /\ icache' = iunlock(icache, o.dp) /\ Return(p, <<o.dp>>)
        /\ program' = program /\ dinode' = dinode /\ cwd' = cwd /\ ofile' = ofile
    BY <1>1 DEF ialloc
  <2>2. /\ "ialloc" \in {"failed", "ialloc", "opened", "created"}
        /\ o.dp = IF "ialloc" \in {"failed", "ialloc"} THEN o.dp ELSE o.ip
    OBVIOUS
  <2> QED
    BY <2>1, <2>2, ReturnUnlock
<1>2. CASE free # {}
  BY <1>2, iallocTakes
<1> QED
  BY <1>1, <1>2

\* The new inode is filled and has its name.
FillDisk(p, T, x, y, more) ==
  LET o == op[p]  i == o.ip  d == o.dp IN
  /\ T = [dinode EXCEPT ![i].type = Copy(i).type, ![i].nlink = 1, ![i].ents["."] = x, ![i].ents[".."] = y,
                        ![d].nlink = @ + more, ![d].ents[o.name] = i]
FillTable(p, T, more) ==
  LET o == op[p]  i == o.ip  d == o.dp IN
  T = [iunlock(ilock(icache, i, p), d) EXCEPT ![i].nlink = 1, ![d].nlink = @ + more]

LEMMA FillDiskIs ==
  ASSUME IInv, NEW p \in Procs, NEW T, NEW x \in Number, NEW y \in Number, NEW more \in Int, FillDisk(p, T, x, y, more),
         op[p].ip \in Inums, op[p].dp \in Inums, op[p].ip # op[p].dp, op[p].name \in Entry
  PROVE  /\ T \in [Inums -> Dinode]
         /\ \A j \in Inums :
              /\ T[j].type = IF j = op[p].ip THEN Copy(j).type ELSE dinode[j].type
              /\ T[j].nlink = IF j = op[p].ip THEN 1 ELSE IF j = op[p].dp THEN dinode[j].nlink + more ELSE dinode[j].nlink
<1> DEFINE o == op[p]
           i == o.ip
           d == o.dp
           t == Copy(i).type
           E == [dinode[i].ents EXCEPT !["."] = x, ![".."] = y]
           R == [dinode[i] EXCEPT !.type = t, !.nlink = 1, !.ents = E]
           n == dinode[d].nlink + more
<1>1. dinode \in [Inums -> Dinode] /\ Typed
  BY Here DEF IInv
<1>2. dinode[i] \in Dinode /\ dinode[i].ents \in [Entry -> Number] /\ t \in Types
  BY <1>1, CopyIs DEF Dinode
<1>3. n \in Int
  BY <1>1 DEF Dinode
<1>4. E \in [Entry -> Number]
  BY <1>2
<1> DEFINE F == [dinode[d].ents EXCEPT ![o.name] = i]
           S == [dinode[d] EXCEPT !.nlink = n, !.ents = F]
<1>5. dinode[d] \in Dinode /\ F \in [Entry -> Number]
  <2>1. dinode[d].ents \in [Entry -> Number] /\ i \in Number
    BY <1>1, Values DEF Dinode
  <2> QED
    BY <1>1, <2>1
<1>6. /\ T = [j \in Inums |-> T[j]] /\ T[i] = R /\ T[d] = S
      /\ \A j \in Inums : j # i /\ j # d => T[j] = dinode[j]
  <2>1. T = [dinode EXCEPT ![i].type = t, ![i].nlink = 1, ![i].ents["."] = x, ![i].ents[".."] = y,
                        ![d].nlink = n, ![d].ents[o.name] = i]
    BY DEF FillDisk
  <2> HIDE DEF t, n
  <2>2. T = [j \in Inums |-> T[j]]
    <3> DEFINE G == [dinode EXCEPT ![i].type = t, ![i].nlink = 1, ![i].ents["."] = x, ![i].ents[".."] = y,
                                   ![d].nlink = n]
    <3>1. T = [G EXCEPT ![d].ents[o.name] = i]
      BY <2>1
    <3>2. DOMAIN T = Inums
      BY <1>1, <2>1
    <3> HIDE DEF G
    <3> QED
      BY <3>1, <3>2
  <2>5. \A j \in Inums : j # i /\ j # d => T[j] = dinode[j]
    BY <1>1, <2>1
  <2>3. T[i] = R
    BY <1>1, <1>2, <2>1 DEF Dinode
  <2>4. T[d] = S
    BY <1>1, <1>5, <2>1 DEF Dinode
  <2> QED
    BY <2>2, <2>3, <2>4, <2>5
<1> HIDE DEF E, F, t, n
<1>7. R.type = t /\ R.nlink = 1 /\ S.type = dinode[d].type /\ S.nlink = n
  BY <1>2, <1>5 DEF Dinode
<1>8. R \in Dinode
  <2> DEFINE R1 == [dinode[i] EXCEPT !.type = t]
             R2 == [R1 EXCEPT !.nlink = 1]
  <2>1. R1 \in Dinode
    BY <1>2 DEF Dinode
  <2>2. R = [R2 EXCEPT !.ents = E]
    OBVIOUS
  <2> HIDE DEF R1, R
  <2>3. R2 \in Dinode
    BY <2>1 DEF Dinode
  <2> HIDE DEF R2
  <2> QED
    BY <1>4, <2>2, <2>3 DEF Dinode
<1>9. S \in Dinode
  BY <1>3, <1>5 DEF Dinode
<1> HIDE DEF R, S
<1>10. T \in [Inums -> Dinode]
  BY <1>1, <1>6, <1>8, <1>9
<1> QED
  BY <1>6, <1>7, <1>10 DEF t, n

\* The table after it: the directory is unlocked, the new inode is not.
LEMMA FillTableIs ==
  ASSUME IInv, NEW p \in Procs, NEW T, NEW more \in Int, FillTable(p, T, more), NEW i \in Inums, i = op[p].ip,
         NEW d \in Inums, d = op[p].dp, i # d, icache[i].lock = None, icache[i].valid \/ dinode[i].type # "free"
  PROVE  /\ T \in Table
         /\ \A j \in Inums : /\ T[j].ref = icache[j].ref
                             /\ T[j].lock = IF j = d THEN None ELSE IF j = i THEN p ELSE icache[j].lock
         /\ \A j \in Inums : T[j].valid /\ T[j].ref > 0 =>
              /\ T[j].type = (IF j = i THEN Copy(j).type ELSE dinode[j].type) /\ T[j].type # "free"
              /\ T[j].nlink = IF j = i THEN 1 ELSE IF j = d THEN dinode[j].nlink + more ELSE dinode[j].nlink
<1> DEFINE L == ilock(icache, i, p)
           U == iunlock(L, d)
           n == U[d].nlink + more
           V == [U EXCEPT ![i].nlink = 1]
<1>1. /\ L \in Table /\ Exact(L, dinode) /\ L[i].type = Copy(i).type
      /\ \A j \in Inums : L[j].ref = icache[j].ref /\ L[j].lock = IF j = i THEN p ELSE icache[j].lock
  BY LockFacts
<1>2. T = [U EXCEPT ![i].nlink = 1, ![d].nlink = n]
  BY DEF FillTable
<1> HIDE DEF L
<1>3. /\ U \in Table /\ Exact(U, dinode)
      /\ \A j \in Inums : /\ U[j].ref = L[j].ref /\ U[j].lock = IF j = d THEN None ELSE L[j].lock
                          /\ U[j].type = L[j].type
  BY <1>1, UnlockFacts
<1>4. n \in Int
  BY <1>3 DEF Table, Inode
<1>5. SetNlink(V, U, i, 1) /\ SetNlink(T, V, d, n)
  BY <1>2 DEF SetNlink
<1> HIDE DEF n, U, V
<1>6. /\ V \in Table
      /\ \A j \in Inums : /\ V[j].ref = U[j].ref /\ V[j].lock = U[j].lock /\ V[j].type = U[j].type
                          /\ V[j].nlink = IF j = i THEN 1 ELSE U[j].nlink
      /\ \A j \in Inums : V[j].valid <=> U[j].valid
  BY <1>3, <1>5, NlinkTable
<1>7. /\ T \in Table
      /\ \A j \in Inums : /\ T[j].ref = V[j].ref /\ T[j].lock = V[j].lock /\ T[j].type = V[j].type
                          /\ T[j].nlink = IF j = d THEN n ELSE V[j].nlink
      /\ \A j \in Inums : T[j].valid <=> V[j].valid
  BY <1>4, <1>5, <1>6, NlinkTable
<1>8. \A j \in Inums : /\ T[j].ref = icache[j].ref
                       /\ T[j].lock = IF j = d THEN None ELSE IF j = i THEN p ELSE icache[j].lock
  BY <1>1, <1>3, <1>6, <1>7
<1>9. ASSUME NEW j \in Inums, T[j].valid /\ T[j].ref > 0
      PROVE  /\ T[j].type = (IF j = i THEN Copy(j).type ELSE dinode[j].type) /\ T[j].type # "free"
             /\ T[j].nlink = IF j = i THEN 1 ELSE IF j = d THEN dinode[j].nlink + more ELSE dinode[j].nlink
  <2>1. U[j].valid /\ U[j].ref > 0
    BY <1>6, <1>7, <1>9
  <2>2. U[j].type = dinode[j].type /\ U[j].nlink = dinode[j].nlink /\ U[j].type # "free"
    BY <1>3, <2>1 DEF Exact
  <2>3. j = i => T[j].type = Copy(j).type
    BY <1>1, <1>3, <1>6, <1>7
  <2>4. j = d => n = dinode[j].nlink + more
    BY <2>2 DEF n
  <2> QED
    BY <1>6, <1>7, <2>2, <2>3, <2>4
<1> QED
  BY <1>7, <1>8, <1>9

LEMMA FillMakes ==
  ASSUME IInv, NEW p \in Procs, Locks(p, "fill"), NEW x \in Number, NEW y \in Number, NEW more \in Int,
         FillDisk(p, dinode', x, y, more), FillTable(p, icache', more), NEW w,
         w = (IF op[p].call = "open" THEN "opened" ELSE "created"),
         Become(p, [op[p] EXCEPT !.at = w, !.dp = 0, !.puts = <<op[p].dp>>]),
         program' = program, cwd' = cwd, ofile' = ofile
  PROVE  IInv'
<1> DEFINE o == op[p]
           i == o.ip
           d == o.dp
           N == [o EXCEPT !.at = w, !.dp = 0, !.puts = <<d>>]
<1>1. /\ o \in Activation /\ Shape(o) /\ \A j \in Inums : icache[j].lock = p <=> LockedBy(o, j)
  BY Here
<1>2. /\ o.at = "fill" /\ o.puts = <<>> /\ o.iput = "check" /\ i \in Inums /\ icache[i].lock = None
      /\ icache[i].valid \/ dinode[i].type # "free"
  BY Gets
<1>3. o.wp = 0 /\ o.ip # 0 /\ d # 0 /\ d \in Inums /\ o.name \in Entry /\ StageOf(o) /\ Args(o)
  BY <1>1, <1>2 DEF Shape, Refers, HasIp, HasDp, Args, Activation, Number
<1>4. w \in {"opened", "created"} /\ (w = "opened" <=> o.call = "open")
  OBVIOUS
<1>5. N \in Activation
  <2>1. w \in Stages /\ 0 \in Number /\ <<d>> \in Seq(Inums)
    BY <1>3, <1>4, Values DEF Stages
  <2>2. o \in Activation
    BY <1>1
  <2> QED
    BY <2>1, <2>2, ZenonT(60) DEF Activation
<1>6. /\ N.at = w /\ N.wp = o.wp /\ N.ip = i /\ N.dp = 0 /\ N.puts = <<d>>
      /\ N.iput = o.iput /\ N.call = o.call /\ N.arg = o.arg /\ N.path = o.path
  BY <1>1 DEF Activation
<1>7. op' = [op EXCEPT ![p] = N]
  BY DEF Become
<1> HIDE DEF N
<1>8. Shape(N)
  <2>1. Refers(N)
    BY <1>2, <1>3, <1>4, <1>6 DEF Refers, HasIp, HasDp
  <2>2. Walks(N)
    BY <1>4, <1>6 DEF Walks
  <2>3. StageOf(N)
    BY <1>2, <1>3, <1>4, <1>6 DEF StageOf, Stage
  <2>4. Args(N)
    BY <1>3, <1>4, <1>6 DEF Args, HasDp
  <2>5. Puts(N)
    BY <1>2, <1>6, PutsShape
  <2> QED
    BY <2>1, <2>2, <2>3, <2>4, <2>5 DEF Shape
<1>9. Refd(N, p, 0)
  <2> SUFFICES ASSUME NEW j \in Inums
               PROVE  Counts(N, cwd[p], ofile[p], j) = Counts(o, cwd[p], ofile[p], j) + B(0, j)
    BY DEF Refd
  <2>1. /\ Counts(N, cwd[p], ofile[p], j) = FixedRefs(N, cwd[p], ofile[p], j) + B(d, j)
        /\ Counts(o, cwd[p], ofile[p], j) = FixedRefs(o, cwd[p], ofile[p], j)
    BY <1>2, <1>6, CountsOnePut, CountsNoPut
  <2> QED
    BY <1>2, <1>3, <1>4, <1>6, <2>1, Values DEF FixedRefs, B
<1>10. \A j \in Inums : LockedBy(o, j) <=> j = d
  BY <1>2 DEF LockedBy, LocksDp, LocksIp
<1>11. \A j \in Inums : LockedBy(N, j) <=> j = i
  BY <1>2, <1>4, <1>6 DEF LockedBy, LocksDp, LocksIp
<1>12. i # d
  BY <1>1, <1>2, <1>3, <1>10, NoneAssumption
<1>13. /\ dinode' \in [Inums -> Dinode]
       /\ \A j \in Inums :
            /\ dinode'[j].type = IF j = i THEN Copy(j).type ELSE dinode[j].type
            /\ dinode'[j].nlink = IF j = i THEN 1 ELSE IF j = d THEN dinode[j].nlink + more ELSE dinode[j].nlink
  BY <1>2, <1>3, <1>12, FillDiskIs
<1>14. /\ icache' \in Table
       /\ \A j \in Inums : /\ icache'[j].ref = icache[j].ref
                           /\ icache'[j].lock = IF j = d THEN None ELSE IF j = i THEN p ELSE icache[j].lock
       /\ \A j \in Inums : icache'[j].valid /\ icache'[j].ref > 0 =>
            /\ icache'[j].type = (IF j = i THEN Copy(j).type ELSE dinode[j].type) /\ icache'[j].type # "free"
            /\ icache'[j].nlink = IF j = i THEN 1 ELSE IF j = d THEN dinode[j].nlink + more ELSE dinode[j].nlink
  BY <1>2, <1>3, <1>12, FillTableIs
<1>15. Exact(icache', dinode')
  BY <1>13, <1>14 DEF Exact
<1>16. \A j \in Inums : icache'[j].lock = p <=> LockedBy(N, j)
  BY <1>1, <1>10, <1>11, <1>12, <1>14, NoneAssumption
<1>17. \A j \in Inums, q \in Procs \ {p} : icache'[j].lock = q <=> icache[j].lock = q
  BY <1>1, <1>2, <1>10, <1>12, <1>14, NoneAssumption
<1>18. \A j \in Inums : icache'[j].ref = icache[j].ref
  BY <1>14
<1> QED
  BY <1>5, <1>7, <1>8, <1>9, <1>13, <1>14, <1>15, <1>16, <1>17, <1>18, StepKeep

\* ... or given up.
LEMMA FillFails ==
  ASSUME IInv, NEW p \in Procs, Locks(p, "fill"),
         SetLinks(op[p].ip, Visit(icache, op[p].ip), dinode, 0),
         Become(p, [op[p] EXCEPT !.at = "failed", !.ip = 0, !.puts = <<op[p].ip>>]),
         program' = program, cwd' = cwd, ofile' = ofile
  PROVE  IInv'
<1> DEFINE o == op[p]
           i == o.ip
           N == [o EXCEPT !.at = "failed", !.ip = 0, !.puts = <<i>>]
           V == Visit(icache, i)
<1>1. /\ o \in Activation /\ Shape(o) /\ dinode \in [Inums -> Dinode]
      /\ \A j \in Inums : icache[j].lock = p <=> LockedBy(o, j)
  BY Here
<1>2. /\ o.at = "fill" /\ o.puts = <<>> /\ o.iput = "check" /\ i \in Inums /\ icache[i].lock = None
      /\ icache[i].valid \/ dinode[i].type # "free"
  BY Gets
<1>3. o.wp = 0 /\ o.ip # 0 /\ o.dp # 0 /\ o.name \in Entry /\ StageOf(o) /\ Args(o)
  BY <1>1, <1>2 DEF Shape, Refers, HasIp, HasDp, Args
<1>4. N \in Activation
  <2>1. "failed" \in Stages /\ 0 \in Number /\ <<i>> \in Seq(Inums)
    BY <1>2, Values DEF Stages
  <2>2. o \in Activation
    BY <1>1
  <2> QED
    BY <2>1, <2>2 DEF Activation
<1>5. /\ N.at = "failed" /\ N.wp = o.wp /\ N.ip = 0 /\ N.dp = o.dp /\ N.puts = <<i>>
      /\ N.iput = o.iput /\ N.call = o.call /\ N.arg = o.arg /\ N.path = o.path /\ N.name = o.name
  BY <1>1 DEF Activation
<1>6. op' = [op EXCEPT ![p] = N]
  BY DEF Become
<1> HIDE DEF N
<1>7. Shape(N)
  <2>1. Refers(N)
    BY <1>2, <1>3, <1>5 DEF Refers, HasIp, HasDp
  <2>2. Walks(N)
    BY <1>5 DEF Walks
  <2>3. StageOf(N)
    BY <1>2, <1>3, <1>5 DEF StageOf, Stage
  <2>4. Args(N)
    BY <1>3, <1>5 DEF Args, HasDp
  <2>5. Puts(N)
    BY <1>2, <1>5, PutsShape
  <2> QED
    BY <2>1, <2>2, <2>3, <2>4, <2>5 DEF Shape
<1>8. Refd(N, p, 0)
  <2> SUFFICES ASSUME NEW j \in Inums
               PROVE  Counts(N, cwd[p], ofile[p], j) = Counts(o, cwd[p], ofile[p], j) + B(0, j)
    BY DEF Refd
  <2>1. /\ Counts(N, cwd[p], ofile[p], j) = FixedRefs(N, cwd[p], ofile[p], j) + B(i, j)
        /\ Counts(o, cwd[p], ofile[p], j) = FixedRefs(o, cwd[p], ofile[p], j)
    BY <1>2, <1>5, CountsOnePut, CountsNoPut
  <2> QED
    BY <1>2, <1>3, <1>5, <2>1, Values DEF FixedRefs, B
<1>9. \A j \in Inums : LockedBy(N, j) <=> LockedBy(o, j)
  BY <1>2, <1>3, <1>5 DEF LockedBy, LocksDp, LocksIp
<1>10. /\ V \in Table /\ Exact(V, dinode)
       /\ \A j \in Inums : V[j].ref = icache[j].ref /\ V[j].lock = icache[j].lock
  BY <1>2, VisitFacts
<1>11. SetLinks(i, V, dinode, 0)
  OBVIOUS
<1> HIDE DEF V
<1>12. /\ icache' \in Table /\ dinode' \in [Inums -> Dinode] /\ Exact(icache', dinode')
       /\ \A j \in Inums : icache'[j].ref = V[j].ref /\ icache'[j].lock = V[j].lock
  BY <1>1, <1>2, <1>10, <1>11, SetLinksTable
<1>13. \A j \in Inums : icache'[j].ref = icache[j].ref
  BY <1>10, <1>12
<1>14. \A j \in Inums : icache'[j].lock = p <=> LockedBy(N, j)
  BY <1>1, <1>9, <1>10, <1>12
<1>15. \A j \in Inums, q \in Procs \ {p} : icache'[j].lock = q <=> icache[j].lock = q
  BY <1>10, <1>12
<1> QED
  BY <1>4, <1>6, <1>7, <1>8, <1>12, <1>13, <1>14, <1>15, StepKeep

LEMMA FillInv ==
  ASSUME IInv, NEW p \in Procs, Fill(p)
  PROVE  IInv'
<1> DEFINE o == op[p]
           i == o.ip
           d == o.dp
           dir == Copy(i).type = "dir"
           more == IF dir THEN 1 ELSE 0
           x == IF dir THEN i ELSE 0
           y == IF dir THEN d ELSE 0
           w == IF o.call = "open" THEN "opened" ELSE "created"
<1>1. Locks(p, "fill") /\ program' = program /\ cwd' = cwd /\ ofile' = ofile
  BY DEF Fill
<1>2. CASE /\ FillTable(p, icache', more) /\ FillDisk(p, dinode', x, y, more)
           /\ Become(p, [o EXCEPT !.at = w, !.dp = 0, !.puts = <<d>>])
  <2>1. o \in Activation
    BY Here
  <2>2. i \in Number /\ d \in Number
    BY <2>1 DEF Activation
  <2>3. more \in Int /\ x \in Number /\ y \in Number
    BY <2>2, Values
  <2>4. w = IF o.call = "open" THEN "opened" ELSE "created"
    OBVIOUS
  <2> HIDE DEF more, x, y, w
  <2> QED
    BY <1>1, <1>2, <2>3, <2>4, FillMakes
<1>3. CASE /\ SetLinks(i, Visit(icache, i), dinode, 0)
           /\ Become(p, [o EXCEPT !.at = "failed", !.ip = 0, !.puts = <<i>>])
  BY <1>1, <1>3, FillFails
<1> QED
  BY <1>2, <1>3 DEF Fill, FillTable, FillDisk

LEMMA CreatedInv ==
  ASSUME IInv, NEW p \in Procs, Created(p)
  PROVE  IInv'
<1> DEFINE o == op[p]
           i == o.ip
<1>1. Is(p, "created") /\ Return(p, <<i>>) /\ program' = program /\ cwd' = cwd /\ ofile' = ofile
  BY DEF Created
<1>2. CASE icache' = iunlock(icache, i) /\ dinode' = dinode
  <2>1. /\ "created" \in {"failed", "ialloc", "opened", "created"}
        /\ i = IF "created" \in {"failed", "ialloc"} THEN o.dp ELSE o.ip
    OBVIOUS
  <2> QED
    BY <1>1, <1>2, <2>1, ReturnUnlock
<1>3. CASE o.call = "symlink" /\ icache' = iunlock(icache, i) /\ dinode' = [dinode EXCEPT ![i].target = o.arg]
  <2>1. PICK N : N = Ended(<<i>>)
    OBVIOUS
  <2>2. /\ N \in Activation /\ Shape(N) /\ Refd(N, p, 0) /\ i \in Inums /\ LockedBy(o, i)
        /\ \A j \in Inums : LockedBy(N, j) <=> LockedBy(o, j) /\ j # i
    <3>1. /\ "created" \in {"failed", "ialloc", "opened", "created", "unlink3"}
          /\ i = IF "created" \in {"failed", "ialloc"} THEN o.dp ELSE o.ip
      OBVIOUS
    <3> QED
      BY <1>1, <2>1, <3>1, ReturnFacts
  <2>3. op' = [op EXCEPT ![p] = N]
    BY <1>1, <2>1 DEF Return, Ended
  <2>4. /\ icache \in Table /\ Exact(icache, dinode) /\ dinode \in [Inums -> Dinode] /\ Shape(o)
        /\ \A j \in Inums : icache[j].lock = p <=> LockedBy(o, j)
    BY Here
  <2>5. /\ icache' \in Table /\ Exact(icache', dinode)
        /\ \A j \in Inums : icache'[j].ref = icache[j].ref /\ icache'[j].lock = IF j = i THEN None ELSE icache[j].lock
    BY <1>3, <2>2, <2>4, UnlockFacts
  <2>6. o.arg \in program.paths
    BY <1>3, <2>4 DEF Shape, Args
  <2>7. dinode' \in [Inums -> Dinode]
    BY <1>3, <2>2, <2>4, <2>6 DEF Dinode
  <2>8. \A j \in Inums : dinode'[j].type = dinode[j].type /\ dinode'[j].nlink = dinode[j].nlink
    BY <1>3, <2>2, <2>4 DEF Dinode
  <2>9. Exact(icache', dinode')
    BY <2>5, <2>8 DEF Exact
  <2>10. \A j \in Inums : icache'[j].ref = icache[j].ref
    BY <2>5
  <2>11. \A j \in Inums : icache'[j].lock = p <=> LockedBy(N, j)
    BY <2>2, <2>4, <2>5, NoneAssumption
  <2>12. \A j \in Inums, q \in Procs \ {p} : icache'[j].lock = q <=> icache[j].lock = q
    BY <2>2, <2>4, <2>5, NoneAssumption
  <2> QED
    BY <1>1, <2>2, <2>3, <2>5, <2>7, <2>9, <2>10, <2>11, <2>12, StepKeep
<1>4. CASE SetLinks(i, iunlock(icache, i), dinode, 0)
  BY <1>1, <1>4, ReturnSets
<1> QED
  BY <1>2, <1>3, <1>4 DEF Created

-----------------------------------------------------------------------------
(* Paths into the kernel, files and current directories.                    *)

LEMMA FollowTargetInv ==
  ASSUME IInv, NEW p \in Procs, FollowTarget(p)
  PROVE  IInv'
<1> DEFINE o == op[p]
           s == Start(p, o.path)
           N == Walking(p, o, o.path, FALSE, "follow2")
<1>1. /\ Is(p, "follow") /\ program' = program /\ dinode' = dinode /\ cwd' = cwd /\ ofile' = ofile
      /\ icache' = iget(icache, s) /\ op' = [op EXCEPT ![p] = N]
  BY DEF FollowTarget, Become
<1>2. o \in Activation /\ Shape(o) /\ Typed
  BY Here DEF IInv
<1>3. o.at = "follow" /\ o.puts = <<>> /\ o.iput = "check"
  BY <1>1, <1>2 DEF Is, Shape, Puts
<1>4. o.wp = 0 /\ o.dp = 0 /\ o.ip = 0 /\ o.call = "open" /\ o.path \in program.paths
  BY <1>2, <1>3 DEF Shape, Refers, HasIp, HasDp, StageOf, Stage, Args
<1>5. Args([o EXCEPT !.at = "walk"])
  <2>1. LET a == [o EXCEPT !.at = "walk"] IN a.at = "walk" /\ a.call = o.call /\ a.path = o.path
    BY <1>2 DEF Activation
  <2> QED
    BY <1>4, <2>1 DEF Args, HasDp
<1>6. /\ N \in Activation /\ Shape(N) /\ s \in Inums
      /\ \A c, f : \A j \in Inums : Counts(N, c, f, j) = Counts(o, c, f, j) + B(s, j)
      /\ \A j \in Inums : ~LockedBy(N, j)
  <2>1. "follow2" \in Stages
    BY DEF Stages
  <2> QED
    BY <1>2, <1>3, <1>4, <1>5, <2>1, WalkingShape
<1>7. op' = [op EXCEPT ![p] = N] /\ icache' = iget(icache, s)
  BY <1>1
<1> HIDE DEF N, s
<1>8. Refd(N, p, s)
  BY <1>6 DEF Refd
<1>9. \A j \in Inums : LockedBy(N, j) <=> LockedBy(o, j)
  BY <1>3, <1>6, NoLock DEF LocksDp, LocksIp
<1>10. s \in Number /\ s # 0
  BY <1>6, Values
<1>11. icache' = IF s = 0 THEN icache ELSE iget(icache, s)
  BY <1>7, <1>10
<1> QED
  BY <1>1, <1>6, <1>7, <1>8, <1>9, <1>10, <1>11, StepGet

\* A program enters a call.
LEMMA EnterInv ==
  ASSUME IInv, NEW p \in Procs, NEW call \in Kernel, NEW path \in program.paths, NEW arg, NEW parent \in BOOLEAN,
         NEW then, Enter(p, call, path, arg, parent, then),
         arg \in {None, "dev", "baddev", "create", "read", "write", "nofollow"} \cup program.paths,
         IF parent THEN then \in {"unlink1", "create"} ELSE then \in {"link1", "open", "chdir"},
         call = "link" <=> then = "link1",
         then = "create" => call \in {"open", "mkdir", "mknod", "symlink"},
         then = "open" => call = "open",
         call \in {"link", "symlink"} => arg \in program.paths,
         call = "mknod" => arg \in {"dev", "baddev"}
  PROVE  IInv'
<1> DEFINE o == op[p]
           t == IF call = "open" THEN path ELSE None
           k == IF call = "open" THEN LINKS ELSE 0
           s == Start(p, path)
<1>1. PICK a : a = [Idle EXCEPT !.call = call, !.arg = arg, !.path = t, !.cnt = k]
  OBVIOUS
<1>2. PICK N : N = Walking(p, a, path, parent, then)
  OBVIOUS
<1>3. /\ Is(p, "user") /\ program' = program /\ dinode' = dinode /\ cwd' = cwd /\ ofile' = ofile
      /\ icache' = iget(icache, s) /\ op' = [op EXCEPT ![p] = N]
  BY <1>1, <1>2 DEF Enter, Become
<1>4. o \in Activation /\ Shape(o) /\ Typed
  BY Here DEF IInv
<1>5. o.at = "user" /\ o.puts = <<>> /\ o.iput = "check"
  BY <1>3, <1>4 DEF Is, Shape, Puts
<1>6. o.wp = 0 /\ o.dp = 0 /\ o.ip = 0
  BY <1>4, <1>5 DEF Shape, Refers, HasIp, HasDp
<1>7. k \in Int /\ t \in program.paths \cup {None} /\ (call = "open" => t = path)
  BY DiskAssumption
<1> HIDE DEF k, t
<1>8. a \in Activation
  BY <1>1, <1>7, Values DEF Activation
<1>9. /\ a.at = "user" /\ a.wp = 0 /\ a.ip = 0 /\ a.dp = 0 /\ a.puts = <<>> /\ a.iput = "check"
      /\ a.call = call /\ a.arg = arg /\ a.path = t
  BY <1>1 DEF Idle
<1>10. Args([a EXCEPT !.at = "walk"])
  <2>1. LET b == [a EXCEPT !.at = "walk"] IN b.at = "walk" /\ b.call = a.call /\ b.arg = a.arg /\ b.path = a.path
    BY <1>8 DEF Activation
  <2> QED
    BY <1>7, <1>9, <2>1 DEF Args, HasDp
<1>11. then \in Stages /\ then # "link2" /\ then # "follow2"
  BY DEF Stages
<1>12. /\ N \in Activation /\ Shape(N) /\ s \in Inums
       /\ \A c, f : \A j \in Inums : Counts(N, c, f, j) = Counts(a, c, f, j) + B(s, j)
       /\ \A j \in Inums : ~LockedBy(N, j)
  BY <1>2, <1>4, <1>8, <1>9, <1>10, <1>11, WalkingShape
<1> HIDE DEF s
<1>13. Refd(N, p, s)
  <2> SUFFICES ASSUME NEW j \in Inums
               PROVE  Counts(N, cwd[p], ofile[p], j) = Counts(o, cwd[p], ofile[p], j) + B(s, j)
    BY DEF Refd
  <2>1. /\ Counts(a, cwd[p], ofile[p], j) = FixedRefs(a, cwd[p], ofile[p], j)
        /\ Counts(o, cwd[p], ofile[p], j) = FixedRefs(o, cwd[p], ofile[p], j)
    BY <1>5, <1>9, CountsNoPut
  <2>2. FixedRefs(a, cwd[p], ofile[p], j) = FixedRefs(o, cwd[p], ofile[p], j)
    BY <1>5, <1>6, <1>9 DEF FixedRefs
  <2> QED
    BY <1>12, <2>1, <2>2
<1>14. \A j \in Inums : LockedBy(N, j) <=> LockedBy(o, j)
  BY <1>5, <1>12, NoLock DEF LocksDp, LocksIp
<1>15. s \in Number /\ s # 0
  BY <1>12, Values
<1>16. icache' = IF s = 0 THEN icache ELSE iget(icache, s)
  BY <1>3, <1>15
<1> QED
  BY <1>3, <1>12, <1>13, <1>14, <1>15, <1>16, StepGet

LEMMA sys_closeInv ==
  ASSUME IInv, NEW p \in Procs, sys_close(p)
  PROVE  IInv'
<1> DEFINE o == op[p]
           i == ofile[p].ip
<1>1. PICK N : N = Ended(<<i>>)
  OBVIOUS
<1>2. /\ Is(p, "user") /\ program' = program /\ dinode' = dinode /\ cwd' = cwd /\ icache' = icache
      /\ ofile[p] # None /\ ofile' = [ofile EXCEPT ![p] = None] /\ op' = [op EXCEPT ![p] = N]
  BY <1>1 DEF sys_close, Return, Ended
<1>3. /\ o \in Activation /\ Shape(o) /\ icache \in Table /\ dinode \in [Inums -> Dinode] /\ Exact(icache, dinode)
      /\ cwd \in [Procs -> Inums] /\ ofile \in [Procs -> File \cup {None}]
      /\ \A j \in Inums : icache[j].ref \in Nat
      /\ \A j \in Inums : icache[j].lock = p <=> LockedBy(o, j)
  BY Here
<1>4. o.at = "user" /\ o.puts = <<>> /\ o.iput = "check"
  BY <1>2, <1>3 DEF Is, Shape, Puts
<1>5. o.wp = 0 /\ o.dp = 0 /\ o.ip = 0
  BY <1>3, <1>4 DEF Shape, Refers, HasIp, HasDp
<1>6. i \in Inums
  BY <1>2, <1>3 DEF File
<1>7. /\ N \in Activation /\ Shape(N)
      /\ N.at = "user" /\ N.wp = 0 /\ N.ip = 0 /\ N.dp = 0 /\ N.puts = <<i>>
      /\ \A j \in Inums : ~LockedBy(N, j)
  <2>1. <<i>> \in Seq(Inums)
    BY <1>6
  <2> QED
    BY <1>1, <2>1, ReturnShape
<1>8. /\ ofile'[p] = None /\ ofile' \in [Procs -> File \cup {None}]
      /\ \A q \in Procs \ {p} : cwd'[q] = cwd[q] /\ ofile'[q] = ofile[q]
  BY <1>2, <1>3
<1>9. \A j \in Inums : icache'[j].ref = icache[j].ref + Counts(N, cwd'[p], ofile'[p], j) - Counts(o, cwd[p], ofile[p], j)
  <2> SUFFICES ASSUME NEW j \in Inums
               PROVE  icache'[j].ref = icache[j].ref + Counts(N, cwd'[p], ofile'[p], j) - Counts(o, cwd[p], ofile[p], j)
    OBVIOUS
  <2>1. /\ Counts(N, cwd'[p], ofile'[p], j) = FixedRefs(N, cwd'[p], ofile'[p], j) + B(i, j)
        /\ Counts(o, cwd[p], ofile[p], j) = FixedRefs(o, cwd[p], ofile[p], j)
    BY <1>4, <1>7, CountsOnePut, CountsNoPut
  <2>2. Counts(N, cwd'[p], ofile'[p], j) = Counts(o, cwd[p], ofile[p], j)
    BY <1>2, <1>4, <1>5, <1>7, <1>8, <2>1 DEF FixedRefs, B
  <2>3. Counts(o, cwd[p], ofile[p], j) \in Nat /\ icache[j].ref \in Nat
    BY <1>3, CountsNat
  <2> QED
    BY <1>2, <2>2, <2>3
<1>10. \A j \in Inums : icache'[j].lock = p <=> LockedBy(N, j)
  BY <1>2, <1>3, <1>4, <1>7, NoLock DEF LocksDp, LocksIp
<1>11. \A j \in Inums, q \in Procs \ {p} : icache'[j].lock = q <=> icache[j].lock = q
  BY <1>2
<1>12. CopiesExact'
  BY <1>2, <1>3 DEF CopiesExact, Exact, Inums
<1>13. /\ program' = program /\ op' = [op EXCEPT ![p] = N] /\ dinode' \in [Inums -> Dinode] /\ icache' \in Table
       /\ cwd' \in [Procs -> Inums]
  BY <1>2, <1>3
<1> QED
  BY <1>7, <1>8, <1>9, <1>10, <1>11, <1>12, <1>13, Step

LEMMA CallInv ==
  ASSUME IInv, NEW p \in Procs, Call(p)
  PROVE  IInv'
<1>0. program \in Programs
  BY DEF IInv, Typed
<1>1. CASE sys_close(p)
  BY <1>1, sys_closeInv
<1>2. ASSUME NEW path \in program.paths, Enter(p, "unlink", path, None, TRUE, "unlink1")
      PROVE  IInv'
  BY <1>2, EnterInv DEF Kernel
<1>3. ASSUME NEW path \in program.paths, Enter(p, "mkdir", path, None, TRUE, "create")
      PROVE  IInv'
  BY <1>3, EnterInv DEF Kernel
<1>4. ASSUME NEW path \in program.paths, NEW t \in {"dev", "baddev"}, Enter(p, "mknod", path, t, TRUE, "create")
      PROVE  IInv'
  BY <1>4, EnterInv DEF Kernel
<1>5. ASSUME NEW path \in program.paths, Enter(p, "chdir", path, None, FALSE, "chdir")
      PROVE  IInv'
  BY <1>5, EnterInv DEF Kernel
<1>6. ASSUME NEW path \in program.paths, NEW new \in program.paths, Enter(p, "link", path, new, FALSE, "link1")
      PROVE  IInv'
  BY <1>6, EnterInv DEF Kernel
<1>7. ASSUME NEW path \in program.paths, NEW target \in program.paths, Enter(p, "symlink", path, target, TRUE, "create")
      PROVE  IInv'
  BY <1>7, EnterInv DEF Kernel
<1>8. ASSUME NEW path \in program.paths, Enter(p, "open", path, "create", TRUE, "create")
      PROVE  IInv'
  BY <1>8, EnterInv DEF Kernel
<1>9. ASSUME NEW path \in program.paths, NEW m \in program.modes, Enter(p, "open", path, m, FALSE, "open")
      PROVE  IInv'
  <2>1. m \in {"read", "write", "nofollow"}
    BY <1>0, ChoiceAssumption
  <2> QED
    BY <1>9, <2>1, EnterInv DEF Kernel
<1> QED
  BY <1>1, <1>2, <1>3, <1>4, <1>5, <1>6, <1>7, <1>8, <1>9 DEF Call

\* The file takes over the reference of the call.
LEMMA OpenedTakes ==
  ASSUME IInv, NEW p \in Procs, Opened(p), ~(icache[op[p].ip].type = "baddev" \/ ofile[p] # None)
  PROVE  IInv'
<1> DEFINE o == op[p]
           i == o.ip
           f == [ip |-> i, writable |-> o.arg \in {"write", "create"}]
<1>1. PICK N : N = Ended(<<>>)
  OBVIOUS
<1>2. /\ Is(p, "opened") /\ program' = program /\ dinode' = dinode /\ cwd' = cwd /\ icache' = iunlock(icache, i)
      /\ ofile[p] = None /\ ofile' = [ofile EXCEPT ![p] = f] /\ op' = [op EXCEPT ![p] = N]
  BY <1>1 DEF Opened, Return, Ended
<1>3. /\ o \in Activation /\ Shape(o) /\ icache \in Table /\ dinode \in [Inums -> Dinode] /\ Exact(icache, dinode)
      /\ cwd \in [Procs -> Inums] /\ ofile \in [Procs -> File \cup {None}]
      /\ \A j \in Inums : icache[j].ref \in Nat
      /\ \A j \in Inums : icache[j].lock = p <=> LockedBy(o, j)
  BY Here
<1>4. o.at = "opened" /\ o.puts = <<>> /\ o.iput = "check"
  BY <1>2, <1>3 DEF Is, Shape, Puts
<1>5. o.wp = 0 /\ o.dp = 0 /\ i # 0 /\ i \in Number
  BY <1>3, <1>4 DEF Shape, Refers, HasIp, HasDp, Activation
<1>6. i \in Inums
  BY <1>5 DEF Number
<1>7. f \in File /\ f.ip = i /\ f # None
  <2>1. f \in File /\ f \in [ip : Nat, writable : BOOLEAN]
    BY <1>6 DEF File, Inums
  <2> QED
    BY <2>1, NoneAssumption
<1> HIDE DEF f
<1>8. /\ N \in Activation /\ Shape(N)
      /\ N.at = "user" /\ N.wp = 0 /\ N.ip = 0 /\ N.dp = 0 /\ N.puts = <<>>
      /\ \A j \in Inums : ~LockedBy(N, j)
  <2>1. <<>> \in Seq(Inums)
    BY Values
  <2> QED
    BY <1>1, <2>1, ReturnShape, ZenonT(60)
<1>9. /\ ofile'[p] = f /\ ofile' \in [Procs -> File \cup {None}]
      /\ \A q \in Procs \ {p} : cwd'[q] = cwd[q] /\ ofile'[q] = ofile[q]
  BY <1>2, <1>3, <1>7
<1>10. /\ icache' \in Table /\ Exact(icache', dinode)
       /\ \A j \in Inums : icache'[j].ref = icache[j].ref /\ icache'[j].lock = IF j = i THEN None ELSE icache[j].lock
  BY <1>2, <1>3, <1>6, UnlockFacts
<1>11. \A j \in Inums : icache'[j].ref = icache[j].ref + Counts(N, cwd'[p], ofile'[p], j) - Counts(o, cwd[p], ofile[p], j)
  <2> SUFFICES ASSUME NEW j \in Inums
               PROVE  icache'[j].ref = icache[j].ref + Counts(N, cwd'[p], ofile'[p], j) - Counts(o, cwd[p], ofile[p], j)
    OBVIOUS
  <2>1. /\ Counts(N, cwd'[p], ofile'[p], j) = FixedRefs(N, cwd'[p], ofile'[p], j)
        /\ Counts(o, cwd[p], ofile[p], j) = FixedRefs(o, cwd[p], ofile[p], j)
    BY <1>4, <1>8, CountsNoPut
  <2>2. Counts(N, cwd'[p], ofile'[p], j) = Counts(o, cwd[p], ofile[p], j)
    <3>1. B(0, j) = 0
      BY Values DEF B
    <3> QED
      BY <1>2, <1>4, <1>5, <1>7, <1>8, <1>9, <2>1, <3>1 DEF FixedRefs, B
  <2>3. Counts(o, cwd[p], ofile[p], j) \in Nat /\ icache[j].ref \in Nat
    BY <1>3, CountsNat
  <2> QED
    BY <1>10, <2>2, <2>3
<1>12. \A j \in Inums : LockedBy(o, j) <=> j = i
  BY <1>4 DEF LockedBy, LocksDp, LocksIp
<1>13. \A j \in Inums : icache'[j].lock = p <=> LockedBy(N, j)
  BY <1>3, <1>8, <1>10, <1>12, NoneAssumption
<1>14. \A j \in Inums, q \in Procs \ {p} : icache'[j].lock = q <=> icache[j].lock = q
  BY <1>3, <1>6, <1>10, <1>12, NoneAssumption
<1>15. CopiesExact'
  BY <1>2, <1>10 DEF CopiesExact, Exact, Inums
<1>16. program' = program /\ op' = [op EXCEPT ![p] = N] /\ dinode' \in [Inums -> Dinode] /\ cwd' \in [Procs -> Inums]
  BY <1>2, <1>3
<1> QED
  BY <1>8, <1>9, <1>10, <1>11, <1>13, <1>14, <1>15, <1>16, Step

LEMMA OpenedInv ==
  ASSUME IInv, NEW p \in Procs, Opened(p)
  PROVE  IInv'
<1> DEFINE o == op[p]
           i == o.ip
<1>1. CASE icache[i].type = "baddev" \/ ofile[p] # None
  <2>1. /\ Is(p, "opened") /\ icache' = iunlock(icache, i) /\ Return(p, <<i>>)
        /\ program' = program /\ dinode' = dinode /\ cwd' = cwd /\ ofile' = ofile
    BY <1>1 DEF Opened
  <2>2. /\ "opened" \in {"failed", "ialloc", "opened", "created"}
        /\ i = IF "opened" \in {"failed", "ialloc"} THEN o.dp ELSE o.ip
    OBVIOUS
  <2> QED
    BY <2>1, <2>2, ReturnUnlock
<1>2. CASE ~(icache[i].type = "baddev" \/ ofile[p] # None)
  BY <1>2, OpenedTakes
<1> QED
  BY <1>1, <1>2

\* chdir() puts the old directory, which is no longer the current one ...
LEMMA ChdirNew ==
  ASSUME IInv, NEW p \in Procs, Locks(p, "chdir"), icache' = Visit(icache, op[p].ip),
         Become(p, [op[p] EXCEPT !.at = "chdir2", !.puts = <<cwd[p]>>]),
         program' = program, dinode' = dinode, cwd' = cwd, ofile' = ofile
  PROVE  IInv'
<1> DEFINE o == op[p]
           i == o.ip
           N == [o EXCEPT !.at = "chdir2", !.puts = <<cwd[p]>>]
<1>1. o \in Activation /\ Shape(o) /\ cwd[p] \in Inums
  BY Here
<1>2. /\ o.at = "chdir" /\ o.puts = <<>> /\ o.iput = "check" /\ i \in Inums /\ icache[i].lock = None
      /\ icache[i].valid \/ dinode[i].type # "free"
  BY Gets
<1>3. o.wp = 0 /\ o.ip # 0 /\ o.dp = 0 /\ StageOf(o) /\ Args(o)
  BY <1>1, <1>2 DEF Shape, Refers, HasIp, HasDp
<1>4. N \in Activation
  <2>1. "chdir2" \in Stages /\ <<cwd[p]>> \in Seq(Inums)
    BY <1>1 DEF Stages
  <2>2. o \in Activation
    BY <1>1
  <2> QED
    BY <2>1, <2>2 DEF Activation
<1>5. /\ N.at = "chdir2" /\ N.wp = o.wp /\ N.ip = i /\ N.dp = o.dp /\ N.puts = <<cwd[p]>>
      /\ N.iput = o.iput /\ N.call = o.call /\ N.arg = o.arg /\ N.path = o.path /\ N.name = o.name
  BY <1>1 DEF Activation
<1>6. op' = [op EXCEPT ![p] = N]
  BY DEF Become
<1> HIDE DEF N
<1>7. Shape(N)
  <2>1. Refers(N)
    BY <1>2, <1>3, <1>5 DEF Refers, HasIp, HasDp
  <2>2. Walks(N)
    BY <1>5 DEF Walks
  <2>3. StageOf(N)
    BY <1>2, <1>3, <1>5 DEF StageOf, Stage
  <2>4. Args(N)
    BY <1>3, <1>5 DEF Args, HasDp
  <2>5. Puts(N)
    BY <1>2, <1>5, PutsShape
  <2> QED
    BY <2>1, <2>2, <2>3, <2>4, <2>5 DEF Shape
<1>8. Refd(N, p, 0)
  <2> SUFFICES ASSUME NEW j \in Inums
               PROVE  Counts(N, cwd[p], ofile[p], j) = Counts(o, cwd[p], ofile[p], j) + B(0, j)
    BY DEF Refd
  <2>1. /\ Counts(N, cwd[p], ofile[p], j) = FixedRefs(N, cwd[p], ofile[p], j) + B(cwd[p], j)
        /\ Counts(o, cwd[p], ofile[p], j) = FixedRefs(o, cwd[p], ofile[p], j)
    BY <1>2, <1>5, CountsOnePut, CountsNoPut
  <2> QED
    BY <1>2, <1>3, <1>5, <2>1, Values DEF FixedRefs, B
<1>9. \A j \in Inums : LockedBy(N, j) <=> LockedBy(o, j)
  BY <1>2, <1>5, NoLock DEF LocksDp, LocksIp
<1>10. icache' = IF 0 = 0 THEN Visit(icache, i) ELSE iget(Visit(icache, i), 0)
  OBVIOUS
<1> QED
  BY <1>2, <1>4, <1>6, <1>7, <1>8, <1>9, <1>10, Values, StepVisit

LEMMA sys_chdirInv ==
  ASSUME IInv, NEW p \in Procs, sys_chdir(p)
  PROVE  IInv'
<1> DEFINE o == op[p]
           i == o.ip
<1>1. /\ Locks(p, "chdir") /\ icache' = Visit(icache, i)
      /\ program' = program /\ dinode' = dinode /\ cwd' = cwd /\ ofile' = ofile
  BY DEF sys_chdir
<1>2. CASE Return(p, <<i>>)
  <2>1. i = Wants(p)
    BY <1>1, Gets
  <2> QED
    BY <1>1, <1>2, <2>1, ReturnVisit
<1>3. CASE Become(p, [o EXCEPT !.at = "chdir2", !.puts = <<cwd[p]>>])
  BY <1>1, <1>3, ChdirNew
<1> QED
  BY <1>2, <1>3 DEF sys_chdir

\* ... and the new one becomes it.
LEMMA ChangedInv ==
  ASSUME IInv, NEW p \in Procs, Changed(p)
  PROVE  IInv'
<1> DEFINE o == op[p]
           i == o.ip
<1>1. PICK N : N = Ended(<<>>)
  OBVIOUS
<1>2. /\ Is(p, "chdir2") /\ program' = program /\ dinode' = dinode /\ icache' = icache /\ ofile' = ofile
      /\ cwd' = [cwd EXCEPT ![p] = i] /\ op' = [op EXCEPT ![p] = N]
  BY <1>1 DEF Changed, Return, Ended
<1>3. /\ o \in Activation /\ Shape(o) /\ icache \in Table /\ dinode \in [Inums -> Dinode] /\ Exact(icache, dinode)
      /\ cwd \in [Procs -> Inums] /\ ofile \in [Procs -> File \cup {None}]
      /\ \A j \in Inums : icache[j].ref \in Nat
      /\ \A j \in Inums : icache[j].lock = p <=> LockedBy(o, j)
  BY Here
<1>4. o.at = "chdir2" /\ o.puts = <<>> /\ o.iput = "check"
  BY <1>2, <1>3 DEF Is, Shape, Puts
<1>5. o.wp = 0 /\ o.dp = 0 /\ i # 0 /\ i \in Number
  BY <1>3, <1>4 DEF Shape, Refers, HasIp, HasDp, Activation
<1>6. i \in Inums
  BY <1>5 DEF Number
<1>7. /\ N \in Activation /\ Shape(N)
      /\ N.at = "user" /\ N.wp = 0 /\ N.ip = 0 /\ N.dp = 0 /\ N.puts = <<>>
      /\ \A j \in Inums : ~LockedBy(N, j)
  <2>1. <<>> \in Seq(Inums)
    BY Values
  <2> QED
    BY <1>1, <2>1, ReturnShape
<1>8. /\ cwd'[p] = i /\ cwd' \in [Procs -> Inums]
      /\ \A q \in Procs \ {p} : cwd'[q] = cwd[q] /\ ofile'[q] = ofile[q]
  BY <1>2, <1>3, <1>6
<1>9. \A j \in Inums : icache'[j].ref = icache[j].ref + Counts(N, cwd'[p], ofile'[p], j) - Counts(o, cwd[p], ofile[p], j)
  <2> SUFFICES ASSUME NEW j \in Inums
               PROVE  icache'[j].ref = icache[j].ref + Counts(N, cwd'[p], ofile'[p], j) - Counts(o, cwd[p], ofile[p], j)
    OBVIOUS
  <2>1. /\ Counts(N, cwd'[p], ofile'[p], j) = FixedRefs(N, cwd'[p], ofile'[p], j)
        /\ Counts(o, cwd[p], ofile[p], j) = FixedRefs(o, cwd[p], ofile[p], j)
    BY <1>4, <1>7, CountsNoPut
  <2>2. Counts(N, cwd'[p], ofile'[p], j) = Counts(o, cwd[p], ofile[p], j)
    <3>1. B(0, j) = 0
      BY Values DEF B
    <3> QED
      BY <1>2, <1>4, <1>5, <1>7, <1>8, <2>1, <3>1 DEF FixedRefs, B
  <2>3. Counts(o, cwd[p], ofile[p], j) \in Nat /\ icache[j].ref \in Nat
    BY <1>3, CountsNat
  <2> QED
    BY <1>2, <2>2, <2>3
<1>10. \A j \in Inums : icache'[j].lock = p <=> LockedBy(N, j)
  BY <1>2, <1>3, <1>4, <1>7, NoLock DEF LocksDp, LocksIp
<1>11. \A j \in Inums, q \in Procs \ {p} : icache'[j].lock = q <=> icache[j].lock = q
  BY <1>2
<1>12. CopiesExact'
  BY <1>2, <1>3 DEF CopiesExact, Exact, Inums
<1>13. /\ program' = program /\ op' = [op EXCEPT ![p] = N] /\ dinode' \in [Inums -> Dinode] /\ icache' \in Table
       /\ ofile' \in [Procs -> File \cup {None}]
  BY <1>2, <1>3
<1> QED
  BY <1>7, <1>8, <1>9, <1>10, <1>11, <1>12, <1>13, Step

-----------------------------------------------------------------------------
(* iput().                                                                 *)

\* The call of p at another place of iput(): x, with the same references to drop.
LEMMA IputShape ==
  ASSUME IInv, NEW p \in Procs, op[p].puts # <<>>, NEW x \in {"trunc", "drop"},
         x = "trunc" => /\ ~(op[p].at \in LocksDp /\ op[p].dp = Head(op[p].puts))
                        /\ ~(op[p].at \in LocksIp /\ op[p].ip = Head(op[p].puts)),
         NEW N, N = [op[p] EXCEPT !.iput = x]
  PROVE  /\ N \in Activation /\ Shape(N) /\ Refd(N, p, 0) /\ Head(op[p].puts) \in Inums
         /\ N.at = op[p].at /\ N.ip = op[p].ip /\ N.dp = op[p].dp /\ N.puts = op[p].puts /\ N.iput = x
<1> DEFINE o == op[p]
<1>1. o \in Activation /\ Shape(o)
  BY Here
<1>2. N \in Activation
  BY <1>1 DEF Activation
<1>3. /\ N.at = o.at /\ N.wp = o.wp /\ N.ip = o.ip /\ N.dp = o.dp /\ N.puts = o.puts /\ N.iput = x
      /\ N.call = o.call /\ N.arg = o.arg /\ N.path = o.path /\ N.name = o.name
      /\ N.rest = o.rest /\ N.then = o.then
  BY <1>1 DEF Activation
<1>4. N.parent <=> o.parent
  BY <1>1 DEF Activation
<1>5. Shape(N)
  <2>1. Refers(N)
    BY <1>1, <1>3 DEF Shape, Refers
  <2>2. Walks(N)
    BY <1>1, <1>3, <1>4 DEF Shape, Walks
  <2>3. StageOf(N)
    BY <1>1, <1>3 DEF Shape, StageOf, Stage
  <2>4. Args(N)
    BY <1>1, <1>3 DEF Shape, Args
  <2>5. Puts(N)
    BY <1>1, <1>3 DEF Shape, Puts
  <2> QED
    BY <2>1, <2>2, <2>3, <2>4, <2>5 DEF Shape
<1>6. Refd(N, p, 0)
  <2> SUFFICES ASSUME NEW j \in Inums
               PROVE  Counts(N, cwd[p], ofile[p], j) = Counts(o, cwd[p], ofile[p], j) + B(0, j)
    BY DEF Refd
  <2>1. HeldBy(N, cwd[p], ofile[p]) = HeldBy(o, cwd[p], ofile[p])
    BY <1>3 DEF HeldBy
  <2>2. Counts(N, cwd[p], ofile[p], j) = Counts(o, cwd[p], ofile[p], j)
    BY <2>1 DEF Counts
  <2>3. B(0, j) = 0 /\ Counts(o, cwd[p], ofile[p], j) \in Nat
    BY CountsNat, Values DEF B
  <2> QED
    BY <2>2, <2>3
<1>7. Head(o.puts) \in Inums
  <2>1. o.puts \in Seq(Inums)
    BY <1>1 DEF Activation
  <2> QED
    BY <2>1, HeadTailProperties
<1> QED
  BY <1>2, <1>3, <1>5, <1>6, <1>7

LEMMA iputLastInv ==
  ASSUME IInv, NEW p \in Procs, iputLast(p)
  PROVE  IInv'
<1> DEFINE o == op[p]
           i == Head(o.puts)
           N == [o EXCEPT !.iput = "trunc"]
<1>1. /\ o.puts # <<>> /\ o.iput = "check" /\ icache[i].lock = None /\ icache' = [icache EXCEPT ![i].lock = p]
      /\ op' = [op EXCEPT ![p].iput = "trunc"]
      /\ program' = program /\ dinode' = dinode /\ cwd' = cwd /\ ofile' = ofile
  BY DEF iputLast
<1>2. /\ o \in Activation /\ Shape(o) /\ icache \in Table /\ dinode \in [Inums -> Dinode] /\ Exact(icache, dinode)
      /\ \A j \in Inums : icache[j].lock = p <=> LockedBy(o, j)
  BY Here
<1>3. i \in Inums
  <2>1. o.puts \in Seq(Inums)
    BY <1>2 DEF Activation
  <2> QED
    BY <1>1, <2>1, HeadTailProperties
<1>4. ~LockedBy(o, i)
  BY <1>1, <1>2, <1>3, NoneAssumption
<1>5. /\ N \in Activation /\ Shape(N) /\ Refd(N, p, 0)
      /\ N.at = o.at /\ N.ip = o.ip /\ N.dp = o.dp /\ N.puts = o.puts /\ N.iput = "trunc"
  BY <1>1, <1>4, IputShape DEF LockedBy
<1>6. op' = [op EXCEPT ![p] = N]
  BY <1>1
<1> HIDE DEF N
<1>7. icache' \in Table
  BY <1>1, <1>2, <1>3 DEF Table, Inode
<1>8. \A j \in Inums : /\ icache'[j].ref = icache[j].ref /\ icache'[j].lock = IF j = i THEN p ELSE icache[j].lock
                       /\ icache'[j].type = icache[j].type /\ icache'[j].nlink = icache[j].nlink
  BY <1>1, <1>2, <1>3 DEF Table, Inode
<1>9. \A j \in Inums : icache'[j].valid <=> icache[j].valid
  BY <1>1, <1>2, <1>3 DEF Table, Inode
<1>10. dinode' \in [Inums -> Dinode] /\ Exact(icache', dinode')
  BY <1>1, <1>2, <1>8, <1>9 DEF Exact
<1>11. \A j \in Inums : LockedBy(N, j) <=> LockedBy(o, j) \/ j = i
  BY <1>1, <1>5 DEF LockedBy
<1>12. \A j \in Inums : icache'[j].lock = p <=> LockedBy(N, j)
  BY <1>2, <1>8, <1>11
<1>13. \A j \in Inums, q \in Procs \ {p} : icache'[j].lock = q <=> icache[j].lock = q
  BY <1>1, <1>8, NoneAssumption
<1>14. \A j \in Inums : icache'[j].ref = icache[j].ref
  BY <1>8
<1> QED
  BY <1>1, <1>5, <1>6, <1>7, <1>10, <1>12, <1>13, <1>14, StepKeep

LEMMA iputTruncInv ==
  ASSUME IInv, NEW p \in Procs, iputTrunc(p)
  PROVE  IInv'
<1> DEFINE o == op[p]
           i == Head(o.puts)
           N == [o EXCEPT !.iput = "drop"]
<1>1. /\ o.puts # <<>> /\ o.iput = "trunc" /\ dinode' = [dinode EXCEPT ![i] = FreeDinode]
      /\ icache' = [icache EXCEPT ![i].type = "free", ![i].valid = FALSE, ![i].lock = None]
      /\ op' = [op EXCEPT ![p].iput = "drop"]
      /\ program' = program /\ cwd' = cwd /\ ofile' = ofile
  BY DEF iputTrunc
<1>2. /\ o \in Activation /\ Shape(o) /\ icache \in Table /\ dinode \in [Inums -> Dinode] /\ Exact(icache, dinode)
      /\ \A j \in Inums : icache[j].lock = p <=> LockedBy(o, j)
  BY Here
<1>3. /\ N \in Activation /\ Shape(N) /\ Refd(N, p, 0) /\ i \in Inums
      /\ N.at = o.at /\ N.ip = o.ip /\ N.dp = o.dp /\ N.puts = o.puts /\ N.iput = "drop"
  BY <1>1, IputShape
<1>4. op' = [op EXCEPT ![p] = N]
  BY <1>1
<1> HIDE DEF N
<1>5. icache' \in Table
  <2> DEFINE C1 == [icache EXCEPT ![i].type = "free"]
             C2 == [C1 EXCEPT ![i].valid = FALSE]
  <2>1. C1 \in Table
    BY <1>2, <1>3 DEF Table, Inode, Types
  <2>2. icache' = [C2 EXCEPT ![i].lock = None]
    BY <1>1
  <2> HIDE DEF C1
  <2>3. C2 \in Table
    BY <1>3, <2>1 DEF Table, Inode
  <2> HIDE DEF C2
  <2> QED
    BY <1>3, <2>2, <2>3 DEF Table, Inode
<1>6. \A j \in Inums : /\ icache'[j].ref = icache[j].ref /\ icache'[j].lock = IF j = i THEN None ELSE icache[j].lock
                       /\ j # i => icache'[j].type = icache[j].type /\ icache'[j].nlink = icache[j].nlink
  BY <1>1, <1>2, <1>3 DEF Table, Inode
<1>7. \A j \in Inums : icache'[j].valid <=> icache[j].valid /\ j # i
  BY <1>1, <1>2, <1>3 DEF Table, Inode
<1>8. dinode' \in [Inums -> Dinode] /\ \A j \in Inums : j # i => dinode'[j] = dinode[j]
  <2>1. FreeDinode \in Dinode
    BY Values DEF FreeDinode, NoEnts, Dinode, Types, Entry
  <2> QED
    BY <1>1, <1>2, <1>3, <2>1
<1>9. Exact(icache', dinode')
  BY <1>2, <1>6, <1>7, <1>8 DEF Exact
<1>10. \A j \in Inums : LockedBy(N, j) <=> LockedBy(o, j) /\ j # i
  <2>1. ~(o.at \in LocksDp /\ o.dp = i) /\ ~(o.at \in LocksIp /\ o.ip = i)
    BY <1>1, <1>2 DEF Shape, Puts
  <2> QED
    BY <1>1, <1>3, <2>1 DEF LockedBy
<1>11. LockedBy(o, i)
  BY <1>1 DEF LockedBy
<1>12. \A j \in Inums : icache'[j].lock = p <=> LockedBy(N, j)
  BY <1>2, <1>6, <1>10, NoneAssumption
<1>13. \A j \in Inums, q \in Procs \ {p} : icache'[j].lock = q <=> icache[j].lock = q
  BY <1>2, <1>3, <1>6, <1>11, NoneAssumption
<1>14. \A j \in Inums : icache'[j].ref = icache[j].ref
  BY <1>6
<1> QED
  BY <1>1, <1>3, <1>4, <1>5, <1>8, <1>9, <1>12, <1>13, <1>14, StepKeep

\* Tail drops the reference of the first element.
LEMMA TailCounts ==
  ASSUME NEW o \in Activation, Len(o.puts) <= 2, o.puts # <<>>,
         NEW N, N.at = o.at, N.wp = o.wp, N.ip = o.ip, N.dp = o.dp, N.puts = Tail(o.puts),
         NEW c, NEW f, NEW j \in Inums
  PROVE  /\ Counts(o, c, f, j) = Counts(N, c, f, j) + B(Head(o.puts), j)
         /\ N.puts = <<>> \/ (\E x : N.puts = <<x>>)
<1>1. o.puts \in Seq(Inums)
  BY DEF Activation
<1>2. FixedRefs(N, c, f, j) = FixedRefs(o, c, f, j)
  BY DEF FixedRefs
<1>3. CASE Len(o.puts) = 1
  <2>1. PICK x : o.puts = <<x>>
    BY <1>1, <1>3
  <2>2. Head(o.puts) = x /\ Tail(o.puts) = <<>>
    BY <2>1
  <2>3. Counts(o, c, f, j) = FixedRefs(o, c, f, j) + B(x, j)
    BY <2>1, CountsOnePut
  <2>4. Counts(N, c, f, j) = FixedRefs(N, c, f, j)
    BY <2>2, CountsNoPut
  <2> QED
    BY <1>2, <2>2, <2>3, <2>4
<1>4. CASE Len(o.puts) = 2
  <2>1. PICK x, y : o.puts = <<x, y>>
    BY <1>1, <1>4
  <2>2. Head(o.puts) = x /\ Tail(o.puts) = <<y>>
    BY <2>1
  <2>3. Counts(o, c, f, j) = FixedRefs(o, c, f, j) + B(x, j) + B(y, j)
    BY <2>1, CountsTwoPuts
  <2>4. Counts(N, c, f, j) = FixedRefs(N, c, f, j) + B(y, j)
    <3>1. N.puts = <<y>>
      BY <2>2
    <3> QED
      BY <3>1, CountsOnePut
  <2>5. FixedRefs(o, c, f, j) \in Int /\ B(x, j) \in Int /\ B(y, j) \in Int
    BY DEF FixedRefs, B
  <2> QED
    BY <1>2, <2>2, <2>3, <2>4, <2>5
<1>5. Len(o.puts) = 1 \/ Len(o.puts) = 2
  <2>1. PICK n \in Nat : n = Len(o.puts)
    BY <1>1
  <2>2. n # 0
    BY <1>1, <2>1, EmptySeq
  <2>3. n <= 2
    BY <2>1
  <2>4. n = 1 \/ n = 2
    BY <2>2, <2>3
  <2> QED
    BY <2>1, <2>4
<1> QED
  BY <1>3, <1>4, <1>5

LEMMA iputInv ==
  ASSUME IInv, NEW p \in Procs, iput(p)
  PROVE  IInv'
<1> DEFINE o == op[p]
           i == Head(o.puts)
           s == Tail(o.puts)
           n == icache[i].ref - 1
           N == [o EXCEPT !.puts = s, !.iput = "check"]
<1>1. /\ o.puts # <<>> /\ o.iput # "trunc" /\ icache' = [icache EXCEPT ![i].ref = n]
      /\ program' = program /\ dinode' = dinode /\ cwd' = cwd /\ ofile' = ofile
  BY DEF iput
<1>2. op' = [op EXCEPT ![p] = N]
  BY DEF iput
<1>3. /\ o \in Activation /\ Shape(o) /\ icache \in Table /\ dinode \in [Inums -> Dinode] /\ Exact(icache, dinode)
      /\ cwd \in [Procs -> Inums] /\ ofile \in [Procs -> File \cup {None}]
      /\ \A j \in Inums : icache[j].ref \in Nat
      /\ \A j \in Inums : icache[j].lock = p <=> LockedBy(o, j)
  BY Here
<1>4. i \in Inums /\ s \in Seq(Inums)
  <2>1. o.puts \in Seq(Inums)
    BY <1>3 DEF Activation
  <2> QED
    BY <1>1, <2>1, HeadTailProperties
<1>5. n \in Int
  BY <1>3, <1>4
<1> HIDE DEF n
<1>6. N \in Activation
  BY <1>3, <1>4 DEF Activation
<1>7. /\ N.at = o.at /\ N.wp = o.wp /\ N.ip = o.ip /\ N.dp = o.dp /\ N.puts = Tail(o.puts) /\ N.iput = "check"
      /\ N.call = o.call /\ N.arg = o.arg /\ N.path = o.path /\ N.name = o.name
      /\ N.rest = o.rest /\ N.then = o.then
  BY <1>3 DEF Activation
<1>8. N.parent <=> o.parent
  BY <1>3 DEF Activation
<1> HIDE DEF N
<1>9. /\ \A c, f : \A j \in Inums : Counts(o, c, f, j) = Counts(N, c, f, j) + B(i, j)
      /\ N.puts = <<>> \/ (\E x : N.puts = <<x>>)
  <2>1. Len(o.puts) <= 2
    BY <1>3 DEF Shape, Puts
  <2>2. ASSUME NEW c, NEW f, NEW j \in Inums
        PROVE  Counts(o, c, f, j) = Counts(N, c, f, j) + B(i, j) /\ (N.puts = <<>> \/ (\E x : N.puts = <<x>>))
    BY <1>1, <1>3, <1>7, <2>1, TailCounts
  <2>3. N.puts = <<>> \/ (\E x : N.puts = <<x>>)
    BY <1>4, <2>2
  <2> QED
    BY <2>2, <2>3
<1>10. Shape(N)
  <2>1. Refers(N)
    BY <1>3, <1>7 DEF Shape, Refers
  <2>2. Walks(N)
    BY <1>3, <1>7, <1>8 DEF Shape, Walks
  <2>3. StageOf(N)
    BY <1>3, <1>7 DEF Shape, StageOf, Stage
  <2>4. Args(N)
    BY <1>3, <1>7 DEF Shape, Args
  <2>5. Puts(N)
    BY <1>7, <1>9, PutsShape
  <2> QED
    BY <2>1, <2>2, <2>3, <2>4, <2>5 DEF Shape
<1>11. icache' \in Table
  BY <1>1, <1>3, <1>4, <1>5 DEF Table, Inode
<1>12. \A j \in Inums : /\ icache'[j].ref = (IF j = i THEN n ELSE icache[j].ref) /\ icache'[j].lock = icache[j].lock
                        /\ icache'[j].type = icache[j].type /\ icache'[j].nlink = icache[j].nlink
  BY <1>1, <1>3, <1>4 DEF Table, Inode
<1>13. \A j \in Inums : icache'[j].valid <=> icache[j].valid
  BY <1>1, <1>3, <1>4 DEF Table, Inode
<1>14. \A j \in Inums : icache'[j].ref = icache[j].ref + Counts(N, cwd'[p], ofile'[p], j) - Counts(o, cwd[p], ofile[p], j)
  <2> SUFFICES ASSUME NEW j \in Inums
               PROVE  icache'[j].ref = icache[j].ref + Counts(N, cwd'[p], ofile'[p], j) - Counts(o, cwd[p], ofile[p], j)
    OBVIOUS
  <2>1. Counts(o, cwd[p], ofile[p], j) = Counts(N, cwd[p], ofile[p], j) + B(i, j)
    BY <1>9
  <2>2. Counts(N, cwd[p], ofile[p], j) \in Nat /\ Counts(N, cwd'[p], ofile'[p], j) = Counts(N, cwd[p], ofile[p], j)
    BY <1>1, CountsNat
  <2>3. icache'[j].ref = icache[j].ref - B(i, j) /\ icache[j].ref \in Nat /\ B(i, j) \in Nat
    BY <1>3, <1>12 DEF B, n
  <2> QED
    BY <2>1, <2>2, <2>3
<1>15. \A j \in Inums : icache'[j].lock = p <=> LockedBy(N, j)
  <2>1. \A j \in Inums : LockedBy(N, j) <=> LockedBy(o, j)
    BY <1>1, <1>7 DEF LockedBy
  <2> QED
    BY <1>3, <1>12, <2>1
<1>16. \A j \in Inums, q \in Procs \ {p} : icache'[j].lock = q <=> icache[j].lock = q
  BY <1>12
<1>17. CopiesExact'
  <2>1. \A j \in Inums : icache'[j].ref > 0 => icache[j].ref > 0
    BY <1>3, <1>12 DEF n
  <2>2. Exact(icache', dinode')
    BY <1>1, <1>3, <1>12, <1>13, <2>1 DEF Exact
  <2> QED
    BY <2>2 DEF CopiesExact, Exact, Inums
<1>18. /\ program' = program /\ dinode' \in [Inums -> Dinode] /\ cwd' \in [Procs -> Inums]
       /\ ofile' \in [Procs -> File \cup {None}]
       /\ \A q \in Procs \ {p} : cwd'[q] = cwd[q] /\ ofile'[q] = ofile[q]
  BY <1>1, <1>3
<1> QED
  BY <1>2, <1>6, <1>10, <1>11, <1>14, <1>15, <1>16, <1>17, <1>18, Step

-----------------------------------------------------------------------------
(* The invariant.                                                          *)

LEMMA EntrySet ==
  ASSUME NEW X \in Dinode, NEW n \in Entry, NEW e \in Number
  PROVE  [X EXCEPT !.ents[n] = e] \in Dinode
<1> DEFINE E == [X.ents EXCEPT ![n] = e]
<1>1. E \in [Entry -> Number]
  BY DEF Dinode
<1>2. [X EXCEPT !.ents[n] = e] = [X EXCEPT !.ents = E]
  OBVIOUS
<1> HIDE DEF E
<1>3. [X EXCEPT !.ents = E] \in Dinode
  BY <1>1 DEF Dinode
<1> QED
  BY <1>2, <1>3

LEMMA IInvInit == Init => IInv
<1> SUFFICES ASSUME Init PROVE IInv
  OBVIOUS
<1>1. /\ program \in Programs /\ cwd = [p \in Procs |-> ROOTINO] /\ ofile = [p \in Procs |-> None]
      /\ op = [p \in Procs |-> Idle]
  BY DEF Init
<1>2. ROOTINO \in Inums
  BY DiskAssumption DEF ROOTINO, Inums
<1>3. Idle \in Activation /\ Shape(Idle) /\ \A i \in Inums : ~LockedBy(Idle, i)
  <2>1. /\ Idle.at = "user" /\ Idle.call = None /\ Idle.wp = 0 /\ Idle.ip = 0 /\ Idle.dp = 0 /\ Idle.puts = <<>>
        /\ Idle.iput = "check"
    BY DEF Idle
  <2>2. Refers(Idle) /\ Walks(Idle)
    BY <2>1 DEF Refers, Walks, HasIp, HasDp
  <2>3. StageOf(Idle) /\ Args(Idle)
    BY <2>1, NoneAssumption DEF StageOf, Stage, Args, HasDp
  <2>4. Puts(Idle)
    BY <2>1, PutsShape
  <2>5. \A i \in Inums : ~LockedBy(Idle, i)
    BY <2>1, NoLock DEF LocksDp, LocksIp
  <2> QED
    BY <2>2, <2>3, <2>4, <2>5, Values DEF Shape
<1>4. FreeDinode \in Dinode
  BY Values DEF FreeDinode, NoEnts, Dinode, Types, Entry
<1>5. dinode \in [Inums -> Dinode]
  <2> DEFINE R1 == [FreeDinode EXCEPT !.type = "dir"]
             R2 == [R1 EXCEPT !.nlink = 1]
             R3 == [R2 EXCEPT !.ents["."] = ROOTINO]
             R == [FreeDinode EXCEPT !.type = "dir", !.nlink = 1, !.ents["."] = ROOTINO, !.ents[".."] = ROOTINO]
  <2>1. R = [R3 EXCEPT !.ents[".."] = ROOTINO]
    OBVIOUS
  <2>2. ROOTINO \in Number /\ "." \in Entry /\ ".." \in Entry
    BY <1>2, Values DEF Entry, Dots
  <2>3. R \in Dinode
    <3> HIDE DEF R
    <3>1. R1 \in Dinode
      BY <1>4 DEF Dinode, Types
    <3> HIDE DEF R1
    <3>2. R2 \in Dinode
      BY <3>1 DEF Dinode
    <3> HIDE DEF R2
    <3>3. R3 \in Dinode
      BY <2>2, <3>2, EntrySet
    <3> HIDE DEF R3
    <3> QED
      BY <2>1, <2>2, <3>3, EntrySet
  <2>4. dinode = [i \in Inums |-> IF i = ROOTINO THEN R ELSE FreeDinode]
    BY DEF Init
  <2> HIDE DEF R
  <2> QED
    BY <1>4, <2>3, <2>4
<1>6. /\ icache \in Table
      /\ \A i \in Inums : icache[i].lock = None /\ icache[i].ref = IF i = ROOTINO THEN Cardinality(Procs) ELSE 0
      /\ \A i \in Inums : ~icache[i].valid
  <2>1. Cardinality(Procs) \in Int
    BY NoneAssumption, FS_CardinalityType
  <2> DEFINE r(i) == IF i = ROOTINO THEN Cardinality(Procs) ELSE 0
  <2>2. \A i : r(i) \in Int
    BY <2>1
  <2>3. icache = [i \in Inums |-> [NoInode EXCEPT !.ref = r(i)]]
    BY DEF Init
  <2> HIDE DEF r
  <2>4. \A i : LET x == [NoInode EXCEPT !.ref = r(i)] IN x.ref = r(i) /\ x.lock = None /\ x.valid = FALSE
    BY DEF NoInode
  <2>5. \A i : [NoInode EXCEPT !.ref = r(i)] \in Inode
    <3>1. NoInode \in Inode
      BY DEF NoInode, Inode, Types
    <3> QED
      BY <2>2, <3>1 DEF Inode
  <2>6. icache \in Table
    BY <2>3, <2>5 DEF Table
  <2> QED
    BY <2>3, <2>4, <2>6 DEF r
<1>7. Typed
  BY <1>1, <1>2, <1>3, <1>5, <1>6 DEF Typed
<1>8. Shapes
  BY <1>1, <1>3 DEF Shapes
<1>9. LocksExact
  <2> SUFFICES ASSUME NEW i \in Inums, NEW p \in Procs PROVE icache[i].lock = p <=> HasLocked(p, i)
    BY DEF LocksExact
  <2>1. HasLocked(p, i) <=> LockedBy(op[p], i)
    BY DEF HasLocked, LockedBy
  <2> QED
    BY <1>1, <1>3, <1>6, <2>1, NoneAssumption
<1>10. CopiesExact
  BY <1>6 DEF CopiesExact
<1>11. RefsExact
  <2> SUFFICES ASSUME NEW i \in Inums PROVE icache[i].ref = Cardinality(Refs(i))
    BY DEF RefsExact
  <2>1. \A p \in Procs : Held(p) = [wp |-> 0, ip |-> 0, dp |-> 0, cwd |-> ROOTINO, file |-> 0, put |-> 0, put2 |-> 0]
    BY <1>1 DEF Held, Idle
  <2>2. \A p \in Procs, x \in Places : Held(p)[x] = IF x = "cwd" THEN ROOTINO ELSE 0
    BY <2>1 DEF Places
  <2>3. i # 0
    BY Values
  <2>4. CASE i # ROOTINO
    <3>1. Refs(i) = {}
      BY <2>2, <2>3, <2>4 DEF Refs
    <3> QED
      BY <1>6, <2>4, <3>1, FS_EmptySet
  <2>5. CASE i = ROOTINO
    <3> DEFINE f == [p \in Procs |-> <<p, "cwd">>]
    <3>1. Refs(i) = Procs \X {"cwd"}
      BY <2>2, <2>3, <2>5 DEF Refs, Places
    <3>2. f \in Bijection(Procs, Procs \X {"cwd"})
      BY DEF Bijection, Injection, Surjection, IsInjective
    <3>3. Cardinality(Procs \X {"cwd"}) = Cardinality(Procs)
      BY <3>2, NoneAssumption, FS_Bijection DEF ExistsBijection
    <3> QED
      BY <1>6, <2>5, <3>1, <3>3
  <2> QED
    BY <2>4, <2>5
<1> QED
  BY <1>7, <1>8, <1>9, <1>10, <1>11 DEF IInv

LEMMA ProceedInv ==
  ASSUME IInv, NEW p \in Procs, Proceed(p)
  PROVE  IInv'
BY iputLastInv, iputTruncInv, iputInv, namexInv, namexFailsInv, nameiparentInv, sys_linkInv, LinkEntryInv,
   LinkFailsInv, LinkBadInv, sys_unlinkInv, UnlinkEntryInv, UnlinkedInv, FailedInv, createInv, ExistsInv, iallocInv,
   FillInv, CreatedInv, sys_openInv, FollowLinkInv, FollowTargetInv, FollowedInv, OpenedInv, sys_chdirInv, ChangedInv
   DEF Proceed

LEMMA IInvNext == IInv /\ [Next]_vars => IInv'
<1>1. CASE UNCHANGED vars
  <2> SUFFICES ASSUME IInv PROVE IInv'
    BY DEF vars
  <2>1. /\ program' = program /\ dinode' = dinode /\ icache' = icache /\ cwd' = cwd /\ ofile' = ofile /\ op' = op
    BY <1>1 DEF vars
  <2>2. Typed'
    BY <2>1 DEF IInv, Typed, Dinode, Activation
  <2>3. Shapes'
    BY <2>1 DEF IInv, Shapes, Shape, Refers, Walks, StageOf, Stage, Args, Puts
  <2>4. \A i : Refs(i)' = Refs(i)
    BY <2>1 DEF Refs, Held
  <2>5. RefsExact'
    BY <2>1, <2>4 DEF IInv, RefsExact
  <2>6. LocksExact' /\ CopiesExact'
    BY <2>1 DEF IInv, LocksExact, HasLocked, CopiesExact
  <2> QED
    BY <2>2, <2>3, <2>5, <2>6 DEF IInv
<1>2. ASSUME IInv, NEW p \in Procs, Call(p) \/ Proceed(p)
      PROVE  IInv'
  BY <1>2, CallInv, ProceedInv
<1> QED
  BY <1>1, <1>2 DEF Next

THEOREM IInvCorrect == Spec => []IInv
BY IInvInit, IInvNext, PTL DEF Spec

\* An inode has exactly the references that the current directories, the files
\* and the calls of all processes hold, is locked by exactly the call that works on it,
\* and its copy in use is the inode on disk, which is not free.
THEOREM TableCorrect == Spec => []TableInv
<1>1. IInv => TableInv
  BY DEF IInv, TableInv
<1> QED
  BY <1>1, IInvCorrect, PTL

\* The first reference that a call drops is one of those that it holds ...
LEMMA HoldsHead ==
  ASSUME NEW o \in Activation, Len(o.puts) <= 2, o.puts # <<>>, NEW c, NEW f, NEW i \in Inums, i = Head(o.puts)
  PROVE  /\ Counts(o, c, f, i) >= 1
         /\ o.ip = i \/ o.dp = i => Counts(o, c, f, i) >= 2
<1>1. PICK h : h = HeldBy(o, c, f)
  OBVIOUS
<1>2. h.ip = o.ip /\ h.dp = o.dp
  BY <1>1 DEF HeldBy
<1>3. h.put = i \/ h.put2 = i
  <2>1. o.puts \in Seq(Inums)
    BY DEF Activation
  <2>2. PICK n \in Nat : n = Len(o.puts)
    BY <2>1
  <2>3. n # 0
    BY <2>1, <2>2, EmptySeq
  <2>4. n <= 2
    BY <2>2
  <2>5. n = 1 \/ n = 2
    BY <2>3, <2>4
  <2>6. i = o.puts[1]
    BY <2>1
  <2>7. /\ h.put = IF n >= 1 THEN o.puts[n] ELSE 0
        /\ h.put2 = IF n >= 2 THEN o.puts[n - 1] ELSE 0
    BY <1>1, <2>2 DEF HeldBy
  <2>8. CASE n = 1
    BY <2>6, <2>7, <2>8
  <2>9. CASE n = 2
    BY <2>6, <2>7, <2>9
  <2> QED
    BY <2>5, <2>8, <2>9
<1>4. Counts(o, c, f, i) = Count(h, i)
  BY <1>1 DEF Counts
<1> QED
  BY <1>2, <1>3, <1>4 DEF Count, B

\* ... and so is the inode that it has locked.
LEMMA HoldsLocked ==
  ASSUME NEW o \in Activation, Shape(o), NEW c, NEW f, NEW i \in Inums, LockedBy(o, i)
  PROVE  Counts(o, c, f, i) >= 1
<1>1. CASE o.ip = i \/ o.dp = i
  <2>1. HeldBy(o, c, f).ip = o.ip /\ HeldBy(o, c, f).dp = o.dp
    BY DEF HeldBy
  <2> QED
    BY <1>1, <2>1 DEF Counts, Count, B
<1>2. CASE o.iput = "trunc" /\ Head(o.puts) = i
  BY <1>2, HoldsHead DEF Shape, Puts
<1> QED
  BY <1>1, <1>2 DEF LockedBy

LEMMA NeverBlocks == IInv => IputNeverBlocks
<1> SUFFICES ASSUME IInv, NEW p \in Procs, op[p].puts # <<>>, op[p].iput = "check", LastRef(Head(op[p].puts)),
                    icache[Head(op[p].puts)].lock # None
             PROVE  FALSE
  BY DEF IputNeverBlocks
<1> DEFINE i == Head(op[p].puts)
           H == [q \in Procs |-> HeldBy(op[q], cwd[q], ofile[q])]
<1>1. \A q \in Procs : op[q] \in Activation /\ Shape(op[q]) /\ \A j \in Inums : icache[j].lock = q <=> LockedBy(op[q], j)
  BY Here
<1>2. i \in Inums
  <2>1. op[p].puts \in Seq(Inums)
    BY <1>1 DEF Activation
  <2> QED
    BY <2>1, HeadTailProperties
<1>3. PICK q \in Procs : icache[i].lock = q
  BY <1>2 DEF IInv, Typed, Table, Inode
<1>4. LockedBy(op[q], i)
  BY <1>1, <1>2, <1>3
<1>5. icache[i].ref = Cardinality(RefsOf(H, i)) /\ \A r \in Procs : H[r] = HeldBy(op[r], cwd[r], ofile[r])
  BY <1>2, RefsAreCounts DEF IInv
<1>6. \A r \in Procs : Counts(op[r], cwd[r], ofile[r], i) = Count(H[r], i) /\ Count(H[r], i) \in Nat
  BY <1>5, CountsNat DEF Counts
<1> HIDE DEF H
<1>7. Cardinality(RefsOf(H, i)) = 1
  BY <1>5 DEF LastRef
<1>8. /\ Count(H[p], i) >= 1
      /\ op[p].ip = i \/ op[p].dp = i => Count(H[p], i) >= 2
  <2>1. Len(op[p].puts) <= 2 /\ op[p] \in Activation
    BY <1>1 DEF Shape, Puts
  <2>2. /\ Counts(op[p], cwd[p], ofile[p], i) >= 1
        /\ op[p].ip = i \/ op[p].dp = i => Counts(op[p], cwd[p], ofile[p], i) >= 2
    BY <1>2, <2>1, HoldsHead
  <2> QED
    BY <1>6, <2>2
<1>9. CASE q = p
  <2>1. op[p].ip = i \/ op[p].dp = i
    BY <1>4, <1>9 DEF LockedBy
  <2>2. Count(H[p], i) <= 1
    BY <1>7, CountLeqOne
  <2> QED
    BY <1>6, <1>8, <2>1, <2>2
<1>10. CASE q # p
  <2>1. Count(H[q], i) >= 1
    BY <1>1, <1>2, <1>4, <1>6, HoldsLocked
  <2>2. Count(H[p], i) + Count(H[q], i) <= 1
    BY <1>7, <1>10, CountLeq
  <2> QED
    BY <1>6, <1>8, <2>1, <2>2
<1> QED
  BY <1>9, <1>10

\* The comment in iput() is true: with the last reference nobody has the inode locked, so
\* that acquiresleep() under itable.lock does not wait.
THEOREM IputCorrect == Spec => []IputNeverBlocks
BY NeverBlocks, IInvCorrect, PTL
=============================================================================
