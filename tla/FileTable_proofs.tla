-------------------------- MODULE FileTable_proofs --------------------------
(***************************************************************************)
(* Proofs about FileTable: references are exact, a pipe lives as long as   *)
(* its ends, nobody sleeps on it without a reason, and fileclose() never   *)
(* panics, for any number of processes, files, descriptors and pipes.      *)
(***************************************************************************)
EXTENDS FileTable, FiniteSetTheorems, FunctionTheorems, SequenceTheorems, WellFoundedInduction, TLAPS

-----------------------------------------------------------------------------
(* The inductive invariant.                                                *)

FileType == [ref : Nat, type : {"none", "pipe"}, pipe : Pipes \cup {None}, writable : BOOLEAN]
PipeType == [page : BOOLEAN, data : [0 .. PIPESIZE - 1 -> Bytes],
             nread : 0 .. UINT - 1, nwrite : 0 .. UINT - 1, readopen : BOOLEAN, writeopen : BOOLEAN]
OpType == [at : Wheres, todo : Seq(Files), pipe : Pipes \cup {None}, rest : Seq(Bytes), n : Nat,
           writable : BOOLEAN, exiting : BOOLEAN]

Types ==
  /\ alive \in [Procs -> BOOLEAN] /\ killed \in [Procs -> BOOLEAN]
  /\ ofile \in [Procs -> [Fds -> Files \cup {None}]]
  /\ file \in [Files -> FileType]
  /\ pipe \in [Pipes -> PipeType]
  /\ op \in [Procs -> OpType]
  /\ panicked = FALSE

\* What each place in a call says about the rest of the call o, with the
\* descriptors d, of a process that is alive or not.
InPipe(o) == o.at \in {"read", "rsleep", "write", "wsleep"}
Shape(o, d, a) ==
  /\ o.at = "user" => o = Idle
  /\ ~a => o.at = "user" /\ \A fd \in Fds : d[fd] = None
  /\ o.exiting => \A fd \in Fds : d[fd] = None
  /\ o.at = "pipe1" => Len(o.todo) = 1 /\ ~o.exiting
  /\ o.at = "pipe2" => Len(o.todo) = 2 /\ ~o.exiting
  /\ InPipe(o) => o.todo = <<>>
  /\ Len(o.todo) <= NOFILE + 2
  /\ o.at \in {"pipe1", "pipe2", "close"} => o.pipe = None
  /\ InPipe(o) \/ o.at = "pipeclose" => o.pipe \in Pipes
Shapes == \A p \in Procs : Shape(op[p], ofile[p], alive[p])

\* The references of a file: descriptors, and calls that close it or make it.
DescRefs(of, f) == {x \in Procs \X Fds : of[x[1]][x[2]] = f}
CallRefs(o, f) == {x \in Procs \X (1 .. NOFILE + 2) : x[2] \in DOMAIN o[x[1]].todo /\ o[x[1]].todo[x[2]] = f}
Refs(fi, of, o) == \A f \in Files : fi[f].ref = Cardinality(DescRefs(of, f)) + Cardinality(CallRefs(o, f))

\* The files of a pipe that is being made are its own.
FreshOf(p) ==
  op[p].at \in {"pipe1", "pipe2"} =>
    /\ \A i \in 1 .. Len(op[p].todo) : file[op[p].todo[i]].ref = 1 /\ file[op[p].todo[i]].type = "none"
    /\ op[p].at = "pipe2" => op[p].todo[1] # op[p].todo[2]
Fresh == \A p \in Procs : FreshOf(p)

FilesOK ==
  \A f \in Files :
    /\ file[f].ref = 0 => file[f].type = "none"
    /\ file[f].type = "none" => file[f].pipe = None
    /\ file[f].type = "pipe" => file[f].pipe \in Pipes

\* An end of a pipe is open as long as one file or one pipeclose() stands for it.
IsEnd(f, pi, w) == file[f].type = "pipe" /\ file[f].pipe = pi /\ file[f].writable = w
IsClosing(p, pi, w) == op[p].at = "pipeclose" /\ op[p].pipe = pi /\ op[p].writable = w
IsOpen(pi, w) == IF w THEN pipe[pi].writeopen ELSE pipe[pi].readopen
EndOK(pi, w) ==
  /\ \A f \in Files : IsEnd(f, pi, w) => IsOpen(pi, w)
  /\ \A p \in Procs : IsClosing(p, pi, w) => IsOpen(pi, w)
  /\ \A f, g \in Files : IsEnd(f, pi, w) /\ IsEnd(g, pi, w) => f = g
  /\ \A p, q \in Procs : IsClosing(p, pi, w) /\ IsClosing(q, pi, w) => p = q
  /\ \A f \in Files, p \in Procs : ~(IsEnd(f, pi, w) /\ IsClosing(p, pi, w))
  /\ IsOpen(pi, w) => (\E f \in Files : IsEnd(f, pi, w)) \/ (\E p \in Procs : IsClosing(p, pi, w))
EndsOK == \A pi \in Pipes, w \in BOOLEAN : EndOK(pi, w)

Pages ==
  \A pi \in Pipes :
    /\ pipe[pi].page = (pipe[pi].readopen \/ pipe[pi].writeopen)
    /\ Held(pi) <= PIPESIZE

\* A process that reads or writes has a descriptor of that end.
Linked(p) ==
  InPipe(op[p]) =>
    \E fd \in Fds : ofile[p][fd] \in Files /\ IsEnd(ofile[p][fd], op[p].pipe, op[p].at \in {"write", "wsleep"})
Links == \A p \in Procs : Linked(p)

\* SleepersMustWait, for one process.
Waits(p) ==
  /\ op[p].at \in {"rsleep", "wsleep"} => ~killed[p]
  /\ op[p].at = "rsleep" => Empty(op[p].pipe) /\ pipe[op[p].pipe].writeopen
  /\ op[p].at = "wsleep" => Full(op[p].pipe) /\ pipe[op[p].pipe].readopen
Sleepers == \A p \in Procs : Waits(p)

IInv ==
  /\ Types /\ Shapes /\ Refs(file, ofile, op) /\ Fresh /\ FilesOK
  /\ EndsOK /\ Pages /\ Links /\ Sleepers

-----------------------------------------------------------------------------
(* Counting.                                                               *)

LEMMA SameSize ==
  ASSUME NEW S, NEW T, IsFiniteSet(S), NEW m \in [S -> T],
         \A a, b \in S : m[a] = m[b] => a = b, \A t \in T : \E s \in S : m[s] = t
  PROVE  Cardinality(T) = Cardinality(S) /\ IsFiniteSet(T)
<1>1. m \in Bijection(S, T)
  BY DEF Bijection, Injection, Surjection, IsInjective
<1>2. ExistsBijection(S, T)
  BY <1>1 DEF ExistsBijection
<1> QED
  BY <1>2, FS_Bijection

\* Sets that differ in one element.
LEMMA OneOff ==
  ASSUME NEW S, NEW T, IsFiniteSet(S), IsFiniteSet(T), NEW x, S \ {x} = T \ {x}
  PROVE  Cardinality(T) + (IF x \in S THEN 1 ELSE 0) = Cardinality(S) + (IF x \in T THEN 1 ELSE 0)
<1>1. Cardinality(S) \in Nat /\ Cardinality(T) \in Nat
  BY FS_CardinalityType
<1>2. Cardinality(S \ {x}) = IF x \in S THEN Cardinality(S) - 1 ELSE Cardinality(S)
  BY FS_RemoveElement
<1>3. Cardinality(T \ {x}) = IF x \in T THEN Cardinality(T) - 1 ELSE Cardinality(T)
  BY FS_RemoveElement
<1> QED
  BY <1>1, <1>2, <1>3

LEMMA RefsFinite ==
  ASSUME NEW of, NEW o, NEW f
  PROVE  /\ IsFiniteSet(DescRefs(of, f)) /\ Cardinality(DescRefs(of, f)) \in Nat
         /\ IsFiniteSet(CallRefs(o, f)) /\ Cardinality(CallRefs(o, f)) \in Nat
<1>1. NOFILE \in Nat /\ NOFILE - 1 \in Int /\ NOFILE + 2 \in Int /\ 0 \in Int /\ 1 \in Int
  BY TableAssumption
<1>2. IsFiniteSet(Fds) /\ IsFiniteSet(1 .. NOFILE + 2) /\ IsFiniteSet(Procs)
  BY <1>1, FS_Interval, ProgramAssumption DEF Fds
<1>3. IsFiniteSet(Procs \X Fds) /\ IsFiniteSet(Procs \X (1 .. NOFILE + 2))
  BY <1>2, FS_Product
<1>4. IsFiniteSet(DescRefs(of, f))
  <2>1. DescRefs(of, f) \in SUBSET (Procs \X Fds)
    BY DEF DescRefs
  <2> QED
    BY <1>3, <2>1, FS_Subset
<1>5. IsFiniteSet(CallRefs(o, f))
  <2>1. CallRefs(o, f) \in SUBSET (Procs \X (1 .. NOFILE + 2))
    BY DEF CallRefs
  <2> QED
    BY <1>3, <2>1, FS_Subset
<1> QED
  BY <1>4, <1>5, FS_CardinalityType

\* One descriptor changes.
DescMoved(of, on, p, fd, f) ==
  Cardinality(DescRefs(on, f)) + (IF of[p][fd] = f THEN 1 ELSE 0)
    = Cardinality(DescRefs(of, f)) + (IF on[p][fd] = f THEN 1 ELSE 0)

LEMMA DescCell ==
  ASSUME NEW of, NEW on, NEW p \in Procs, NEW fd \in Fds, NEW f,
         \A q \in Procs, x \in Fds : ~(q = p /\ x = fd) => on[q][x] = of[q][x]
  PROVE  DescMoved(of, on, p, fd, f)
<1>1. DescRefs(of, f) \ {<<p, fd>>} = DescRefs(on, f) \ {<<p, fd>>}
  BY DEF DescRefs
<1>2. <<p, fd>> \in DescRefs(of, f) <=> of[p][fd] = f
  BY DEF DescRefs
<1>3. <<p, fd>> \in DescRefs(on, f) <=> on[p][fd] = f
  BY DEF DescRefs
<1>4. IsFiniteSet(DescRefs(of, f)) /\ IsFiniteSet(DescRefs(on, f))
  BY RefsFinite
<1>5. PICK S, T : S = DescRefs(of, f) /\ T = DescRefs(on, f)
  OBVIOUS
<1>6. Cardinality(T) + (IF <<p, fd>> \in S THEN 1 ELSE 0) = Cardinality(S) + (IF <<p, fd>> \in T THEN 1 ELSE 0)
  BY <1>1, <1>4, <1>5, OneOff
<1> QED
  BY <1>2, <1>3, <1>5, <1>6 DEF DescMoved

\* One place in a call changes.
Todo(o, p, i, f) == i \in DOMAIN o[p].todo /\ o[p].todo[i] = f

LEMMA CallCell ==
  ASSUME NEW o, NEW on, NEW p \in Procs, NEW i \in 1 .. NOFILE + 2, NEW f,
         \A q \in Procs, j \in 1 .. NOFILE + 2 : ~(q = p /\ j = i) => (Todo(on, q, j, f) <=> Todo(o, q, j, f))
  PROVE  Cardinality(CallRefs(on, f)) + (IF Todo(o, p, i, f) THEN 1 ELSE 0)
           = Cardinality(CallRefs(o, f)) + (IF Todo(on, p, i, f) THEN 1 ELSE 0)
<1>1. CallRefs(o, f) \ {<<p, i>>} = CallRefs(on, f) \ {<<p, i>>}
  BY DEF CallRefs, Todo
<1>2. <<p, i>> \in CallRefs(o, f) <=> Todo(o, p, i, f)
  BY DEF CallRefs, Todo
<1>3. <<p, i>> \in CallRefs(on, f) <=> Todo(on, p, i, f)
  BY DEF CallRefs, Todo
<1>4. IsFiniteSet(CallRefs(o, f)) /\ IsFiniteSet(CallRefs(on, f))
  BY RefsFinite
<1>5. PICK S, T : S = CallRefs(o, f) /\ T = CallRefs(on, f)
  OBVIOUS
<1>6. Cardinality(T) + (IF <<p, i>> \in S THEN 1 ELSE 0) = Cardinality(S) + (IF <<p, i>> \in T THEN 1 ELSE 0)
  BY <1>1, <1>4, <1>5, OneOff
<1> QED
  BY <1>2, <1>3, <1>5, <1>6

LEMMA SameCalls ==
  ASSUME NEW o, NEW on, NEW f, \A q \in Procs : on[q].todo = o[q].todo
  PROVE  CallRefs(on, f) = CallRefs(o, f)
BY DEF CallRefs

\* The first file of a call, h, is done with.
CallDropped(o, on, h, f) ==
  Cardinality(CallRefs(o, f)) = Cardinality(CallRefs(on, f)) + (IF h = f THEN 1 ELSE 0)

LEMMA CallTail ==
  ASSUME NEW o, NEW on, NEW p \in Procs, NEW f, NEW s \in Seq(Files), s # <<>>, Len(s) <= NOFILE + 2,
         NEW h, h = Head(s), o[p].todo = s, on[p].todo = Tail(s), \A q \in Procs \ {p} : on[q].todo = o[q].todo
  PROVE  CallDropped(o, on, h, f)
<1> DEFINE S == CallRefs(on, f)
           T == CallRefs(o, f) \ {<<p, 1>>}
           m == [x \in S |-> IF x[1] = p THEN <<p, x[2] + 1>> ELSE x]
<1>0. NOFILE \in Nat /\ Len(s) \in Nat \ {0}
  BY TableAssumption, EmptySeq
<1>1. Tail(s) \in Seq(Files) /\ Len(Tail(s)) = Len(s) - 1 /\ \A i \in 1 .. Len(s) - 1 : Tail(s)[i] = s[i + 1]
  BY <1>0
<1>2. ASSUME NEW i \in 1 .. NOFILE + 2
      PROVE  <<p, i>> \in S <=> i \in 1 .. Len(s) - 1 /\ s[i + 1] = f
  <2>1. PICK t \in Seq(Files) : t = Tail(s) /\ Len(t) = Len(s) - 1
    BY <1>1
  <2>2. DOMAIN t = 1 .. Len(s) - 1
    BY <2>1
  <2>3. <<p, i>> \in S <=> i \in DOMAIN t /\ t[i] = f
    BY <2>1 DEF CallRefs
  <2>4. i \in 1 .. Len(s) - 1 => t[i] = s[i + 1]
    BY <1>1, <2>1
  <2> QED
    BY <2>2, <2>3, <2>4
<1>3. ASSUME NEW i \in 1 .. NOFILE + 2
      PROVE  <<p, i>> \in CallRefs(o, f) <=> i \in 1 .. Len(s) /\ s[i] = f
  BY <1>0 DEF CallRefs
<1>4. ASSUME NEW q \in Procs \ {p}, NEW i \in 1 .. NOFILE + 2
      PROVE  <<q, i>> \in S <=> <<q, i>> \in CallRefs(o, f)
  BY DEF CallRefs
<1>5. ASSUME NEW x \in S \cup CallRefs(o, f)
      PROVE  x[1] \in Procs /\ x[2] \in 1 .. NOFILE + 2 /\ x = <<x[1], x[2]>>
  BY DEF CallRefs
<1> HIDE DEF S
<1>6. m \in [S -> T]
  <2> SUFFICES ASSUME NEW x \in S PROVE m[x] \in T
    OBVIOUS
  <2>1. x[1] \in Procs /\ x[2] \in 1 .. NOFILE + 2 /\ x = <<x[1], x[2]>>
    BY <1>5
  <2>2. CASE x[1] = p
    <3>1. x[2] \in 1 .. Len(s) - 1 /\ s[x[2] + 1] = f
      BY <1>2, <2>1, <2>2
    <3>2. x[2] + 1 \in 1 .. NOFILE + 2 /\ x[2] + 1 \in 1 .. Len(s) /\ x[2] + 1 # 1
      BY <1>0, <3>1
    <3>3. <<p, x[2] + 1>> \in CallRefs(o, f)
      BY <1>3, <3>1, <3>2
    <3> QED
      BY <2>2, <3>2, <3>3
  <2>3. CASE x[1] # p
    <3>1. x \in CallRefs(o, f)
      BY <1>4, <2>1, <2>3
    <3> QED
      BY <2>1, <2>3, <3>1
  <2> QED
    BY <2>2, <2>3
<1>7. ASSUME NEW x \in S, NEW y \in S, m[x] = m[y] PROVE x = y
  <2>1. /\ x[2] \in 1 .. NOFILE + 2 /\ x = <<x[1], x[2]>>
        /\ y[2] \in 1 .. NOFILE + 2 /\ y = <<y[1], y[2]>>
    BY <1>5
  <2>2. CASE x[1] = p /\ y[1] = p
    <3>1. <<p, x[2] + 1>> = <<p, y[2] + 1>>
      BY <1>7, <2>2
    <3>2. x[2] + 1 = y[2] + 1
      BY <3>1
    <3>3. x[2] = y[2]
      BY <2>1, <3>2
    <3> QED
      BY <2>1, <2>2, <3>3
  <2>3. CASE x[1] # p /\ y[1] # p
    BY <1>7, <2>3
  <2>4. CASE x[1] = p /\ y[1] # p
    <3>1. <<p, x[2] + 1>> = y
      BY <1>7, <2>4
    <3> QED
      BY <2>4, <3>1
  <2>5. CASE x[1] # p /\ y[1] = p
    <3>1. x = <<p, y[2] + 1>>
      BY <1>7, <2>5
    <3> QED
      BY <2>5, <3>1
  <2> QED
    BY <2>2, <2>3, <2>4, <2>5
<1>8. ASSUME NEW t \in T PROVE \E x \in S : m[x] = t
  <2>1. t[1] \in Procs /\ t[2] \in 1 .. NOFILE + 2 /\ t = <<t[1], t[2]>> /\ t # <<p, 1>> /\ t \in CallRefs(o, f)
    BY <1>5
  <2>2. CASE t[1] = p
    <3>1. t[2] # 1
      BY <2>1, <2>2
    <3>2. PICK i \in 1 .. NOFILE + 2 : t[2] = i + 1
      <4>1. t[2] - 1 \in 1 .. NOFILE + 2 /\ t[2] = (t[2] - 1) + 1
        BY <1>0, <2>1, <3>1
      <4> QED
        BY <4>1
    <3>3. i + 1 \in 1 .. Len(s) /\ s[i + 1] = f
      BY <1>3, <2>1, <2>2, <3>2
    <3>4. <<p, i>> \in S
      <4>1. i \in 1 .. Len(s) - 1
        BY <1>0, <3>3
      <4> QED
        BY <1>2, <3>3, <4>1
    <3>5. m[<<p, i>>] = t
      BY <2>1, <2>2, <3>2, <3>4
    <3> QED
      BY <3>4, <3>5
  <2>3. CASE t[1] # p
    <3>1. t \in S
      BY <1>4, <2>1, <2>3
    <3> QED
      BY <2>3, <3>1
  <2> QED
    BY <2>2, <2>3
<1>9. IsFiniteSet(S) /\ IsFiniteSet(CallRefs(o, f)) /\ Cardinality(CallRefs(o, f)) \in Nat
  BY RefsFinite DEF S
<1>10. Cardinality(T) = Cardinality(S)
  <2> HIDE DEF m, T
  <2> QED
    BY <1>6, <1>7, <1>8, <1>9, SameSize
<1>11. Cardinality(T) = IF <<p, 1>> \in CallRefs(o, f) THEN Cardinality(CallRefs(o, f)) - 1 ELSE Cardinality(CallRefs(o, f))
  BY <1>9, FS_RemoveElement
<1>12. <<p, 1>> \in CallRefs(o, f) <=> Head(s) = f
  <2>1. 1 \in 1 .. NOFILE + 2 /\ 1 \in 1 .. Len(s) /\ Head(s) = s[1]
    BY <1>0
  <2> QED
    BY <1>3, <2>1
<1> QED
  BY <1>9, <1>10, <1>11, <1>12 DEF S, CallDropped

-----------------------------------------------------------------------------
(* Descriptors in order.                                                   *)

LEMMA RankIs ==
  ASSUME NEW S, S \subseteq Fds
  PROVE  /\ IsFiniteSet(S) /\ Cardinality(S) \in 0 .. NOFILE
         /\ \A x \in S : Rank(S, x) \in 1 .. Cardinality(S)
         /\ \A x, y \in S : Rank(S, x) = Rank(S, y) => x = y
         /\ \A i \in 1 .. Cardinality(S) : \E x \in S : Rank(S, x) = i
<1>1. NOFILE \in Nat \ {0} /\ NOFILE - 1 \in Int /\ 0 \in Int
  BY TableAssumption
<1>2. IsFiniteSet(Fds) /\ Cardinality(Fds) = NOFILE
  <2>1. IsFiniteSet(0 .. NOFILE - 1) /\ Cardinality(0 .. NOFILE - 1) = IF 0 > NOFILE - 1 THEN 0 ELSE NOFILE - 1 - 0 + 1
    BY <1>1, FS_Interval
  <2> QED
    BY <1>1, <2>1 DEF Fds
<1>3. IsFiniteSet(S) /\ Cardinality(S) <= NOFILE
  BY <1>2, FS_Subset
<1>4. Cardinality(S) \in Nat
  BY <1>3, FS_CardinalityType
<1>5. \A x \in S : x \in Nat
  BY <1>1 DEF Fds
<1> DEFINE Low(x) == {y \in S : y <= x}
<1>6. ASSUME NEW x \in S PROVE IsFiniteSet(Low(x)) /\ Cardinality(Low(x)) \in 1 .. Cardinality(S)
  <2>1. Low(x) \in SUBSET S
    OBVIOUS
  <2>2. IsFiniteSet(Low(x)) /\ Cardinality(Low(x)) <= Cardinality(S)
    BY <1>3, <2>1, FS_Subset
  <2>3. x \in Low(x)
    BY <1>5
  <2>4. Cardinality(Low(x)) \in Nat /\ Cardinality(Low(x)) # 0
    BY <2>2, <2>3, FS_CardinalityType, FS_EmptySet
  <2> QED
    BY <1>4, <2>2, <2>4
<1>7. ASSUME NEW x \in S, NEW y \in S, Cardinality(Low(x)) = Cardinality(Low(y)) PROVE x = y
  <2>1. x \in Low(x) /\ y \in Low(y)
    BY <1>5
  <2>2. CASE x <= y
    <3>1. Low(x) \in SUBSET Low(y)
      BY <1>5, <2>2
    <3>2. IsFiniteSet(Low(y))
      BY <1>6
    <3>3. Low(y) = Low(x)
      <4> HIDE DEF Low
      <4> QED
        BY <1>7, <3>1, <3>2, FS_Subset
    <3>4. y <= x
      BY <2>1, <3>3
    <3> QED
      BY <1>5, <2>2, <3>4
  <2>3. CASE y <= x
    <3>1. Low(y) \in SUBSET Low(x)
      BY <1>5, <2>3
    <3>2. IsFiniteSet(Low(x))
      BY <1>6
    <3>3. Low(y) = Low(x)
      <4> HIDE DEF Low
      <4> QED
        BY <1>7, <3>1, <3>2, FS_Subset
    <3>4. x <= y
      BY <2>1, <3>3
    <3> QED
      BY <1>5, <2>3, <3>4
  <2> QED
    BY <1>5, <2>2, <2>3
<1>8. \A i \in 1 .. Cardinality(S) : \E x \in S : Cardinality(Low(x)) = i
  <2> DEFINE T == 1 .. Cardinality(S)
             m == [x \in S |-> Cardinality(Low(x))]
  <2>1. m \in [S -> T]
    BY <1>6
  <2>2. m \in Injection(S, T)
    BY <1>7, <2>1 DEF Injection, IsInjective
  <2>3. IsFiniteSet(T) /\ Cardinality(T) = Cardinality(S)
    <3>1. PICK c \in Nat : c = Cardinality(S)
      BY <1>4
    <3>2. IsFiniteSet(1 .. c) /\ Cardinality(1 .. c) = IF 1 > c THEN 0 ELSE c - 1 + 1
      BY FS_Interval
    <3> QED
      BY <3>1, <3>2
  <2> HIDE DEF T, m
  <2>4. m \in Surjection(S, T)
    BY <2>2, <2>3, FS_Injection
  <2> QED
    BY <2>4 DEF Surjection, T, m
<1>9. \A x \in S : Rank(S, x) = Cardinality(Low(x))
  BY DEF Rank
<1>10. Cardinality(S) \in 0 .. NOFILE
  BY <1>1, <1>3, <1>4
<1> HIDE DEF Low
<1>11. \A x \in S : Rank(S, x) \in 1 .. Cardinality(S)
  BY <1>6, <1>9
<1>12. \A x, y \in S : Rank(S, x) = Rank(S, y) => x = y
  BY <1>7, <1>9
<1>13. \A i \in 1 .. Cardinality(S) : \E x \in S : Rank(S, x) = i
  BY <1>8, <1>9
<1> QED
  BY <1>3, <1>10, <1>11, <1>12, <1>13

\* The descriptors that are free, and what the first of them get.
LEMMA OpenIs ==
  ASSUME Types, NEW p \in Procs
  PROVE  /\ IsFiniteSet(Open(p)) /\ Cardinality(Open(p)) \in 0 .. NOFILE /\ FdsLeft(p) \in 0 .. NOFILE
         /\ Cardinality(Fds \ Open(p)) = FdsLeft(p)
<1>1. NOFILE \in Nat \ {0} /\ NOFILE - 1 \in Int /\ 0 \in Int
  BY TableAssumption
<1>2. Open(p) \subseteq Fds /\ Fds \cap Open(p) = Open(p)
  BY DEF Open
<1>3. IsFiniteSet(Fds) /\ Cardinality(Fds) = NOFILE
  <2>1. IsFiniteSet(0 .. NOFILE - 1) /\ Cardinality(0 .. NOFILE - 1) = IF 0 > NOFILE - 1 THEN 0 ELSE NOFILE - 1 - 0 + 1
    BY <1>1, FS_Interval
  <2> QED
    BY <1>1, <2>1 DEF Fds
<1>4. IsFiniteSet(Open(p)) /\ Cardinality(Open(p)) \in 0 .. NOFILE
  BY <1>2, RankIs
<1>5. Cardinality(Fds \ Open(p)) = Cardinality(Fds) - Cardinality(Fds \cap Open(p))
  BY <1>3, FS_Difference
<1>6. PICK c \in 0 .. NOFILE : c = Cardinality(Open(p))
  BY <1>4
<1>7. FdsLeft(p) = NOFILE - c /\ Cardinality(Fds \ Open(p)) = NOFILE - c
  BY <1>2, <1>3, <1>5, <1>6 DEF FdsLeft
<1>8. NOFILE - c \in 0 .. NOFILE
  BY <1>1
<1> QED
  BY <1>4, <1>7, <1>8

\* d is ofile[p] with each of fs in a descriptor that was free.
Placed(p, fs, d) ==
  /\ d \in [Fds -> Files \cup {None}]
  /\ \E g \in [1 .. Len(fs) -> Fds] :
       /\ \A i \in 1 .. Len(fs) : ofile[p][g[i]] = None /\ d[g[i]] = fs[i]
       /\ \A i, j \in 1 .. Len(fs) : g[i] = g[j] => i = j
       /\ \A fd \in Fds : d[fd] = ofile[p][fd] \/ \E i \in 1 .. Len(fs) : fd = g[i]

LEMMA fdallocIs ==
  ASSUME Types, NEW p \in Procs, NEW fs \in Seq(Files), Len(fs) <= FdsLeft(p), NEW d, d = fdalloc(p, fs)
  PROVE  Placed(p, fs, d)
<1> DEFINE free == Fds \ Open(p)
<1>1. Len(fs) \in Nat /\ FdsLeft(p) \in Nat /\ Cardinality(free) = FdsLeft(p)
  BY OpenIs
<1>2. d = [fd \in Fds |-> IF fd \in free /\ Rank(free, fd) <= Len(fs) THEN fs[Rank(free, fd)] ELSE ofile[p][fd]]
  BY DEF fdalloc
<1>3. /\ \A x \in free : Rank(free, x) \in 1 .. Cardinality(free)
      /\ \A x, y \in free : Rank(free, x) = Rank(free, y) => x = y
      /\ \A i \in 1 .. Cardinality(free) : \E x \in free : Rank(free, x) = i
  <2>1. free \subseteq Fds
    OBVIOUS
  <2> QED
    BY <2>1, RankIs
<1>4. \A x \in free : x \in Fds /\ ofile[p][x] = None
  BY DEF Open
<1>5. ofile[p] \in [Fds -> Files \cup {None}]
  BY DEF Types
<1> HIDE DEF free
<1>6. d \in [Fds -> Files \cup {None}]
  <2> SUFFICES ASSUME NEW fd \in Fds PROVE d[fd] \in Files \cup {None}
    BY <1>2
  <2>1. CASE fd \in free /\ Rank(free, fd) <= Len(fs)
    <3>1. Rank(free, fd) \in 1 .. Len(fs)
      BY <1>1, <1>3, <2>1
    <3>2. d[fd] = fs[Rank(free, fd)]
      BY <1>2, <2>1
    <3> QED
      BY <3>1, <3>2
  <2>2. CASE ~(fd \in free /\ Rank(free, fd) <= Len(fs))
    BY <1>2, <1>5, <2>2
  <2> QED
    BY <2>1, <2>2
<1> DEFINE g == [i \in 1 .. Len(fs) |-> CHOOSE x \in free : Rank(free, x) = i]
<1>7. ASSUME NEW i \in 1 .. Len(fs) PROVE g[i] \in free /\ Rank(free, g[i]) = i
  <2>1. i \in 1 .. Cardinality(free)
    BY <1>1
  <2> QED
    BY <1>3, <2>1
<1>8. g \in [1 .. Len(fs) -> Fds]
  BY <1>4, <1>7
<1> HIDE DEF g
<1>9. ASSUME NEW i \in 1 .. Len(fs) PROVE ofile[p][g[i]] = None /\ d[g[i]] = fs[i]
  BY <1>1, <1>2, <1>4, <1>7
<1>10. \A i, j \in 1 .. Len(fs) : g[i] = g[j] => i = j
  BY <1>7
<1>11. ASSUME NEW fd \in Fds PROVE d[fd] = ofile[p][fd] \/ \E i \in 1 .. Len(fs) : fd = g[i]
  <2>1. CASE fd \in free /\ Rank(free, fd) <= Len(fs)
    <3>1. Rank(free, fd) \in 1 .. Len(fs)
      BY <1>1, <1>3, <2>1
    <3>2. fd = g[Rank(free, fd)]
      BY <1>3, <1>7, <2>1, <3>1
    <3> QED
      BY <3>1, <3>2
  <2>2. CASE ~(fd \in free /\ Rank(free, fd) <= Len(fs))
    BY <1>2, <2>2
  <2> QED
    BY <2>1, <2>2
<1> QED
  BY <1>6, <1>8, <1>9, <1>10, <1>11 DEF Placed

LEMMA FunIsSeq ==
  ASSUME NEW S, NEW c \in Nat, NEW s \in [1 .. c -> S]
  PROVE  s \in Seq(S) /\ Len(s) = c /\ DOMAIN s = 1 .. c
OBVIOUS

\* exit() takes the descriptors into the call, one after the other.
OpenFiles(p) == [i \in 1 .. Cardinality(Open(p)) |-> ofile[p][CHOOSE fd \in Open(p) : Rank(Open(p), fd) = i]]

LEMMA ExitCount ==
  ASSUME Types, NEW p \in Procs, op[p].todo = <<>>, NEW s, s = OpenFiles(p),
         NEW of, \A q \in Procs \ {p} : of[q] = ofile[q], \A fd \in Fds : of[p][fd] = None,
         NEW o, o[p].todo = s, \A q \in Procs \ {p} : o[q].todo = op[q].todo, NEW f \in Files
  PROVE  /\ s \in Seq(Files) /\ Len(s) <= NOFILE
         /\ Cardinality(DescRefs(of, f)) + Cardinality(CallRefs(o, f))
              = Cardinality(DescRefs(ofile, f)) + Cardinality(CallRefs(op, f))
<1>1. PICK c \in 0 .. NOFILE : c = Cardinality(Open(p))
  BY OpenIs
<1>2. NOFILE \in Nat /\ f # None /\ None \notin Files
  BY TableAssumption, ProgramAssumption
<1>3. /\ \A x \in Open(p) : Rank(Open(p), x) \in 1 .. c
      /\ \A x, y \in Open(p) : Rank(Open(p), x) = Rank(Open(p), y) => x = y
      /\ \A i \in 1 .. c : \E x \in Open(p) : Rank(Open(p), x) = i
  <2>1. Open(p) \subseteq Fds
    BY DEF Open
  <2> QED
    BY <1>1, <2>1, RankIs
<1>4. \A x \in Fds : x \in Open(p) <=> ofile[p][x] # None
  BY DEF Open
<1>5. \A x \in Open(p) : x \in Fds /\ ofile[p][x] \in Files
  BY DEF Open, Types
<1> DEFINE g == [i \in 1 .. c |-> CHOOSE x \in Open(p) : Rank(Open(p), x) = i]
<1>6. ASSUME NEW i \in 1 .. c PROVE g[i] \in Open(p) /\ Rank(Open(p), g[i]) = i
  BY <1>3
<1>7. s = [i \in 1 .. c |-> ofile[p][g[i]]]
  BY <1>1 DEF OpenFiles
<1> HIDE DEF g
<1>8. s \in Seq(Files) /\ Len(s) = c /\ DOMAIN s = 1 .. c
  <2>1. s \in [1 .. c -> Files] /\ c \in Nat
    BY <1>2, <1>5, <1>6, <1>7
  <2> QED
    BY <2>1, FunIsSeq
<1>9. \A x \in Open(p) : x = g[Rank(Open(p), x)]
  BY <1>3, <1>6
<1> DEFINE D == {x \in DescRefs(ofile, f) : x[1] = p}
           T == {x \in CallRefs(o, f) : x[1] = p}
           m == [x \in D |-> <<p, Rank(Open(p), x[2])>>]
<1>10. ASSUME NEW fd \in Fds PROVE <<p, fd>> \in D <=> ofile[p][fd] = f
  BY DEF DescRefs
<1>11. ASSUME NEW i \in 1 .. NOFILE + 2 PROVE <<p, i>> \in T <=> i \in 1 .. c /\ s[i] = f
  <2>1. <<p, i>> \in CallRefs(o, f) <=> i \in DOMAIN o[p].todo /\ o[p].todo[i] = f
    BY DEF CallRefs
  <2> QED
    BY <1>8, <2>1
<1>12. \A x \in D : x = <<p, x[2]>> /\ x[2] \in Fds
  BY DEF DescRefs
<1>13. \A x \in T : x = <<p, x[2]>> /\ x[2] \in 1 .. NOFILE + 2
  BY DEF CallRefs
<1>14. /\ DescRefs(of, f) = DescRefs(ofile, f) \ D
       /\ CallRefs(op, f) = CallRefs(o, f) \ T
  <2>1. DescRefs(of, f) = DescRefs(ofile, f) \ D
    BY <1>2 DEF DescRefs
  <2>2. CallRefs(op, f) = CallRefs(o, f) \ T
    BY DEF CallRefs
  <2> QED
    BY <2>1, <2>2
<1>15. D \subseteq DescRefs(ofile, f) /\ T \subseteq CallRefs(o, f)
  OBVIOUS
<1> HIDE DEF D, T
<1>16. ASSUME NEW x \in D PROVE x[2] \in Open(p) /\ ofile[p][x[2]] = f
  BY <1>2, <1>4, <1>10, <1>12
<1>17. m \in [D -> T]
  <2> SUFFICES ASSUME NEW x \in D PROVE <<p, Rank(Open(p), x[2])>> \in T
    OBVIOUS
  <2>1. x[2] \in Open(p) /\ ofile[p][x[2]] = f
    BY <1>16
  <2>2. PICK i \in 1 .. c : i = Rank(Open(p), x[2])
    BY <1>3, <2>1
  <2>3. s[i] = f
    <3>1. x[2] = g[i]
      BY <1>9, <2>1, <2>2
    <3>2. s[i] = ofile[p][g[i]]
      BY <1>7
    <3> QED
      BY <2>1, <3>1, <3>2
  <2>4. i \in 1 .. NOFILE + 2
    BY <1>2
  <2> QED
    BY <1>11, <2>2, <2>3, <2>4
<1>18. ASSUME NEW x \in D, NEW y \in D, m[x] = m[y] PROVE x = y
  <2>1. <<p, Rank(Open(p), x[2])>> = <<p, Rank(Open(p), y[2])>>
    BY <1>18
  <2>2. Rank(Open(p), x[2]) = Rank(Open(p), y[2])
    BY <2>1
  <2>3. x[2] = y[2]
    BY <1>3, <1>16, <2>2
  <2> QED
    BY <1>12, <2>3
<1>19. ASSUME NEW t \in T PROVE \E x \in D : m[x] = t
  <2>1. t = <<p, t[2]>> /\ t[2] \in 1 .. c /\ s[t[2]] = f
    BY <1>11, <1>13
  <2>2. g[t[2]] \in Open(p) /\ Rank(Open(p), g[t[2]]) = t[2] /\ ofile[p][g[t[2]]] = f
    BY <1>6, <1>7, <2>1
  <2>3. PICK fd \in Fds : fd = g[t[2]]
    BY <1>5, <2>2
  <2>4. <<p, fd>> \in D
    BY <1>10, <2>2, <2>3
  <2>5. m[<<p, fd>>] = t
    BY <2>1, <2>2, <2>3, <2>4
  <2> QED
    BY <2>4, <2>5
<1> HIDE DEF m
<1>20. /\ IsFiniteSet(DescRefs(ofile, f)) /\ Cardinality(DescRefs(ofile, f)) \in Nat
       /\ IsFiniteSet(CallRefs(o, f)) /\ Cardinality(CallRefs(o, f)) \in Nat
  BY RefsFinite
<1>21. IsFiniteSet(D) /\ Cardinality(D) \in Nat
  BY <1>15, <1>20, FS_Subset, FS_CardinalityType
<1>22. Cardinality(T) = Cardinality(D)
  BY <1>17, <1>18, <1>19, <1>21, SameSize
<1>23. DescRefs(ofile, f) \cap D = D /\ CallRefs(o, f) \cap T = T
  BY <1>15
<1>24. Cardinality(DescRefs(of, f)) = Cardinality(DescRefs(ofile, f)) - Cardinality(D)
  <2>1. PICK A : A = DescRefs(ofile, f)
    OBVIOUS
  <2>2. IsFiniteSet(A) /\ A \cap D = D /\ DescRefs(of, f) = A \ D
    BY <1>14, <1>20, <1>23, <2>1
  <2>3. Cardinality(A \ D) = Cardinality(A) - Cardinality(A \cap D)
    BY <2>2, FS_Difference
  <2> QED
    BY <2>1, <2>2, <2>3
<1>25. Cardinality(CallRefs(op, f)) = Cardinality(CallRefs(o, f)) - Cardinality(T)
  <2>1. PICK A : A = CallRefs(o, f)
    OBVIOUS
  <2>2. IsFiniteSet(A) /\ A \cap T = T /\ CallRefs(op, f) = A \ T
    BY <1>14, <1>20, <1>23, <2>1
  <2>3. Cardinality(A \ T) = Cardinality(A) - Cardinality(A \cap T)
    BY <2>2, FS_Difference
  <2> QED
    BY <2>1, <2>2, <2>3
<1>26. PICK j \in Nat, k \in Nat, n \in Nat :
         j = Cardinality(DescRefs(ofile, f)) /\ k = Cardinality(CallRefs(o, f)) /\ n = Cardinality(D)
  BY <1>20, <1>21
<1>27. (j - n) + k = j + (k - n)
  OBVIOUS
<1>28. Len(s) <= NOFILE
  <2>1. c <= NOFILE
    BY <1>2
  <2> QED
    BY <1>8, <2>1
<1> QED
  BY <1>8, <1>22, <1>24, <1>25, <1>26, <1>27, <1>28

\* fork() duplicates the descriptors of p for q, which has none.
LEMMA ForkCount ==
  ASSUME Types, NEW p \in Procs, NEW q \in Procs, \A fd \in Fds : ofile[q][fd] = None,
         NEW of, of = [ofile EXCEPT ![q] = ofile[p]], NEW f \in Files
  PROVE  /\ Cardinality({fd \in Fds : ofile[p][fd] = f}) \in Nat
         /\ Cardinality(DescRefs(of, f))
              = Cardinality(DescRefs(ofile, f)) + Cardinality({fd \in Fds : ofile[p][fd] = f})
<1>1. f # None
  BY ProgramAssumption
<1>2. of[q] = ofile[p] /\ \A x \in Procs : x # q => of[x] = ofile[x]
  BY DEF Types
<1> DEFINE S == {fd \in Fds : ofile[p][fd] = f}
           D == {x \in DescRefs(of, f) : x[1] = q}
           m == [fd \in S |-> <<q, fd>>]
<1>3. IsFiniteSet(S) /\ Cardinality(S) \in Nat
  <2>1. S \subseteq Fds
    OBVIOUS
  <2> QED
    BY <2>1, RankIs, FS_CardinalityType
<1>4. m \in [S -> D]
  BY <1>2 DEF DescRefs
<1>5. \A x, y \in S : m[x] = m[y] => x = y
  OBVIOUS
<1>6. ASSUME NEW t \in D PROVE \E x \in S : m[x] = t
  <2>1. t = <<q, t[2]>> /\ t[2] \in Fds /\ of[q][t[2]] = f
    BY DEF DescRefs
  <2>2. t[2] \in S
    BY <1>2, <2>1
  <2>3. m[t[2]] = t
    BY <2>1, <2>2
  <2> QED
    BY <2>2, <2>3
<1>7. DescRefs(ofile, f) = DescRefs(of, f) \ D
  <2>1. \A x \in Procs \X Fds : x[1] \in Procs /\ x[2] \in Fds
    OBVIOUS
  <2> QED
    BY <1>1, <1>2, <2>1 DEF DescRefs
<1>8. DescRefs(of, f) \cap D = D
  OBVIOUS
<1> HIDE DEF S, D, m
<1>9. Cardinality(D) = Cardinality(S)
  BY <1>3, <1>4, <1>5, <1>6, SameSize
<1>10. IsFiniteSet(DescRefs(of, f)) /\ Cardinality(DescRefs(of, f)) \in Nat
  BY RefsFinite
<1>11. Cardinality(DescRefs(ofile, f)) = Cardinality(DescRefs(of, f)) - Cardinality(D)
  <2>1. PICK A : A = DescRefs(of, f)
    OBVIOUS
  <2>2. Cardinality(A \ D) = Cardinality(A) - Cardinality(A \cap D)
    BY <1>10, <2>1, FS_Difference
  <2> QED
    BY <1>7, <1>8, <2>1, <2>2
<1>12. PICK j \in Nat, k \in Nat : j = Cardinality(DescRefs(of, f)) /\ k = Cardinality(S)
  BY <1>3, <1>10
<1>13. j = (j - k) + k
  OBVIOUS
<1> QED
  BY <1>3, <1>9, <1>11, <1>12, <1>13 DEF S

\* How many references there are at least.
LEMMA RefsAtLeast ==
  ASSUME Types, Refs(file, ofile, op), NEW f \in Files, NEW p \in Procs, NEW i \in 1 .. NOFILE + 2, Todo(op, p, i, f)
  PROVE  /\ file[f].ref \in Nat \ {0}
         /\ file[f].ref = 1 => /\ \A q \in Procs, fd \in Fds : ofile[q][fd] # f
                               /\ \A q \in Procs, j \in 1 .. NOFILE + 2 : Todo(op, q, j, f) => q = p /\ j = i
<1>1. PICK j \in Nat, k \in Nat : j = Cardinality(DescRefs(ofile, f)) /\ k = Cardinality(CallRefs(op, f))
  BY RefsFinite
<1>2. file[f].ref = j + k /\ IsFiniteSet(DescRefs(ofile, f)) /\ IsFiniteSet(CallRefs(op, f))
  BY <1>1, RefsFinite DEF Refs
<1>3. <<p, i>> \in CallRefs(op, f)
  BY DEF CallRefs, Todo
<1>4. k # 0
  BY <1>1, <1>2, <1>3, FS_EmptySet
<1>5. ASSUME file[f].ref = 1
      PROVE  /\ \A q \in Procs, fd \in Fds : ofile[q][fd] # f
             /\ \A q \in Procs, n \in 1 .. NOFILE + 2 : Todo(op, q, n, f) => q = p /\ n = i
  <2>1. j = 0 /\ k = 1
    BY <1>2, <1>4, <1>5
  <2>2. DescRefs(ofile, f) = {}
    BY <1>1, <1>2, <2>1, FS_EmptySet
  <2>3. PICK x : CallRefs(op, f) = {x}
    BY <1>1, <1>2, <2>1, FS_Singleton
  <2>4. ASSUME NEW q \in Procs, NEW fd \in Fds PROVE ofile[q][fd] # f
    <3>1. <<q, fd>> \notin DescRefs(ofile, f)
      BY <2>2
    <3> QED
      BY <3>1 DEF DescRefs
  <2>5. ASSUME NEW q \in Procs, NEW n \in 1 .. NOFILE + 2, Todo(op, q, n, f) PROVE q = p /\ n = i
    <3>1. <<q, n>> \in CallRefs(op, f)
      BY <2>5 DEF CallRefs, Todo
    <3>2. <<q, n>> = <<p, i>>
      BY <1>3, <2>3, <3>1
    <3> QED
      BY <3>2
  <2> QED
    BY <2>4, <2>5
<1> QED
  BY <1>2, <1>4, <1>5

LEMMA NoRefs ==
  ASSUME Types, Refs(file, ofile, op), NEW f \in Files, file[f].ref = 0
  PROVE  /\ \A q \in Procs, fd \in Fds : ofile[q][fd] # f
         /\ \A q \in Procs, j \in 1 .. NOFILE + 2 : ~Todo(op, q, j, f)
<1>1. PICK j \in Nat, k \in Nat : j = Cardinality(DescRefs(ofile, f)) /\ k = Cardinality(CallRefs(op, f))
  BY RefsFinite
<1>2. file[f].ref = j + k /\ IsFiniteSet(DescRefs(ofile, f)) /\ IsFiniteSet(CallRefs(op, f))
  BY <1>1, RefsFinite DEF Refs
<1>3. j = 0 /\ k = 0
  BY <1>2
<1>4. DescRefs(ofile, f) = {} /\ CallRefs(op, f) = {}
  BY <1>1, <1>2, <1>3, FS_EmptySet
<1>5. ASSUME NEW q \in Procs, NEW fd \in Fds PROVE ofile[q][fd] # f
  <2>1. <<q, fd>> \notin DescRefs(ofile, f)
    BY <1>4
  <2> QED
    BY <2>1 DEF DescRefs
<1>6. ASSUME NEW q \in Procs, NEW n \in 1 .. NOFILE + 2, Todo(op, q, n, f) PROVE FALSE
  <2>1. <<q, n>> \in CallRefs(op, f)
    BY <1>6 DEF CallRefs, Todo
  <2> QED
    BY <1>4, <2>1
<1> QED
  BY <1>5, <1>6

\* A descriptor of a file that a call is about to close or make is one more.
LEMMA DescRef ==
  ASSUME Types, Refs(file, ofile, op), NEW p \in Procs, NEW fd \in Fds, NEW f \in Files, ofile[p][fd] = f
  PROVE  file[f].ref \in Nat \ {0}
<1>1. file[f].ref \in Nat
  BY DEF Types, FileType
<1>2. file[f].ref # 0
  BY NoRefs
<1> QED
  BY <1>1, <1>2

-----------------------------------------------------------------------------
(* What a step leaves alone.                                               *)

LEMMA Nones == None \notin Files /\ None \notin Pipes /\ NOFILE \in Nat \ {0} /\ NFILE \in Nat \ {0}
BY ProgramAssumption, TableAssumption

LEMMA IdleIs ==
  /\ Idle \in OpType /\ Idle.at = "user" /\ Idle.todo = <<>> /\ Idle.pipe = None /\ Idle.writable = FALSE
  /\ Idle.exiting = FALSE /\ Idle.n = 0 /\ Idle.rest = <<>>
<1>1. <<>> \in Seq(Files) /\ <<>> \in Seq(Bytes)
  OBVIOUS
<1> QED
  BY <1>1 DEF Idle, OpType, Wheres

LEMMA OpSet ==
  ASSUME Types, NEW p \in Procs, NEW o \in OpType, op' = [op EXCEPT ![p] = o]
  PROVE  op' \in [Procs -> OpType] /\ op'[p] = o /\ \A q \in Procs : q # p => op'[q] = op[q]
BY DEF Types

LEMMA OpIs ==
  ASSUME Types, NEW p \in Procs
  PROVE  /\ op[p] \in OpType /\ op[p].at \in Wheres /\ op[p].todo \in Seq(Files) /\ op[p].pipe \in Pipes \cup {None}
         /\ op[p].rest \in Seq(Bytes) /\ op[p].n \in Nat /\ op[p].writable \in BOOLEAN /\ op[p].exiting \in BOOLEAN
BY DEF Types, OpType

\* A process that sleeps may be woken; nothing else about its call changes.
Roused(o, on) ==
  /\ on.todo = o.todo /\ on.pipe = o.pipe /\ on.writable = o.writable /\ on.exiting = o.exiting
  /\ \/ on = o
     \/ o.at = "rsleep" /\ on.at = "read"
     \/ o.at = "wsleep" /\ on.at = "write"

LEMMA RousedShape ==
  ASSUME NEW o, NEW on, Roused(o, on), NEW d, NEW a, Shape(o, d, a)
  PROVE  Shape(on, d, a) /\ (InPipe(on) <=> InPipe(o)) /\ (on.at \in {"write", "wsleep"} <=> o.at \in {"write", "wsleep"})
<1>1. CASE on = o
  BY <1>1
<1>2. CASE o.at = "rsleep" /\ on.at = "read"
  BY <1>2 DEF Roused, Shape, InPipe
<1>3. CASE o.at = "wsleep" /\ on.at = "write"
  BY <1>3 DEF Roused, Shape, InPipe
<1> QED
  BY <1>1, <1>2, <1>3 DEF Roused

LEMMA ShapesNext ==
  ASSUME Shapes, NEW p \in Procs, Shape(op'[p], ofile'[p], alive'[p]),
         \A q \in Procs : q # p => Roused(op[q], op'[q]) /\ ofile'[q] = ofile[q] /\ alive'[q] = alive[q]
  PROVE  Shapes'
<1> SUFFICES ASSUME NEW q \in Procs, q # p PROVE Shape(op'[q], ofile'[q], alive'[q])
  BY DEF Shapes
<1>1. Shape(op[q], ofile[q], alive[q])
  BY DEF Shapes
<1>2. Shape(op'[q], ofile[q], alive[q])
  BY <1>1, RousedShape
<1> QED
  BY <1>2

LEMMA SameRefs ==
  ASSUME Refs(file, ofile, op), ofile' = ofile, \A f \in Files : file'[f].ref = file[f].ref,
         \A q \in Procs : op'[q].todo = op[q].todo
  PROVE  Refs(file', ofile', op')
<1>1. \A f \in Files : CallRefs(op', f) = CallRefs(op, f)
  BY SameCalls
<1> QED
  BY <1>1 DEF Refs

LEMMA SameEnds ==
  ASSUME EndsOK,
         \A f \in Files : /\ file'[f].type = file[f].type /\ file'[f].pipe = file[f].pipe
                          /\ file[f].type = "pipe" => file'[f].writable = file[f].writable,
         \A q \in Procs : op'[q].at = "pipeclose" <=> op[q].at = "pipeclose",
         \A q \in Procs : op[q].at = "pipeclose" => op'[q] = op[q],
         \A pi \in Pipes : pipe'[pi].readopen = pipe[pi].readopen /\ pipe'[pi].writeopen = pipe[pi].writeopen
  PROVE  EndsOK'
<1> SUFFICES ASSUME NEW pi \in Pipes, NEW w \in BOOLEAN PROVE EndOK(pi, w)'
  BY DEF EndsOK
<1>1. \A f \in Files : IsEnd(f, pi, w)' <=> IsEnd(f, pi, w)
  BY DEF IsEnd
<1>2. \A q \in Procs : IsClosing(q, pi, w)' <=> IsClosing(q, pi, w)
  BY DEF IsClosing
<1>3. IsOpen(pi, w)' <=> IsOpen(pi, w)
  BY DEF IsOpen
<1>4. EndOK(pi, w)
  BY DEF EndsOK
<1> QED
  BY <1>1, <1>2, <1>3, <1>4 DEF EndOK

LEMMA SamePages ==
  ASSUME Pages, pipe' = pipe
  PROVE  Pages'
BY DEF Pages, Held

\* Files stand for the same ends, and descriptors for the same files.
LEMMA LinksNext ==
  ASSUME Links, Shapes, NEW p \in Procs,
         \A q \in Procs : q # p => Roused(op[q], op'[q]) /\ ofile'[q] = ofile[q],
         \A q \in Procs, fd \in Fds : q # p /\ ofile[q][fd] \in Files /\ file[ofile[q][fd]].type = "pipe" =>
            /\ file'[ofile[q][fd]].type = "pipe" /\ file'[ofile[q][fd]].pipe = file[ofile[q][fd]].pipe
            /\ file'[ofile[q][fd]].writable = file[ofile[q][fd]].writable,
         Linked(p)'
  PROVE  Links'
<1> SUFFICES ASSUME NEW q \in Procs, q # p, InPipe(op[q])' PROVE Linked(q)'
  BY DEF Links, Linked
<1>1. Roused(op[q], op'[q]) /\ Shape(op[q], ofile[q], alive[q]) /\ ofile'[q] = ofile[q] /\ op'[q].pipe = op[q].pipe
  BY DEF Shapes, Roused
<1>2. InPipe(op'[q])
  BY DEF InPipe
<1>3. InPipe(op[q]) /\ (op'[q].at \in {"write", "wsleep"} <=> op[q].at \in {"write", "wsleep"})
  BY <1>1, <1>2, RousedShape
<1>4. PICK fd \in Fds : ofile[q][fd] \in Files /\ IsEnd(ofile[q][fd], op[q].pipe, op[q].at \in {"write", "wsleep"})
  BY <1>3 DEF Links, Linked
<1>5. (op'[q].at \in {"write", "wsleep"}) = (op[q].at \in {"write", "wsleep"})
  BY <1>3
<1> QED
  BY <1>1, <1>4, <1>5 DEF IsEnd, Linked

\* Nobody starts to sleep but p, and the pipes of sleepers stay as they are.
LEMMA SleepersNext ==
  ASSUME Sleepers, NEW p \in Procs, Waits(p)',
         \A q \in Procs : q # p => Roused(op[q], op'[q]) /\ (killed'[q] => killed[q]),
         \A q \in Procs : q # p /\ op'[q].at \in {"rsleep", "wsleep"} => pipe'[op[q].pipe] = pipe[op[q].pipe]
  PROVE  Sleepers'
<1> SUFFICES ASSUME NEW q \in Procs, q # p PROVE Waits(q)'
  BY DEF Sleepers
<1>1. CASE op'[q].at \in {"rsleep", "wsleep"}
  <2>1. op'[q] = op[q] /\ (killed'[q] => killed[q])
    BY <1>1 DEF Roused
  <2>2. pipe'[op[q].pipe] = pipe[op[q].pipe]
    BY <1>1
  <2>3. Waits(q)
    BY DEF Sleepers
  <2> QED
    BY <1>1, <2>1, <2>2, <2>3 DEF Waits, Empty, Full
<1>2. CASE op'[q].at \notin {"rsleep", "wsleep"}
  BY <1>2 DEF Waits
<1> QED
  BY <1>1, <1>2

\* A step that moves p on in a call, wakes others, and changes at most what is in
\* the pipes.
LEMMA CallStep ==
  ASSUME IInv, NEW p \in Procs, op' \in [Procs -> OpType], UNCHANGED <<alive, ofile, file, panicked>>,
         \A q \in Procs : q # p => Roused(op[q], op'[q]) /\ (killed'[q] => killed[q]),
         killed' \in [Procs -> BOOLEAN], op'[p].todo = op[p].todo,
         op[p].at = "pipeclose" \/ op'[p].at \in {"pipeclose", "pipe1", "pipe2"} => op'[p] = op[p],
         Shape(op'[p], ofile[p], alive[p]), Linked(p)', Waits(p)',
         pipe' \in [Pipes -> PipeType],
         \A pi \in Pipes : /\ pipe'[pi].readopen = pipe[pi].readopen /\ pipe'[pi].writeopen = pipe[pi].writeopen
                           /\ pipe'[pi].page = pipe[pi].page /\ Held(pi)' <= PIPESIZE,
         \A q \in Procs : q # p /\ op'[q].at \in {"rsleep", "wsleep"} => pipe'[op[q].pipe] = pipe[op[q].pipe]
  PROVE  IInv'
<1>1. Types'
  BY DEF IInv, Types
<1>2. Shapes'
  BY ShapesNext DEF IInv
<1>3. Refs(file, ofile, op)'
  <2>1. \A q \in Procs : op'[q].todo = op[q].todo
    BY DEF Roused
  <2>2. Refs(file', ofile', op')
    BY <2>1, SameRefs DEF IInv
  <2> QED
    BY <2>2
<1>4. \A q \in Procs : op[q].at = "pipeclose" \/ op'[q].at \in {"pipeclose", "pipe1", "pipe2"} => op'[q] = op[q]
  BY DEF Roused
<1>5. Fresh' /\ FilesOK'
  BY <1>4 DEF IInv, Fresh, FreshOf, FilesOK
<1>6. EndsOK'
  BY <1>4, SameEnds DEF IInv
<1>7. Pages'
  BY DEF IInv, Pages
<1>8. Links'
  BY LinksNext DEF IInv
<1>9. Sleepers'
  BY SleepersNext DEF IInv
<1> QED
  BY <1>1, <1>2, <1>3, <1>5, <1>6, <1>7, <1>8, <1>9 DEF IInv

\* The pipes stay as they are.
LEMMA SamePipes ==
  ASSUME IInv, pipe' = pipe
  PROVE  /\ pipe' \in [Pipes -> PipeType]
         /\ \A pi \in Pipes : /\ pipe'[pi].readopen = pipe[pi].readopen /\ pipe'[pi].writeopen = pipe[pi].writeopen
                              /\ pipe'[pi].page = pipe[pi].page /\ Held(pi)' <= PIPESIZE
BY DEF IInv, Types, Pages, Held

LEMMA OnlyP ==
  ASSUME IInv, NEW p \in Procs, NEW o \in OpType, op' = [op EXCEPT ![p] = o]
  PROVE  /\ op' \in [Procs -> OpType] /\ op'[p] = o
         /\ \A q \in Procs : q # p => op'[q] = op[q] /\ Roused(op[q], op'[q])
BY OpSet DEF IInv, Roused

LEMMA LinkedNext ==
  ASSUME NEW p \in Procs, NEW fd \in Fds, ofile'[p][fd] \in Files, file'[ofile'[p][fd]].type = "pipe",
         file'[ofile'[p][fd]].pipe = op'[p].pipe, NEW b \in BOOLEAN, file'[ofile'[p][fd]].writable = b,
         b <=> op'[p].at \in {"write", "wsleep"}
  PROVE  Linked(p)'
<1>1. (op'[p].at \in {"write", "wsleep"}) = b
  OBVIOUS
<1> QED
  BY <1>1 DEF Linked, IsEnd

LEMMA sys_readInv ==
  ASSUME IInv, NEW p \in Procs, sys_read(p)
  PROVE  IInv'
<1>1. PICK fd \in Open(p), n \in ReadSizes :
        /\ Calls(p) /\ file[ofile[p][fd]].type = "pipe" /\ ~file[ofile[p][fd]].writable
        /\ op' = [op EXCEPT ![p].at = "read", ![p].pipe = file[ofile[p][fd]].pipe, ![p].n = n]
        /\ UNCHANGED <<alive, killed, ofile, file, pipe, panicked>>
  BY DEF sys_read
<1>2. /\ fd \in Fds /\ ofile[p][fd] \in Files /\ op[p].at = "user" /\ alive[p] /\ n \in Nat
      /\ op[p] = Idle
  BY <1>1, ProgramAssumption DEF Open, Calls, Is, IInv, Types, Shapes, Shape
<1>3. PICK pi \in Pipes : pi = file[ofile[p][fd]].pipe
  BY <1>1, <1>2 DEF IInv, FilesOK
<1> DEFINE o == [Idle EXCEPT !.at = "read", !.pipe = pi, !.n = n]
<1>4. op' = [op EXCEPT ![p] = o]
  BY <1>1, <1>2, <1>3 DEF IInv, Types, OpType, Idle
<1>5. /\ o \in OpType /\ o.at = "read" /\ o.pipe = pi /\ o.todo = <<>> /\ o.exiting = FALSE
  BY <1>2, IdleIs DEF OpType, Idle, Wheres
<1> HIDE DEF o
<1>6. op' \in [Procs -> OpType] /\ op'[p] = o /\ \A q \in Procs : q # p => op'[q] = op[q] /\ Roused(op[q], op'[q])
  BY <1>4, <1>5, OnlyP
<1>7. Shape(op'[p], ofile[p], alive[p])
  BY <1>2, <1>5, <1>6, Nones DEF Shape, InPipe
<1>8. Linked(p)'
  <2>1. file[ofile[p][fd]].writable = FALSE
    BY <1>1, <1>2 DEF IInv, Types, FileType
  <2>2. ~(op'[p].at \in {"write", "wsleep"}) /\ op'[p].pipe = pi
    BY <1>5, <1>6
  <2> QED
    BY <1>1, <1>2, <1>3, <2>1, <2>2, LinkedNext
<1>9. Waits(p)'
  BY <1>5, <1>6 DEF Waits
<1>10. killed' \in [Procs -> BOOLEAN]
  BY <1>1 DEF IInv, Types
<1>11. /\ pipe' \in [Pipes -> PipeType]
       /\ \A x \in Pipes : /\ pipe'[x].readopen = pipe[x].readopen /\ pipe'[x].writeopen = pipe[x].writeopen
                            /\ pipe'[x].page = pipe[x].page /\ Held(x)' <= PIPESIZE
  BY <1>1, SamePipes
<1>12. IInv'
  <2>1. op'[p].todo = op[p].todo /\ ~(op[p].at = "pipeclose" \/ op'[p].at \in {"pipeclose", "pipe1", "pipe2"})
    BY <1>2, <1>5, <1>6, IdleIs
  <2>2. \A q \in Procs : killed'[q] => killed[q]
    BY <1>1
  <2>3. UNCHANGED <<alive, ofile, file, panicked>> /\ pipe' = pipe
    BY <1>1
  <2> QED
    BY <1>6, <1>7, <1>8, <1>9, <1>10, <1>11, <2>1, <2>2, <2>3, CallStep
<1> QED
  BY <1>12

LEMMA sys_writeInv ==
  ASSUME IInv, NEW p \in Procs, sys_write(p)
  PROVE  IInv'
<1>1. PICK fd \in Open(p), s \in Payloads :
        /\ Calls(p) /\ file[ofile[p][fd]].type = "pipe" /\ file[ofile[p][fd]].writable
        /\ op' = [op EXCEPT ![p].at = "write", ![p].pipe = file[ofile[p][fd]].pipe, ![p].rest = s]
        /\ UNCHANGED <<alive, killed, ofile, file, pipe, panicked>>
  BY DEF sys_write
<1>2. /\ fd \in Fds /\ ofile[p][fd] \in Files /\ op[p].at = "user" /\ alive[p] /\ s \in Seq(Bytes)
      /\ op[p] = Idle
  BY <1>1, ProgramAssumption DEF Open, Calls, Is, IInv, Types, Shapes, Shape
<1>3. PICK pi \in Pipes : pi = file[ofile[p][fd]].pipe
  BY <1>1, <1>2 DEF IInv, FilesOK
<1> DEFINE o == [Idle EXCEPT !.at = "write", !.pipe = pi, !.rest = s]
<1>4. op' = [op EXCEPT ![p] = o]
  BY <1>1, <1>2, <1>3 DEF IInv, Types, OpType, Idle
<1>5. /\ o \in OpType /\ o.at = "write" /\ o.pipe = pi /\ o.todo = <<>> /\ o.exiting = FALSE
  BY <1>2, IdleIs DEF OpType, Idle, Wheres
<1> HIDE DEF o
<1>6. op' \in [Procs -> OpType] /\ op'[p] = o /\ \A q \in Procs : q # p => op'[q] = op[q] /\ Roused(op[q], op'[q])
  BY <1>4, <1>5, OnlyP
<1>7. Shape(op'[p], ofile[p], alive[p])
  BY <1>2, <1>5, <1>6, Nones DEF Shape, InPipe
<1>8. Linked(p)'
  <2>1. file[ofile[p][fd]].writable = TRUE
    BY <1>1, <1>2 DEF IInv, Types, FileType
  <2>2. op'[p].at \in {"write", "wsleep"} /\ op'[p].pipe = pi
    BY <1>5, <1>6
  <2> QED
    BY <1>1, <1>2, <1>3, <2>1, <2>2, LinkedNext
<1>9. Waits(p)'
  BY <1>5, <1>6 DEF Waits
<1>10. killed' \in [Procs -> BOOLEAN]
  BY <1>1 DEF IInv, Types
<1>11. /\ pipe' \in [Pipes -> PipeType]
       /\ \A x \in Pipes : /\ pipe'[x].readopen = pipe[x].readopen /\ pipe'[x].writeopen = pipe[x].writeopen
                            /\ pipe'[x].page = pipe[x].page /\ Held(x)' <= PIPESIZE
  BY <1>1, SamePipes
<1>12. IInv'
  <2>1. op'[p].todo = op[p].todo /\ ~(op[p].at = "pipeclose" \/ op'[p].at \in {"pipeclose", "pipe1", "pipe2"})
    BY <1>2, <1>5, <1>6, IdleIs
  <2>2. \A q \in Procs : killed'[q] => killed[q]
    BY <1>1
  <2>3. UNCHANGED <<alive, ofile, file, panicked>> /\ pipe' = pipe
    BY <1>1
  <2> QED
    BY <1>6, <1>7, <1>8, <1>9, <1>10, <1>11, <2>1, <2>2, <2>3, CallStep
<1> QED
  BY <1>12

LEMMA killInv ==
  ASSUME IInv, NEW p \in Procs, kill(p)
  PROVE  IInv'
<1>0. /\ killed' = [killed EXCEPT ![p] = TRUE] /\ UNCHANGED <<alive, ofile, file, pipe, panicked>>
      /\ op' = [op EXCEPT ![p].at = CASE op[p].at = "rsleep" -> "read" [] op[p].at = "wsleep" -> "write" [] OTHER -> op[p].at]
  BY DEF kill
<1>1. op[p] \in OpType /\ op \in [Procs -> OpType] /\ op[p].at \in Wheres
  BY OpIs DEF IInv, Types
<1> DEFINE a == CASE op[p].at = "rsleep" -> "read" [] op[p].at = "wsleep" -> "write" [] OTHER -> op[p].at
           o == [op[p] EXCEPT !.at = a]
<1>2. op' = [op EXCEPT ![p] = o]
  BY <1>0, <1>1
<1>3. a \in Wheres /\ a \notin {"rsleep", "wsleep"}
      /\ (op[p].at = "rsleep" => a = "read") /\ (op[p].at = "wsleep" => a = "write")
      /\ (op[p].at \notin {"rsleep", "wsleep"} => a = op[p].at)
  BY <1>1 DEF Wheres
<1> HIDE DEF a
<1>4. /\ o \in OpType /\ o.at = a /\ o.todo = op[p].todo /\ o.pipe = op[p].pipe /\ o.writable = op[p].writable
      /\ o.exiting = op[p].exiting /\ (a = op[p].at => o = op[p])
  BY <1>1, <1>3 DEF OpType
<1> HIDE DEF o
<1>5. op' \in [Procs -> OpType] /\ op'[p] = o /\ \A q \in Procs : q # p => op'[q] = op[q] /\ Roused(op[q], op'[q])
  BY <1>2, <1>4, OnlyP
<1>6. Roused(op[p], op'[p]) /\ op'[p].at \notin {"rsleep", "wsleep"}
  BY <1>3, <1>4, <1>5 DEF Roused
<1>7. Shape(op[p], ofile[p], alive[p])
  BY DEF IInv, Shapes
<1>8. /\ Shape(op'[p], ofile[p], alive[p]) /\ (InPipe(op'[p]) <=> InPipe(op[p]))
      /\ (op'[p].at \in {"write", "wsleep"} <=> op[p].at \in {"write", "wsleep"})
  BY <1>6, <1>7, RousedShape
<1>9. Linked(p)'
  <2>1. CASE ~InPipe(op[p])
    <3>1. ~InPipe(op[p])'
      BY <1>8, <2>1 DEF InPipe
    <3> QED
      BY <3>1 DEF Linked
  <2>2. CASE InPipe(op[p])
    <3>1. PICK fd \in Fds : ofile[p][fd] \in Files /\ IsEnd(ofile[p][fd], op[p].pipe, op[p].at \in {"write", "wsleep"})
      BY <2>2 DEF IInv, Links, Linked
    <3>2. op'[p].pipe = op[p].pipe
      BY <1>6 DEF Roused
    <3>3. (op'[p].at \in {"write", "wsleep"}) = (op[p].at \in {"write", "wsleep"})
      BY <1>8
    <3> QED
      BY <1>0, <3>1, <3>2, <3>3 DEF IsEnd, Linked
  <2> QED
    BY <2>1, <2>2
<1>10. Waits(p)'
  BY <1>6 DEF Waits
<1>11. killed' \in [Procs -> BOOLEAN] /\ \A q \in Procs : q # p => killed'[q] = killed[q]
  BY <1>0 DEF IInv, Types
<1>12. /\ pipe' \in [Pipes -> PipeType]
       /\ \A x \in Pipes : /\ pipe'[x].readopen = pipe[x].readopen /\ pipe'[x].writeopen = pipe[x].writeopen
                            /\ pipe'[x].page = pipe[x].page /\ Held(x)' <= PIPESIZE
  BY <1>0, SamePipes
<1>13. op[p].at = "pipeclose" \/ op'[p].at \in {"pipeclose", "pipe1", "pipe2"} => op'[p] = op[p]
  BY <1>3, <1>4, <1>5
<1>14. op'[p].todo = op[p].todo
  BY <1>6 DEF Roused
<1> QED
  BY <1>0, <1>5, <1>8, <1>9, <1>10, <1>11, <1>12, <1>13, <1>14, CallStep

\* The bad path of pipealloc(), and the files it gives back.
LEMMA GiveBack ==
  ASSUME IInv, NEW p \in Procs, op[p].at \in {"pipe1", "pipe2"}, alive[p], CloseAll(p, op[p].todo),
         UNCHANGED <<alive, killed, ofile, file, pipe, panicked>>
  PROVE  IInv'
<1>1. op[p] \in OpType /\ op[p].todo \in Seq(Files)
  BY OpIs DEF IInv
<1> DEFINE o == [Idle EXCEPT !.at = "close", !.todo = op[p].todo]
<1>2. op' = [op EXCEPT ![p] = o]
  BY DEF CloseAll
<1>3. o \in OpType /\ o.at = "close" /\ o.pipe = None /\ o.todo = op[p].todo /\ o.exiting = FALSE
  BY <1>1, IdleIs DEF OpType, Idle, Wheres
<1> HIDE DEF o
<1>4. op' \in [Procs -> OpType] /\ op'[p] = o /\ \A q \in Procs : q # p => op'[q] = op[q] /\ Roused(op[q], op'[q])
  BY <1>2, <1>3, OnlyP
<1>5. Shape(op'[p], ofile[p], alive[p])
  BY <1>3, <1>4 DEF Shape, InPipe, IInv, Shapes
<1>6. Linked(p)' /\ Waits(p)'
  BY <1>3, <1>4 DEF Linked, Waits, InPipe
<1>7. killed' \in [Procs -> BOOLEAN]
  BY DEF IInv, Types
<1>8. /\ pipe' \in [Pipes -> PipeType]
      /\ \A x \in Pipes : /\ pipe'[x].readopen = pipe[x].readopen /\ pipe'[x].writeopen = pipe[x].writeopen
                           /\ pipe'[x].page = pipe[x].page /\ Held(x)' <= PIPESIZE
  BY SamePipes
<1> QED
  BY <1>3, <1>4, <1>5, <1>6, <1>7, <1>8, CallStep

LEMMA ClosedInv ==
  ASSUME IInv, NEW p \in Procs, Closed(p)
  PROVE  IInv'
<1>1. /\ op[p].at = "close" /\ op[p].todo = <<>> /\ op' = [op EXCEPT ![p] = Idle]
      /\ UNCHANGED <<ofile, file, pipe, panicked>>
      /\ IF op[p].exiting
         THEN alive' = [alive EXCEPT ![p] = FALSE] /\ killed' = [killed EXCEPT ![p] = FALSE]
         ELSE UNCHANGED <<alive, killed>>
  BY DEF Closed, Is, Return
<1>2. op' \in [Procs -> OpType] /\ op'[p] = Idle /\ \A q \in Procs : q # p => op'[q] = op[q] /\ Roused(op[q], op'[q])
  BY <1>1, IdleIs, OnlyP
<1>3. /\ alive' \in [Procs -> BOOLEAN] /\ killed' \in [Procs -> BOOLEAN]
      /\ \A q \in Procs : q # p => alive'[q] = alive[q] /\ killed'[q] = killed[q]
      /\ ~alive'[p] => op[p].exiting \/ ~alive[p]
  BY <1>1 DEF IInv, Types
<1>4. Shape(op[p], ofile[p], alive[p])
  BY DEF IInv, Shapes
<1>5. Shape(op'[p], ofile'[p], alive'[p])
  BY <1>1, <1>2, <1>3, <1>4, IdleIs, Nones DEF Shape, InPipe
<1>6. Types'
  BY <1>1, <1>2, <1>3 DEF IInv, Types
<1>7. Shapes'
  BY <1>1, <1>2, <1>3, <1>5, ShapesNext DEF IInv
<1>8. Refs(file', ofile', op')
  BY <1>1, <1>2, IdleIs, SameRefs DEF IInv
<1>9. \A q \in Procs : op[q].at = "pipeclose" \/ op'[q].at \in {"pipeclose", "pipe1", "pipe2"} => op'[q] = op[q]
  BY <1>1, <1>2, IdleIs
<1>10. Fresh' /\ FilesOK'
  BY <1>1, <1>9 DEF IInv, Fresh, FreshOf, FilesOK
<1>11. EndsOK'
  BY <1>1, <1>9, SameEnds DEF IInv
<1>12. Pages'
  BY <1>1, SamePages DEF IInv
<1>13. Linked(p)' /\ Waits(p)'
  BY <1>2, IdleIs DEF Linked, Waits, InPipe
<1>14. Links' /\ Sleepers'
  BY <1>1, <1>2, <1>3, <1>13, LinksNext, SleepersNext DEF IInv
<1> QED
  BY <1>6, <1>7, <1>8, <1>10, <1>11, <1>12, <1>14 DEF IInv

-----------------------------------------------------------------------------
(* Steps that take and give back files.                                    *)

\* Unused files, files of descriptors, and those of p's call.
Reached(p, f) ==
  \/ file[f].ref = 0
  \/ \E q \in Procs, fd \in Fds : ofile[q][fd] = f
  \/ \E i \in 1 .. NOFILE + 2 : Todo(op, p, i, f)

\* The files of a pipe that another process makes are not p's business.
LEMMA FreshNext ==
  ASSUME Types, Shapes, Refs(file, ofile, op), Fresh, NEW p \in Procs, FreshOf(p)',
         \A q \in Procs : q # p /\ op'[q].at \in {"pipe1", "pipe2"} => op'[q] = op[q],
         \A f \in Files : file'[f] = file[f] \/ Reached(p, f)
  PROVE  Fresh'
<1> SUFFICES ASSUME NEW q \in Procs, q # p, op'[q].at \in {"pipe1", "pipe2"} PROVE FreshOf(q)'
  BY DEF Fresh, FreshOf
<1>1. op'[q] = op[q] /\ FreshOf(q) /\ Shape(op[q], ofile[q], alive[q]) /\ op[q].todo \in Seq(Files)
  BY OpIs DEF Fresh, Shapes
<1>2. Len(op[q].todo) \in 1 .. 2 /\ NOFILE \in Nat
  BY <1>1, Nones DEF Shape
<1>3. ASSUME NEW i \in 1 .. Len(op[q].todo) PROVE file'[op[q].todo[i]] = file[op[q].todo[i]]
  <2>1. PICK f \in Files : f = op[q].todo[i]
    BY <1>1
  <2>2. i \in 1 .. NOFILE + 2 /\ Todo(op, q, i, f)
    BY <1>1, <1>2, <2>1 DEF Todo
  <2>3. file[f].ref = 1
    BY <1>1, <2>1 DEF FreshOf
  <2>4. /\ \A x \in Procs, fd \in Fds : ofile[x][fd] # f
        /\ \A x \in Procs, j \in 1 .. NOFILE + 2 : Todo(op, x, j, f) => x = q /\ j = i
    BY <2>2, <2>3, RefsAtLeast
  <2>5. ~Reached(p, f)
    BY <2>3, <2>4 DEF Reached
  <2> QED
    BY <2>1, <2>5
<1>4. \A i \in 1 .. Len(op'[q].todo) : file'[op'[q].todo[i]].ref = 1 /\ file'[op'[q].todo[i]].type = "none"
  BY <1>1, <1>3 DEF FreshOf
<1> QED
  BY <1>1, <1>4 DEF FreshOf

\* A step that changes who refers to which file, and leaves the pipes alone.
LEMMA FileStep ==
  ASSUME IInv, NEW p \in Procs, UNCHANGED <<killed, pipe, panicked>>,
         alive' \in [Procs -> BOOLEAN], ofile' \in [Procs -> [Fds -> Files \cup {None}]],
         file' \in [Files -> FileType], op' \in [Procs -> OpType],
         \A q \in Procs : q # p => op'[q] = op[q] /\ ofile'[q] = ofile[q] /\ alive'[q] = alive[q],
         \A f \in Files : /\ file'[f].type = file[f].type /\ file'[f].pipe = file[f].pipe
                          /\ file[f].type = "pipe" => file'[f].writable = file[f].writable
                          /\ file'[f].ref = 0 => file'[f].type = "none",
         \A f \in Files : file'[f] = file[f] \/ Reached(p, f),
         Refs(file', ofile', op'), Shape(op'[p], ofile'[p], alive'[p]), FreshOf(p)',
         op[p].at # "pipeclose", op'[p].at \in {"user", "pipe1", "pipe2", "close"}
  PROVE  IInv'
<1>1. Types'
  BY DEF IInv, Types
<1>2. \A q \in Procs : q # p => Roused(op[q], op'[q])
  BY DEF Roused
<1>3. Shapes'
  BY <1>2, ShapesNext DEF IInv
<1>4. Fresh'
  BY FreshNext DEF IInv
<1>5. FilesOK'
  BY DEF IInv, FilesOK
<1>6. EndsOK'
  BY SameEnds DEF IInv
<1>7. Pages'
  BY SamePages DEF IInv
<1>8. Linked(p)' /\ Waits(p)'
  BY DEF Linked, Waits, InPipe
<1>9. Links'
  <2>1. \A q \in Procs, fd \in Fds : q # p /\ ofile[q][fd] \in Files /\ file[ofile[q][fd]].type = "pipe" =>
            /\ file'[ofile[q][fd]].type = "pipe" /\ file'[ofile[q][fd]].pipe = file[ofile[q][fd]].pipe
            /\ file'[ofile[q][fd]].writable = file[ofile[q][fd]].writable
    OBVIOUS
  <2> QED
    BY <1>2, <1>8, <2>1, LinksNext DEF IInv
<1>10. Sleepers'
  BY <1>2, <1>8, SleepersNext DEF IInv
<1> QED
  BY <1>1, <1>3, <1>4, <1>5, <1>6, <1>7, <1>9, <1>10 DEF IInv

LEMMA Least ==
  ASSUME NEW S \in SUBSET Nat, S # {}
  PROVE  Min(S) \in S /\ \A y \in S : Min(S) <= y
<1> DEFINE R == OpToRel(<, Nat)
<1>1. \A x, y \in Nat : <<x, y>> \in R <=> x < y
  BY DEF OpToRel
<1>2. IsWellFoundedOn(R, Nat)
  BY NatLessThanWellFounded
<1> HIDE DEF R
<1>3. PICK x \in S : \A y \in S : ~(<<y, x>> \in R)
  BY <1>2, WFMin
<1>4. \A y \in S : x <= y
  <2> TAKE y \in S
  <2>1. x \in Nat /\ y \in Nat
    OBVIOUS
  <2>2. ~(y < x)
    BY <1>1, <1>3, <2>1
  <2> QED
    BY <2>1, <2>2
<1> QED
  BY <1>4 DEF Min

LEMMA fileallocIs ==
  ASSUME NEW f, f = filealloc, f # None
  PROVE  f \in Files /\ file[f].ref = 0
<1> DEFINE unused == {x \in Files : file[x].ref = 0}
<1>1. unused \in SUBSET Nat
  BY Nones DEF Files
<1>2. f = IF unused = {} THEN None ELSE Min(unused)
  BY DEF filealloc
<1> HIDE DEF unused
<1>3. f \in unused
  BY <1>1, <1>2, Least
<1> QED
  BY <1>3 DEF unused

LEMMA RefSet ==
  ASSUME Types, NEW f \in Files, NEW n \in Nat, file' = [file EXCEPT ![f].ref = n]
  PROVE  /\ file' \in [Files -> FileType] /\ file'[f].ref = n
         /\ \A g \in Files : file'[g].type = file[g].type /\ file'[g].pipe = file[g].pipe /\ file'[g].writable = file[g].writable
         /\ \A g \in Files : g # f => file'[g] = file[g]
BY DEF Types, FileType

\* p takes an unused file.
LEMMA TakeRefs ==
  ASSUME Types, Refs(file, ofile, op), NEW p \in Procs, NEW f \in Files, file[f].ref = 0,
         NEW s \in Seq(Files), op[p].todo = s, Len(s) <= NOFILE + 1, op'[p].todo = Append(s, f),
         \A q \in Procs : q # p => op'[q] = op[q], ofile' = ofile, file'[f].ref = 1,
         \A g \in Files : g # f => file'[g] = file[g]
  PROVE  Refs(file', ofile', op')
<1> SUFFICES ASSUME NEW g \in Files
             PROVE  file'[g].ref = Cardinality(DescRefs(ofile', g)) + Cardinality(CallRefs(op', g))
  BY DEF Refs
<1>1. PICK i \in 1 .. NOFILE + 2 : i = Len(s) + 1
  BY Nones
<1>2. /\ Append(s, f) \in Seq(Files) /\ Len(Append(s, f)) = i /\ Append(s, f)[i] = f
      /\ \A j \in 1 .. Len(s) : Append(s, f)[j] = s[j]
  BY <1>1, AppendProperties
<1>3. \A q \in Procs, j \in 1 .. NOFILE + 2 : ~(q = p /\ j = i) => (Todo(op', q, j, g) <=> Todo(op, q, j, g))
  <2>0. ASSUME NEW q \in Procs, q # p, NEW j \in 1 .. NOFILE + 2 PROVE Todo(op', q, j, g) <=> Todo(op, q, j, g)
    <3>1. op'[q] = op[q]
      BY <2>0
    <3> QED
      BY <3>1 DEF Todo
  <2> SUFFICES ASSUME NEW j \in 1 .. NOFILE + 2, j # i PROVE Todo(op', p, j, g) <=> Todo(op, p, j, g)
    BY <2>0
  <2>1. DOMAIN Append(s, f) = 1 .. i /\ DOMAIN s = 1 .. Len(s) /\ (j \in 1 .. i <=> j \in 1 .. Len(s))
    BY <1>1, <1>2
  <2> QED
    BY <1>2, <2>1 DEF Todo
<1>4. ~Todo(op, p, i, g) /\ (Todo(op', p, i, g) <=> f = g)
  <2>1. DOMAIN Append(s, f) = 1 .. i /\ DOMAIN s = 1 .. Len(s) /\ i \in 1 .. i /\ i \notin 1 .. Len(s)
    BY <1>1, <1>2
  <2> QED
    BY <1>2, <2>1 DEF Todo
<1>5. Cardinality(CallRefs(op', g)) + (IF Todo(op, p, i, g) THEN 1 ELSE 0)
        = Cardinality(CallRefs(op, g)) + (IF Todo(op', p, i, g) THEN 1 ELSE 0)
  BY <1>3, CallCell
<1>6. PICK j \in Nat, k \in Nat, m \in Nat :
        /\ j = Cardinality(DescRefs(ofile, g)) /\ k = Cardinality(CallRefs(op, g)) /\ m = Cardinality(CallRefs(op', g))
  BY RefsFinite
<1>7. file[g].ref = j + k /\ j = Cardinality(DescRefs(ofile', g))
  BY <1>6 DEF Refs
<1>8. m = k + (IF f = g THEN 1 ELSE 0)
  BY <1>4, <1>5, <1>6
<1>9. file'[g].ref = j + m
  BY <1>7, <1>8
<1> QED
  BY <1>6, <1>7, <1>9

LEMMA sys_pipeInv ==
  ASSUME IInv, NEW p \in Procs, sys_pipe(p)
  PROVE  IInv'
<1>1. PICK f : f = filealloc
  OBVIOUS
<1>2. /\ op[p].at = "user" /\ alive[p] /\ f # None /\ file' = [file EXCEPT ![f].ref = 1]
      /\ op' = [op EXCEPT ![p].at = "pipe1", ![p].todo = <<f>>]
      /\ UNCHANGED <<alive, killed, ofile, pipe, panicked>>
  BY <1>1 DEF sys_pipe, Calls, Is
<1>3. f \in Files /\ file[f].ref = 0
  BY <1>1, <1>2, fileallocIs
<1>4. op[p] = Idle /\ file[f].type = "none" /\ Types
  BY <1>2, <1>3 DEF IInv, Shapes, Shape, FilesOK
<1>a. PICK t : t = <<f>>
  OBVIOUS
<1>b. t \in Seq(Files)
  BY <1>3, <1>a
<1> DEFINE o == [Idle EXCEPT !.at = "pipe1", !.todo = t]
<1>5. op' = [op EXCEPT ![p] = o]
  BY <1>2, <1>4, <1>a DEF Types, OpType
<1>6. o \in OpType /\ o.at = "pipe1" /\ o.todo = t /\ o.pipe = None /\ o.exiting = FALSE
  BY <1>b, IdleIs DEF OpType, Idle, Wheres
<1> HIDE DEF o
<1>7. op' \in [Procs -> OpType] /\ op'[p] = o /\ \A q \in Procs : q # p => op'[q] = op[q]
  BY <1>5, <1>6, OnlyP
<1>8. /\ file' \in [Files -> FileType] /\ file'[f].ref = 1
      /\ \A g \in Files : file'[g].type = file[g].type /\ file'[g].pipe = file[g].pipe /\ file'[g].writable = file[g].writable
      /\ \A g \in Files : g # f => file'[g] = file[g]
  BY <1>2, <1>3, <1>4, RefSet
<1>9. Refs(file', ofile', op')
  <2>0. PICK e \in Seq(Files) : e = <<>> /\ Len(e) = 0 /\ Append(e, f) = t
    <3>1. <<>> \in Seq(Files) /\ Len(<<>>) = 0
      OBVIOUS
    <3>2. Append(<<>>, f) = <<f>>
      OBVIOUS
    <3> QED
      BY <1>a, <3>1, <3>2
  <2>1. op[p].todo = e /\ op'[p].todo = Append(e, f)
    BY <1>4, <1>6, <1>7, <2>0, IdleIs
  <2>2. Len(e) <= NOFILE + 1
    BY <2>0, Nones
  <2>3. Refs(file, ofile, op) /\ ofile' = ofile
    BY <1>2 DEF IInv
  <2> QED
    BY <1>3, <1>4, <1>7, <1>8, <2>1, <2>2, <2>3, TakeRefs
<1>10. Shape(op'[p], ofile'[p], alive'[p])
  <2>1. Len(t) = 1 /\ 1 <= NOFILE + 2
    BY <1>a, Nones
  <2> QED
    BY <1>2, <1>6, <1>7, <2>1 DEF Shape, InPipe
<1>11. FreshOf(p)'
  <2>1. \A i \in 1 .. Len(t) : t[i] = f
    BY <1>a
  <2> QED
    BY <1>3, <1>4, <1>6, <1>7, <1>8, <2>1 DEF FreshOf
<1>12. \A g \in Files : file'[g].ref = 0 => file'[g].type = "none"
  BY <1>4, <1>8 DEF IInv, FilesOK
<1>13. \A g \in Files : file'[g] = file[g] \/ Reached(p, g)
  BY <1>3, <1>8 DEF Reached
<1>14. ofile' \in [Procs -> [Fds -> Files \cup {None}]] /\ alive' \in [Procs -> BOOLEAN]
  BY <1>2, <1>4 DEF Types
<1>15. op[p].at # "pipeclose" /\ op'[p].at \in {"user", "pipe1", "pipe2", "close"}
  BY <1>2, <1>6, <1>7
<1> QED
  BY <1>2, <1>7, <1>8, <1>9, <1>10, <1>11, <1>12, <1>13, <1>14, <1>15, FileStep

LEMMA AppendOne ==
  ASSUME NEW S, NEW s \in Seq(S), NEW e \in S, Len(s) = 1
  PROVE  Append(s, e) \in Seq(S) /\ Len(Append(s, e)) = 2 /\ Append(s, e)[1] = s[1] /\ Append(s, e)[2] = e
<1>1. Append(s, e) \in Seq(S) /\ Len(Append(s, e)) = Len(s) + 1
  OBVIOUS
<1>2. Append(s, e)[Len(s) + 1] = e
  BY AppendProperties
<1>3. \A i \in 1 .. Len(s) : Append(s, e)[i] = s[i]
  OBVIOUS
<1>4. 1 \in 1 .. Len(s) /\ Len(s) + 1 = 2
  OBVIOUS
<1> QED
  BY <1>1, <1>2, <1>3, <1>4

LEMMA PipeSecondFileInv ==
  ASSUME IInv, NEW p \in Procs, PipeSecondFile(p)
  PROVE  IInv'
<1>1. PICK f : f = filealloc
  OBVIOUS
<1>2. /\ op[p].at = "pipe1" /\ alive[p] /\ UNCHANGED <<alive, killed, ofile, pipe, panicked>>
      /\ IF f = None THEN CloseAll(p, op[p].todo) /\ UNCHANGED file
         ELSE /\ file' = [file EXCEPT ![f].ref = 1]
              /\ op' = [op EXCEPT ![p].at = "pipe2", ![p].todo = Append(op[p].todo, f)]
  BY <1>1 DEF PipeSecondFile, Is
<1>3. CASE f = None
  BY <1>2, <1>3, GiveBack
<1>4. CASE f # None
  <2>1. f \in Files /\ file[f].ref = 0
    BY <1>1, <1>4, fileallocIs
  <2>2. PICK s : s = op[p].todo
    OBVIOUS
  <2>3. /\ s \in Seq(Files) /\ Len(s) = 1 /\ op[p].exiting = FALSE /\ op[p].pipe = None /\ op[p] \in OpType
        /\ file[f].type = "none" /\ Types /\ file[s[1]].ref = 1 /\ file[s[1]].type = "none"
    <3>1. s \in Seq(Files) /\ op[p] \in OpType /\ op[p].exiting \in BOOLEAN /\ Types
      BY <2>2, OpIs DEF IInv
    <3>2. Shape(op[p], ofile[p], alive[p]) /\ FreshOf(p)
      BY DEF IInv, Shapes, Fresh
    <3>3. Len(s) = 1 /\ op[p].exiting = FALSE /\ op[p].pipe = None
      BY <1>2, <2>2, <3>1, <3>2 DEF Shape
    <3>4. file[s[1]].ref = 1 /\ file[s[1]].type = "none"
      BY <1>2, <2>2, <3>2, <3>3 DEF FreshOf
    <3>5. file[f].type = "none"
      BY <2>1 DEF IInv, FilesOK
    <3> QED
      BY <3>1, <3>3, <3>4, <3>5
  <2>a. s \in Seq(Files) /\ Len(s) = 1
    BY <2>3
  <2>4. PICK t \in Seq(Files) : t = Append(s, f) /\ Len(t) = 2 /\ t[1] = s[1] /\ t[2] = f
    <3>1. Append(s, f) \in Seq(Files) /\ Len(Append(s, f)) = 2 /\ Append(s, f)[1] = s[1] /\ Append(s, f)[2] = f
      BY <2>1, <2>a, AppendOne
    <3> QED
      BY <3>1
  <2> DEFINE o == [op[p] EXCEPT !.at = "pipe2", !.todo = t]
  <2>5. op' = [op EXCEPT ![p] = o]
    BY <1>2, <1>4, <2>2, <2>3, <2>4 DEF Types, OpType
  <2>6. o \in OpType /\ o.at = "pipe2" /\ o.todo = t /\ o.pipe = None /\ o.exiting = FALSE
    BY <2>3 DEF OpType, Wheres
  <2> HIDE DEF o
  <2>7. op' \in [Procs -> OpType] /\ op'[p] = o /\ \A q \in Procs : q # p => op'[q] = op[q]
    BY <2>5, <2>6, OnlyP
  <2>8. /\ file' \in [Files -> FileType] /\ file'[f].ref = 1
        /\ \A g \in Files : file'[g].type = file[g].type /\ file'[g].pipe = file[g].pipe /\ file'[g].writable = file[g].writable
        /\ \A g \in Files : g # f => file'[g] = file[g]
    BY <1>2, <1>4, <2>1, <2>3, RefSet
  <2>9. Refs(file', ofile', op')
    <3>1. Len(s) <= NOFILE + 1 /\ op'[p].todo = Append(s, f)
      BY <2>3, <2>4, <2>6, <2>7, Nones
    <3> QED
      BY <1>2, <2>1, <2>2, <2>3, <2>7, <2>8, <3>1, TakeRefs DEF IInv
  <2>10. Shape(op'[p], ofile'[p], alive'[p])
    <3>1. Len(t) <= NOFILE + 2
      BY <2>4, Nones
    <3> QED
      BY <1>2, <2>4, <2>6, <2>7, <3>1 DEF Shape, InPipe
  <2>11. FreshOf(p)'
    <3>1. s[1] \in Files /\ s[1] # f
      <4>1. s[1] \in Files
        BY <2>a
      <4>2. file[s[1]].ref # file[f].ref
        BY <2>1, <2>3
      <4> QED
        BY <4>1, <4>2
    <3>2. \A i \in 1 .. Len(t) : file'[t[i]].ref = 1 /\ file'[t[i]].type = "none"
      <4> TAKE i \in 1 .. Len(t)
      <4>1. i = 1 \/ i = 2
        BY <2>4
      <4> QED
        BY <2>3, <2>4, <2>8, <3>1, <4>1
    <3> QED
      BY <2>4, <2>6, <2>7, <3>1, <3>2 DEF FreshOf
  <2>12. \A g \in Files : file'[g].ref = 0 => file'[g].type = "none"
    BY <2>3, <2>8 DEF IInv, FilesOK
  <2>13. \A g \in Files : file'[g] = file[g] \/ Reached(p, g)
    BY <2>1, <2>8 DEF Reached
  <2>14. ofile' \in [Procs -> [Fds -> Files \cup {None}]] /\ alive' \in [Procs -> BOOLEAN]
    BY <1>2, <2>3 DEF Types
  <2>15. op[p].at # "pipeclose" /\ op'[p].at \in {"user", "pipe1", "pipe2", "close"}
    BY <1>2, <2>6, <2>7
  <2> QED
    BY <1>2, <2>7, <2>8, <2>9, <2>10, <2>11, <2>12, <2>13, <2>14, <2>15, FileStep
<1> QED
  BY <1>3, <1>4

LEMMA PipeNoPageInv ==
  ASSUME IInv, NEW p \in Procs, PipeNoPage(p)
  PROVE  IInv'
BY GiveBack DEF PipeNoPage, Is

LEMMA sys_closeInv ==
  ASSUME IInv, NEW p \in Procs, sys_close(p)
  PROVE  IInv'
<1>1. PICK fd \in Open(p) :
        /\ Calls(p) /\ ofile' = [ofile EXCEPT ![p][fd] = None] /\ CloseAll(p, <<ofile[p][fd]>>)
        /\ UNCHANGED <<alive, killed, file, pipe, panicked>>
  BY DEF sys_close
<1>2. PICK f \in Files : f = ofile[p][fd]
  BY DEF Open, IInv, Types
<1>3. /\ op[p].at = "user" /\ alive[p] /\ fd \in Fds /\ op[p] = Idle /\ Types /\ f # None
  BY <1>1, <1>2, Nones DEF Open, Calls, Is, IInv, Shapes, Shape
<1>4. PICK t : t = <<f>>
  OBVIOUS
<1>5. t \in Seq(Files) /\ Len(t) = 1 /\ DOMAIN t = {1} /\ t[1] = f
  BY <1>4
<1> DEFINE o == [Idle EXCEPT !.at = "close", !.todo = t]
<1>6. op' = [op EXCEPT ![p] = o]
  BY <1>1, <1>2, <1>4 DEF CloseAll
<1>7. o \in OpType /\ o.at = "close" /\ o.todo = t /\ o.pipe = None /\ o.exiting = FALSE
  BY <1>5, IdleIs DEF OpType, Idle, Wheres
<1> HIDE DEF o
<1>8. op' \in [Procs -> OpType] /\ op'[p] = o /\ \A q \in Procs : q # p => op'[q] = op[q]
  BY <1>6, <1>7, OnlyP
<1>9. /\ ofile' \in [Procs -> [Fds -> Files \cup {None}]] /\ ofile'[p][fd] = None
      /\ \A q \in Procs : q # p => ofile'[q] = ofile[q]
      /\ \A x \in Fds : x # fd => ofile'[p][x] = ofile[p][x]
  BY <1>1, <1>3 DEF Types
<1>10. Refs(file', ofile', op')
  <2> SUFFICES ASSUME NEW g \in Files
               PROVE  file'[g].ref = Cardinality(DescRefs(ofile', g)) + Cardinality(CallRefs(op', g))
    BY DEF Refs
  <2>1. DescMoved(ofile, ofile', p, fd, g)
    <3>1. \A q \in Procs, x \in Fds : ~(q = p /\ x = fd) => ofile'[q][x] = ofile[q][x]
      BY <1>9
    <3>2. fd \in Fds
      BY <1>3
    <3> QED
      BY <3>1, <3>2, DescCell
  <2>2. 1 \in 1 .. NOFILE + 2
    BY Nones
  <2>3. \A q \in Procs, j \in 1 .. NOFILE + 2 : ~(q = p /\ j = 1) => (Todo(op', q, j, g) <=> Todo(op, q, j, g))
    BY <1>3, <1>5, <1>7, <1>8, IdleIs DEF Todo
  <2>4. Cardinality(CallRefs(op', g)) + (IF Todo(op, p, 1, g) THEN 1 ELSE 0)
          = Cardinality(CallRefs(op, g)) + (IF Todo(op', p, 1, g) THEN 1 ELSE 0)
    BY <2>2, <2>3, CallCell
  <2>5. ~Todo(op, p, 1, g) /\ (Todo(op', p, 1, g) <=> f = g) /\ g # None
    BY <1>3, <1>5, <1>7, <1>8, IdleIs, Nones DEF Todo
  <2>6. PICK j \in Nat, k \in Nat, m \in Nat, n \in Nat :
          /\ j = Cardinality(DescRefs(ofile, g)) /\ k = Cardinality(CallRefs(op, g))
          /\ m = Cardinality(DescRefs(ofile', g)) /\ n = Cardinality(CallRefs(op', g))
    BY RefsFinite
  <2>7. file'[g].ref = j + k
    BY <1>1, <2>6 DEF Refs, IInv
  <2>8. m + (IF f = g THEN 1 ELSE 0) = j /\ n = k + (IF f = g THEN 1 ELSE 0)
    BY <1>2, <1>9, <2>1, <2>4, <2>5, <2>6 DEF DescMoved
  <2>9. j + k = m + n
    BY <2>8
  <2> QED
    BY <2>6, <2>7, <2>9
<1>11. Shape(op'[p], ofile'[p], alive'[p])
  <2>1. Len(t) <= NOFILE + 2
    BY <1>5, Nones
  <2> QED
    BY <1>1, <1>3, <1>7, <1>8, <2>1 DEF Shape, InPipe
<1>12. FreshOf(p)'
  BY <1>7, <1>8 DEF FreshOf
<1>13. /\ file' \in [Files -> FileType] /\ alive' \in [Procs -> BOOLEAN]
       /\ \A g \in Files : file'[g].ref = 0 => file'[g].type = "none"
  BY <1>1, <1>3 DEF Types, IInv, FilesOK
<1>14. op[p].at # "pipeclose" /\ op'[p].at \in {"user", "pipe1", "pipe2", "close"}
  BY <1>3, <1>7, <1>8
<1> QED
  BY <1>1, <1>8, <1>9, <1>10, <1>11, <1>12, <1>13, <1>14, FileStep

LEMMA exitInv ==
  ASSUME IInv, NEW p \in Procs, exit(p)
  PROVE  IInv'
<1>1. PICK s : s = OpenFiles(p)
  OBVIOUS
<1>2. /\ op[p].at = "user" /\ alive[p] /\ op' = [op EXCEPT ![p].at = "close", ![p].exiting = TRUE, ![p].todo = s]
      /\ ofile' = [ofile EXCEPT ![p] = [fd \in Fds |-> None]]
      /\ UNCHANGED <<alive, killed, file, pipe, panicked>>
  BY <1>1 DEF exit, Is, OpenFiles
<1>3. op[p] = Idle /\ Types /\ op[p].todo = <<>>
  BY <1>2, IdleIs DEF IInv, Shapes, Shape
<1> DEFINE o == [Idle EXCEPT !.at = "close", !.exiting = TRUE, !.todo = s]
<1>4. op' = [op EXCEPT ![p] = o]
  BY <1>2, <1>3 DEF Types, OpType
<1>5. o.at = "close" /\ o.todo = s /\ o.pipe = None /\ o.exiting = TRUE
  BY DEF Idle
<1>6. op'[p] = o /\ \A q \in Procs : q # p => op'[q] = op[q]
  BY <1>3, <1>4 DEF Types
<1>7. /\ ofile' \in [Procs -> [Fds -> Files \cup {None}]] /\ \A fd \in Fds : ofile'[p][fd] = None
      /\ \A q \in Procs : q # p => ofile'[q] = ofile[q]
  BY <1>2, <1>3 DEF Types
<1>8. ASSUME NEW g \in Files
      PROVE  /\ s \in Seq(Files) /\ Len(s) <= NOFILE
             /\ Cardinality(DescRefs(ofile', g)) + Cardinality(CallRefs(op', g))
                  = Cardinality(DescRefs(ofile, g)) + Cardinality(CallRefs(op, g))
  <2>1. op'[p].todo = s /\ \A q \in Procs \ {p} : op'[q].todo = op[q].todo
    BY <1>5, <1>6
  <2>2. \A q \in Procs \ {p} : ofile'[q] = ofile[q]
    BY <1>7
  <2> HIDE DEF o
  <2> QED
    BY <1>1, <1>3, <1>7, <2>1, <2>2, ExitCount
<1>9. s \in Seq(Files) /\ Len(s) <= NOFILE
  <2>1. 1 \in Files
    BY Nones DEF Files
  <2> QED
    BY <1>8, <2>1
<1>10. o \in OpType
  BY <1>9, IdleIs DEF OpType, Idle, Wheres
<1> HIDE DEF o
<1>11. op' \in [Procs -> OpType]
  BY <1>4, <1>10, OnlyP
<1>12. Refs(file', ofile', op')
  BY <1>2, <1>8 DEF Refs, IInv
<1>13. Shape(op'[p], ofile'[p], alive'[p])
  <2>1. Len(s) <= NOFILE + 2
    BY <1>9, Nones
  <2> QED
    BY <1>2, <1>5, <1>6, <1>7, <2>1 DEF Shape, InPipe
<1>14. FreshOf(p)'
  BY <1>5, <1>6 DEF FreshOf
<1>15. /\ file' \in [Files -> FileType] /\ alive' \in [Procs -> BOOLEAN]
       /\ \A g \in Files : file'[g].ref = 0 => file'[g].type = "none"
  BY <1>2, <1>3 DEF Types, IInv, FilesOK
<1>16. op[p].at # "pipeclose" /\ op'[p].at \in {"user", "pipe1", "pipe2", "close"}
  BY <1>2, <1>5, <1>6
<1> QED
  BY <1>2, <1>6, <1>7, <1>11, <1>12, <1>13, <1>14, <1>15, <1>16, FileStep

LEMMA forkInv ==
  ASSUME IInv, NEW p \in Procs, fork(p)
  PROVE  IInv'
<1>1. PICK q \in Procs :
        /\ Calls(p) /\ ~alive[q] /\ alive' = [alive EXCEPT ![q] = TRUE] /\ ofile' = [ofile EXCEPT ![q] = ofile[p]]
        /\ file' = [f \in Files |->
                      [file[f] EXCEPT !.ref = @ + Cardinality({fd \in Fds : ofile[p][fd] = f})]]
        /\ UNCHANGED <<killed, pipe, op, panicked>>
  BY DEF fork
<1>2. Types /\ Shape(op[q], ofile[q], alive[q]) /\ \A f \in Files : file[f] \in FileType
  BY DEF IInv, Shapes, Types
<1>3. op[q].at = "user" /\ op[q] = Idle /\ \A fd \in Fds : ofile[q][fd] = None
  BY <1>1, <1>2 DEF Shape
<1>4. ASSUME NEW f \in Files
      PROVE  /\ Cardinality({fd \in Fds : ofile[p][fd] = f}) \in Nat
             /\ Cardinality(DescRefs(ofile', f))
                  = Cardinality(DescRefs(ofile, f)) + Cardinality({fd \in Fds : ofile[p][fd] = f})
  <2>1. PICK of : of = ofile'
    OBVIOUS
  <2>2. Types /\ (\A fd \in Fds : ofile[q][fd] = None) /\ of = [ofile EXCEPT ![q] = ofile[p]]
    BY <1>1, <1>2, <1>3, <2>1
  <2>3. /\ Cardinality({fd \in Fds : ofile[p][fd] = f}) \in Nat
        /\ Cardinality(DescRefs(of, f))
             = Cardinality(DescRefs(ofile, f)) + Cardinality({fd \in Fds : ofile[p][fd] = f})
    BY <2>2, ForkCount, Zenon
  <2> QED
    BY <2>1, <2>3
<1>5. ASSUME NEW f \in Files
      PROVE  /\ file'[f] \in FileType /\ file'[f].ref = file[f].ref + Cardinality({fd \in Fds : ofile[p][fd] = f})
             /\ file'[f].type = file[f].type /\ file'[f].pipe = file[f].pipe /\ file'[f].writable = file[f].writable
  <2>1. PICK c \in Nat : c = Cardinality({fd \in Fds : ofile[p][fd] = f})
    BY <1>4
  <2>2. file'[f] = [file[f] EXCEPT !.ref = @ + c]
    BY <1>1, <2>1
  <2>3. /\ file'[f] \in FileType /\ file'[f].ref = file[f].ref + c
        /\ file'[f].type = file[f].type /\ file'[f].pipe = file[f].pipe /\ file'[f].writable = file[f].writable
    BY <1>2, <2>2 DEF FileType
  <2> QED
    BY <2>1, <2>3
<1>6. file' \in [Files -> FileType]
  <2>1. file' = [f \in Files |-> file'[f]]
    BY <1>1
  <2> QED
    BY <1>5, <2>1
<1>7. Refs(file', ofile', op')
  <2> SUFFICES ASSUME NEW g \in Files
               PROVE  file'[g].ref = Cardinality(DescRefs(ofile', g)) + Cardinality(CallRefs(op', g))
    BY DEF Refs
  <2>1. PICK c \in Nat : c = Cardinality({fd \in Fds : ofile[p][fd] = g})
    BY <1>4
  <2>2. PICK j \in Nat, k \in Nat : j = Cardinality(DescRefs(ofile, g)) /\ k = Cardinality(CallRefs(op, g))
    BY RefsFinite
  <2>3. file[g].ref = j + k /\ Cardinality(DescRefs(ofile', g)) = j + c /\ file'[g].ref = file[g].ref + c
    BY <1>4, <1>5, <2>1, <2>2 DEF IInv, Refs
  <2>4. (j + k) + c = (j + c) + k
    OBVIOUS
  <2> QED
    BY <1>1, <2>2, <2>3, <2>4
<1>8. /\ ofile' \in [Procs -> [Fds -> Files \cup {None}]] /\ alive' \in [Procs -> BOOLEAN] /\ alive'[q]
      /\ op' \in [Procs -> OpType]
      /\ \A x \in Procs : x # q => op'[x] = op[x] /\ ofile'[x] = ofile[x] /\ alive'[x] = alive[x]
  BY <1>1, <1>2 DEF Types
<1>9. ASSUME NEW f \in Files, \A x \in Procs, fd \in Fds : ofile[x][fd] # f
      PROVE  file'[f] = file[f]
  <2>1. {fd \in Fds : ofile[p][fd] = f} = {}
    BY <1>9
  <2>2. Cardinality({fd \in Fds : ofile[p][fd] = f}) = 0
    BY <2>1, FS_EmptySet
  <2>3. file'[f] = [file[f] EXCEPT !.ref = @ + 0]
    BY <1>1, <2>2
  <2> QED
    BY <1>2, <2>3 DEF FileType
<1>10. \A f \in Files : file'[f].ref = 0 => file'[f].type = "none"
  <2> TAKE f \in Files
  <2>1. PICK c \in Nat : c = Cardinality({fd \in Fds : ofile[p][fd] = f})
    BY <1>4
  <2>2. file'[f].ref = file[f].ref + c /\ file[f].ref \in Nat
    BY <1>2, <1>5, <2>1 DEF FileType
  <2>3. file'[f].ref = 0 => file[f].ref = 0
    BY <2>2
  <2> QED
    BY <1>5, <2>3 DEF IInv, FilesOK
<1>11. Shape(op'[q], ofile'[q], alive'[q])
  <2>1. Len(<<>>) = 0
    OBVIOUS
  <2> QED
    BY <1>1, <1>3, <1>8, <2>1, IdleIs, Nones DEF Shape, InPipe
<1>12. FreshOf(q)'
  BY <1>1, <1>3 DEF FreshOf
<1>13. op[q].at # "pipeclose" /\ op'[q].at \in {"user", "pipe1", "pipe2", "close"}
  BY <1>1, <1>3
<1>14. UNCHANGED <<killed, pipe, panicked>>
  BY <1>1
<1>15. \A f \in Files : file'[f] = file[f] \/ Reached(q, f)
  BY <1>9 DEF Reached
<1>16. \A f \in Files : /\ file'[f].type = file[f].type /\ file'[f].pipe = file[f].pipe
                        /\ file'[f].writable = file[f].writable
                        /\ file'[f].ref = 0 => file'[f].type = "none"
  BY <1>5, <1>10
<1> QED
  BY <1>6, <1>7, <1>8, <1>11, <1>12, <1>13, <1>14, <1>15, <1>16, FileStep

LEMMA sys_dupInv ==
  ASSUME IInv, NEW p \in Procs, sys_dup(p)
  PROVE  IInv'
<1>1. PICK fd \in Open(p) :
        /\ Calls(p) /\ FdsLeft(p) > 0
        /\ ofile' = [ofile EXCEPT ![p] = fdalloc(p, <<ofile[p][fd]>>)]
        /\ file' = [file EXCEPT ![ofile[p][fd]].ref = @ + 1]
        /\ UNCHANGED <<alive, killed, pipe, op, panicked>>
  BY DEF sys_dup
<1>2. PICK f \in Files : f = ofile[p][fd]
  BY DEF Open, IInv, Types
<1>3. op[p].at = "user" /\ fd \in Fds /\ Types /\ Shape(op[p], ofile[p], alive[p]) /\ alive[p]
  BY <1>1 DEF Open, Calls, Is, IInv, Shapes
<1>4. op[p] = Idle /\ op[p].exiting = FALSE
  BY <1>3, IdleIs DEF Shape
<1>5. PICK t : t = <<f>>
  OBVIOUS
<1>6. t \in Seq(Files) /\ Len(t) = 1 /\ t[1] = f
  BY <1>5
<1>7. PICK d : d = fdalloc(p, t)
  OBVIOUS
<1>8. Len(t) <= FdsLeft(p)
  <2>1. FdsLeft(p) \in 0 .. NOFILE
    BY <1>3, OpenIs
  <2>2. FdsLeft(p) > 0
    BY <1>1
  <2> QED
    BY <1>6, <2>1, <2>2, Nones
<1>a. Placed(p, t, d)
  BY <1>3, <1>6, <1>7, <1>8, fdallocIs
<1>9. PICK g \in [1 .. Len(t) -> Fds] :
        /\ \A i \in 1 .. Len(t) : ofile[p][g[i]] = None /\ d[g[i]] = t[i]
        /\ \A x \in Fds : d[x] = ofile[p][x] \/ \E i \in 1 .. Len(t) : x = g[i]
  BY <1>a DEF Placed
<1>10. PICK e \in Fds : /\ ofile[p][e] = None /\ d[e] = f
                        /\ \A x \in Fds : x # e => d[x] = ofile[p][x]
  <2>1. 1 \in 1 .. Len(t) /\ \A i \in 1 .. Len(t) : i = 1
    BY <1>6
  <2>2. g[1] \in Fds
    BY <2>1
  <2> QED
    BY <1>6, <1>9, <2>1, <2>2
<1>11. d \in [Fds -> Files \cup {None}] /\ ofile' = [ofile EXCEPT ![p] = d]
  BY <1>1, <1>2, <1>5, <1>7, <1>a DEF Placed
<1>12. /\ ofile' \in [Procs -> [Fds -> Files \cup {None}]] /\ ofile'[p] = d
       /\ \A q \in Procs : q # p => ofile'[q] = ofile[q]
  BY <1>3, <1>11 DEF Types
<1>13. PICK n \in Nat : n = file[f].ref + 1
  BY <1>3 DEF Types, FileType
<1>14. /\ file' \in [Files -> FileType] /\ file'[f].ref = n
       /\ \A h \in Files : file'[h].type = file[h].type /\ file'[h].pipe = file[h].pipe /\ file'[h].writable = file[h].writable
       /\ \A h \in Files : h # f => file'[h] = file[h]
  <2>1. file' = [file EXCEPT ![f].ref = n]
    BY <1>1, <1>2, <1>13
  <2> QED
    BY <1>3, <2>1, RefSet
<1>15. Refs(file', ofile', op')
  <2> SUFFICES ASSUME NEW h \in Files
               PROVE  file'[h].ref = Cardinality(DescRefs(ofile', h)) + Cardinality(CallRefs(op', h))
    BY DEF Refs
  <2>1. DescMoved(ofile, ofile', p, e, h)
    <3>1. \A q \in Procs, x \in Fds : ~(q = p /\ x = e) => ofile'[q][x] = ofile[q][x]
      BY <1>10, <1>12
    <3> QED
      BY <3>1, DescCell
  <2>2. PICK j \in Nat, k \in Nat, m \in Nat :
          /\ j = Cardinality(DescRefs(ofile, h)) /\ k = Cardinality(CallRefs(op, h)) /\ m = Cardinality(DescRefs(ofile', h))
    BY RefsFinite
  <2>3. m = j + (IF f = h THEN 1 ELSE 0)
    BY <1>10, <1>12, <2>1, <2>2, Nones DEF DescMoved
  <2>4. file[h].ref = j + k
    BY <2>2 DEF Refs, IInv
  <2>5. file'[h].ref = m + k
    BY <1>13, <1>14, <2>3, <2>4
  <2> QED
    BY <1>1, <2>2, <2>5
<1>16. Shape(op'[p], ofile'[p], alive'[p])
  BY <1>1, <1>3, <1>4 DEF Shape, InPipe
<1>17. FreshOf(p)'
  BY <1>1, <1>3 DEF FreshOf
<1>18. \A h \in Files : file'[h].ref = 0 => file'[h].type = "none"
  <2>1. n # 0
    BY <1>3, <1>13 DEF Types, FileType
  <2> QED
    BY <1>14, <2>1 DEF IInv, FilesOK
<1>19. \A h \in Files : file'[h] = file[h] \/ Reached(p, h)
  BY <1>2, <1>3, <1>14 DEF Reached
<1>20. alive' \in [Procs -> BOOLEAN] /\ op' \in [Procs -> OpType] /\ \A q \in Procs : alive'[q] = alive[q] /\ op'[q] = op[q]
  BY <1>1, <1>3 DEF Types
<1>21. op[p].at # "pipeclose" /\ op'[p].at \in {"user", "pipe1", "pipe2", "close"} /\ UNCHANGED <<killed, pipe, panicked>>
  BY <1>1, <1>3
<1> QED
  BY <1>12, <1>14, <1>15, <1>16, <1>17, <1>18, <1>19, <1>20, <1>21, FileStep

\* The first file of p's call loses the reference of the call.
LEMMA DropRefs ==
  ASSUME Types, Refs(file, ofile, op), NEW p \in Procs, NEW s \in Seq(Files), s # <<>>, Len(s) <= NOFILE + 2,
         NEW f, f = Head(s), op[p].todo = s, op'[p].todo = Tail(s), \A q \in Procs : q # p => op'[q] = op[q],
         ofile' = ofile, file'[f].ref = file[f].ref - 1, \A g \in Files : g # f => file'[g] = file[g]
  PROVE  Refs(file', ofile', op')
<1> SUFFICES ASSUME NEW g \in Files
             PROVE  file'[g].ref = Cardinality(DescRefs(ofile', g)) + Cardinality(CallRefs(op', g))
  BY DEF Refs
<1>1. PICK j \in Nat, k \in Nat, m \in Nat :
        /\ j = Cardinality(DescRefs(ofile, g)) /\ k = Cardinality(CallRefs(op, g)) /\ m = Cardinality(CallRefs(op', g))
  BY RefsFinite
<1>2. file[g].ref = j + k /\ j = Cardinality(DescRefs(ofile', g))
  BY <1>1 DEF Refs
<1>3. CallDropped(op, op', f, g)
  <2>1. \A q \in Procs \ {p} : op'[q].todo = op[q].todo
    OBVIOUS
  <2> QED
    BY <2>1, CallTail
<1>4. k = m + (IF f = g THEN 1 ELSE 0)
  BY <1>1, <1>3 DEF CallDropped
<1>5. file'[g].ref = j + m
  BY <1>2, <1>4
<1> QED
  BY <1>1, <1>2, <1>5

\* The last file of an end is closed: its pipeclose() stands for the end now.
LEMMA EndMoves ==
  ASSUME EndsOK, NEW p \in Procs, NEW f \in Files, NEW pi \in Pipes, NEW w \in BOOLEAN, IsEnd(f, pi, w),
         op[p].at # "pipeclose", op'[p].at = "pipeclose", op'[p].pipe = pi, op'[p].writable = w,
         \A q \in Procs : q # p => op'[q] = op[q], file'[f].type = "none",
         \A g \in Files : g # f => file'[g] = file[g], pipe' = pipe
  PROVE  EndsOK'
<1> SUFFICES ASSUME NEW x \in Pipes, NEW v \in BOOLEAN PROVE EndOK(x, v)'
  BY DEF EndsOK
<1>1. EndOK(x, v) /\ (IsOpen(x, v)' <=> IsOpen(x, v))
  BY DEF EndsOK, IsOpen
<1>2. \A g \in Files : IsEnd(g, x, v)' <=> g # f /\ IsEnd(g, x, v)
  BY DEF IsEnd
<1>3. \A q \in Procs : q # p => (IsClosing(q, x, v)' <=> IsClosing(q, x, v))
  BY DEF IsClosing
<1>4. ~IsClosing(p, x, v) /\ (IsClosing(p, x, v)' <=> x = pi /\ v = w)
  BY DEF IsClosing
<1>5. IsEnd(f, x, v) <=> x = pi /\ v = w
  BY DEF IsEnd
<1> QED
  BY <1>1, <1>2, <1>3, <1>4, <1>5 DEF EndOK

LEMMA filecloseInv ==
  ASSUME IInv, NEW p \in Procs, fileclose(p)
  PROVE  IInv'
<1>1. PICK s : s = op[p].todo
  OBVIOUS
<1>2. op[p].at = "close" /\ alive[p] /\ s # <<>> /\ UNCHANGED <<alive, killed, ofile, pipe>> /\ Types
  BY <1>1 DEF fileclose, Is, IInv
<1>3. Shape(op[p], ofile[p], alive[p]) /\ s \in Seq(Files) /\ op[p] \in OpType
  BY <1>1, <1>2, OpIs DEF IInv, Shapes
<1>4. op[p].pipe = None /\ Len(s) <= NOFILE + 2 /\ NOFILE \in Nat
  BY <1>1, <1>2, <1>3, Nones DEF Shape
<1>5. s \in Seq(Files) /\ Len(s) \in Nat \ {0}
  BY <1>2, <1>3, EmptySeq
<1>6. PICK f \in Files : f = Head(s) /\ f = s[1]
  BY <1>5
<1>a. PICK t : t = Tail(s)
  OBVIOUS
<1>b. t \in Seq(Files) /\ Len(t) = Len(s) - 1
  BY <1>5, <1>a
<1>7. t \in Seq(Files) /\ t = Tail(s) /\ Len(t) <= NOFILE + 2
  BY <1>4, <1>5, <1>a, <1>b
<1>8. 1 \in 1 .. NOFILE + 2 /\ Todo(op, p, 1, f)
  BY <1>1, <1>4, <1>5, <1>6 DEF Todo
<1>9. /\ file[f].ref \in Nat \ {0}
      /\ file[f].ref = 1 => /\ \A q \in Procs, fd \in Fds : ofile[q][fd] # f
                            /\ \A q \in Procs, j \in 1 .. NOFILE + 2 : Todo(op, q, j, f) => q = p /\ j = 1
  BY <1>2, <1>8, RefsAtLeast DEF IInv
<1>10. /\ file[f] \in FileType /\ file[f].type \in {"none", "pipe"} /\ file[f].writable \in BOOLEAN
       /\ file[f].type = "none" => file[f].pipe = None
       /\ file[f].type = "pipe" => file[f].pipe \in Pipes
  BY <1>2 DEF Types, FileType, IInv, FilesOK
<1>11. CASE file[f].ref > 1
  <2>1. PICK n \in Nat : n = file[f].ref - 1
    BY <1>9
  <2>2. file' = [file EXCEPT ![f].ref = n] /\ op' = [op EXCEPT ![p].todo = t] /\ UNCHANGED panicked
    <3>1. ~(file[f].ref < 1) /\ f = Head(op[p].todo) /\ t = Tail(op[p].todo)
      BY <1>1, <1>6, <1>7, <1>9
    <3>2. /\ file' = [file EXCEPT ![f].ref = file[f].ref - 1] /\ op' = [op EXCEPT ![p].todo = Tail(op[p].todo)]
          /\ UNCHANGED panicked
      BY <1>11, <3>1 DEF fileclose
    <3> QED
      BY <2>1, <3>1, <3>2
  <2> DEFINE o == [op[p] EXCEPT !.todo = t]
  <2>3. op' = [op EXCEPT ![p] = o]
    BY <2>2
  <2>4. o \in OpType /\ o.at = "close" /\ o.todo = t /\ o.pipe = None /\ o.exiting = op[p].exiting
    BY <1>2, <1>3, <1>4, <1>7 DEF OpType
  <2> HIDE DEF o
  <2>5. op' \in [Procs -> OpType] /\ op'[p] = o /\ \A q \in Procs : q # p => op'[q] = op[q]
    BY <2>3, <2>4, OnlyP
  <2>6. /\ file' \in [Files -> FileType] /\ file'[f].ref = n
        /\ \A g \in Files : file'[g].type = file[g].type /\ file'[g].pipe = file[g].pipe /\ file'[g].writable = file[g].writable
        /\ \A g \in Files : g # f => file'[g] = file[g]
    BY <1>2, <2>2, RefSet
  <2>7. Refs(file', ofile', op')
    <3>1. op'[p].todo = Tail(s) /\ file'[f].ref = file[f].ref - 1
      BY <1>7, <2>1, <2>4, <2>5, <2>6
    <3>2. Refs(file, ofile, op) /\ f = Head(s) /\ op[p].todo = s /\ s \in Seq(Files) /\ s # <<>> /\ Len(s) <= NOFILE + 2
      BY <1>1, <1>2, <1>4, <1>5, <1>6 DEF IInv
    <3>3. Types /\ ofile' = ofile /\ (\A q \in Procs : q # p => op'[q] = op[q]) /\ \A g \in Files : g # f => file'[g] = file[g]
      BY <1>2, <2>5, <2>6
    <3> QED
      BY <3>1, <3>2, <3>3, DropRefs
  <2>8. Shape(op'[p], ofile'[p], alive'[p])
    BY <1>2, <1>3, <1>7, <2>4, <2>5 DEF Shape, InPipe
  <2>9. FreshOf(p)'
    BY <2>4, <2>5 DEF FreshOf
  <2>10. \A g \in Files : file'[g].ref = 0 => file'[g].type = "none"
    <3>1. n # 0
      BY <1>9, <1>11, <2>1
    <3> QED
      BY <2>6, <3>1 DEF IInv, FilesOK
  <2>11. \A g \in Files : file'[g] = file[g] \/ Reached(p, g)
    BY <1>8, <2>6 DEF Reached
  <2>12. ofile' \in [Procs -> [Fds -> Files \cup {None}]] /\ alive' \in [Procs -> BOOLEAN]
    BY <1>2 DEF Types
  <2>13. op[p].at # "pipeclose" /\ op'[p].at \in {"user", "pipe1", "pipe2", "close"}
    BY <1>2, <2>4, <2>5
  <2> QED
    BY <1>2, <2>2, <2>5, <2>6, <2>7, <2>8, <2>9, <2>10, <2>11, <2>12, <2>13, FileStep
<1>12. CASE file[f].ref = 1
  <2>1. PICK pi \in Pipes \cup {None}, w \in BOOLEAN, a \in Wheres :
          /\ pi = file[f].pipe /\ w = file[f].writable
          /\ a = (IF file[f].type = "pipe" THEN "pipeclose" ELSE "close")
    BY <1>10 DEF FileType, Wheres
  <2>2. /\ file' = [file EXCEPT ![f] = NoFile]
        /\ op' = [op EXCEPT ![p].todo = t, ![p].at = a, ![p].pipe = pi, ![p].writable = w] /\ UNCHANGED panicked
    <3>1. /\ file' = [file EXCEPT ![f] = NoFile] /\ UNCHANGED panicked
          /\ op' = [op EXCEPT ![p].todo = Tail(@), ![p].at = IF file[f].type = "pipe" THEN "pipeclose" ELSE @,
                              ![p].pipe = file[f].pipe, ![p].writable = file[f].writable]
      <4>1. f = Head(op[p].todo) /\ ~(file[f].ref < 1) /\ ~(file[f].ref > 1)
        BY <1>1, <1>6, <1>12
      <4> QED
        BY <4>1, Zenon DEF fileclose
    <3> QED
      BY <1>1, <1>2, <1>3, <1>7, <2>1, <3>1 DEF Types, OpType
  <2> DEFINE o == [op[p] EXCEPT !.todo = t, !.at = a, !.pipe = pi, !.writable = w]
  <2>3. op' = [op EXCEPT ![p] = o]
    BY <1>2, <1>3, <2>2 DEF Types, OpType
  <2>4. o \in OpType /\ o.at = a /\ o.todo = t /\ o.pipe = pi /\ o.writable = w /\ o.exiting = op[p].exiting
    BY <1>2, <1>3, <1>7, <2>1 DEF OpType
  <2> HIDE DEF o
  <2>5. /\ op' \in [Procs -> OpType] /\ op'[p] = o /\ \A q \in Procs : q # p => op'[q] = op[q]
        /\ \A q \in Procs : q # p => Roused(op[q], op'[q])
    BY <2>3, <2>4, OnlyP
  <2>6. NoFile \in FileType /\ NoFile.ref = 0 /\ NoFile.type = "none" /\ NoFile.pipe = None
    BY DEF NoFile, FileType
  <2>7. file' \in [Files -> FileType] /\ file'[f] = NoFile /\ \A g \in Files : g # f => file'[g] = file[g]
    BY <1>2, <2>2, <2>6 DEF Types
  <2>8. Refs(file', ofile', op')
    <3>1. op'[p].todo = Tail(s) /\ file'[f].ref = file[f].ref - 1
      BY <1>7, <1>12, <2>4, <2>5, <2>6, <2>7
    <3>2. Refs(file, ofile, op) /\ f = Head(s) /\ op[p].todo = s
      BY <1>1, <1>6 DEF IInv
    <3> QED
      BY <1>2, <1>4, <1>5, <2>5, <2>7, <3>1, <3>2, DropRefs
  <2>9. Shape(op'[p], ofile'[p], alive'[p])
    <3>1. (a = "close" => pi = None) /\ (a = "pipeclose" => pi \in Pipes) /\ a \in {"close", "pipeclose"}
      BY <1>10, <2>1
    <3> QED
      BY <1>2, <1>3, <1>7, <2>4, <2>5, <3>1 DEF Shape, InPipe
  <2>10. FreshOf(p)'
    <3>1. a \notin {"pipe1", "pipe2"}
      BY <2>1
    <3> QED
      BY <2>4, <2>5, <3>1 DEF FreshOf
  <2>11. \A g \in Files : file'[g] = file[g] \/ Reached(p, g)
    BY <1>8, <2>7 DEF Reached
  <2>12. \A g \in Files : file'[g].ref = 0 => file'[g].type = "none"
    BY <2>6, <2>7 DEF IInv, FilesOK
  <2>13. ofile' \in [Procs -> [Fds -> Files \cup {None}]] /\ alive' \in [Procs -> BOOLEAN]
    BY <1>2 DEF Types
  <2>14. CASE file[f].type = "none"
    <3>1. op[p].at # "pipeclose" /\ op'[p].at \in {"user", "pipe1", "pipe2", "close"}
      BY <1>2, <2>1, <2>4, <2>5, <2>14
    <3>2. \A g \in Files : /\ file'[g].type = file[g].type /\ file'[g].pipe = file[g].pipe
                           /\ file[g].type = "pipe" => file'[g].writable = file[g].writable
                           /\ file'[g].ref = 0 => file'[g].type = "none"
      BY <1>10, <2>6, <2>7, <2>12, <2>14
    <3> QED
      BY <1>2, <2>2, <2>5, <2>7, <2>8, <2>9, <2>10, <2>11, <2>13, <3>1, <3>2, FileStep
  <2>15. CASE file[f].type = "pipe"
    <3>1. pi \in Pipes /\ IsEnd(f, pi, w) /\ a = "pipeclose"
      BY <1>10, <2>1, <2>15 DEF IsEnd
    <3>2. Types'
      BY <1>2, <2>2, <2>5, <2>7 DEF IInv, Types
    <3>3. Shapes'
      BY <1>2, <2>5, <2>9, ShapesNext DEF IInv
    <3>4. Fresh'
      BY <1>2, <2>5, <2>10, <2>11, FreshNext DEF IInv
    <3>5. FilesOK'
      BY <2>6, <2>7 DEF IInv, FilesOK
    <3>6. EndsOK'
      <4>1. op[p].at # "pipeclose" /\ op'[p].at = "pipeclose" /\ op'[p].pipe = pi /\ op'[p].writable = w
        BY <1>2, <2>4, <2>5, <3>1
      <4>2. file'[f].type = "none" /\ EndsOK /\ pipe' = pipe
        BY <1>2, <2>6, <2>7 DEF IInv
      <4> QED
        BY <2>5, <2>7, <3>1, <4>1, <4>2, EndMoves
    <3>7. Pages'
      BY <1>2, SamePages DEF IInv
    <3>8. Linked(p)' /\ Waits(p)'
      BY <2>4, <2>5, <3>1 DEF Linked, Waits, InPipe
    <3>9. Links'
      <4>1. \A q \in Procs, fd \in Fds : ofile[q][fd] \in Files => file'[ofile[q][fd]] = file[ofile[q][fd]]
        BY <1>9, <1>12, <2>7
      <4> QED
        BY <1>2, <2>5, <3>8, <4>1, LinksNext DEF IInv
    <3>10. Sleepers'
      BY <1>2, <2>5, <3>8, SleepersNext DEF IInv
    <3> QED
      BY <2>8, <3>2, <3>3, <3>4, <3>5, <3>6, <3>7, <3>9, <3>10 DEF IInv
  <2> QED
    BY <1>10, <2>14, <2>15
<1> QED
  BY <1>9, <1>11, <1>12

-----------------------------------------------------------------------------
(* Arithmetic modulo the size of a pipe and the width of its counters.     *)

LEMMA ModRange ==
  ASSUME NEW n \in Nat \ {0}, NEW a \in Int
  PROVE  a % n \in 0 .. n - 1
OBVIOUS

LEMMA ModSmall ==
  ASSUME NEW n \in Nat \ {0}, NEW a \in 0 .. n - 1
  PROVE  a % n = a
OBVIOUS

LEMMA ModUp ==
  ASSUME NEW n \in Nat \ {0}, NEW a \in n .. 2 * n - 1
  PROVE  a % n = a - n
OBVIOUS

LEMMA ModDown ==
  ASSUME NEW n \in Nat \ {0}, NEW a \in Int, -n <= a, a < 0
  PROVE  a % n = a + n
OBVIOUS

LEMMA DivMod ==
  ASSUME NEW n \in Nat \ {0}, NEW a \in Int
  PROVE  a \div n \in Int /\ a = (n * (a \div n)) + (a % n)
OBVIOUS

LEMMA ModUnique ==
  ASSUME NEW n \in Nat \ {0}, NEW q \in Int, NEW x \in 0 .. n - 1
  PROVE  ((n * q) + x) % n = x
OBVIOUS

\* Multiples of the divisor do not count.
LEMMA ModMult ==
  ASSUME NEW n \in Nat \ {0}, NEW q \in Int, NEW a \in Int
  PROVE  (a + (n * q)) % n = a % n
<1>1. PICK d \in Int, x \in 0 .. n - 1 : a % n = x /\ a = (n * d) + x
  BY DivMod, ModRange
<1>2. (n * d) + (n * q) = n * (d + q) /\ n * d \in Int /\ n * q \in Int /\ d + q \in Int
  OBVIOUS
<1>3. a + (n * q) = (n * (d + q)) + x
  BY <1>1, <1>2
<1> QED
  BY <1>1, <1>2, <1>3, ModUnique

\* Numbers less than the divisor apart have different remainders.
LEMMA ModInjective ==
  ASSUME NEW n \in Nat \ {0}, NEW a \in Int, NEW b \in Int,
         a % n = b % n, a - b < n, b - a < n
  PROVE  a = b
<1>1. a \div n \in Int /\ b \div n \in Int /\ a % n \in Int
  BY DivMod, ModRange
<1>2. a = (n * (a \div n)) + (a % n) /\ b = (n * (b \div n)) + (a % n)
  BY DivMod
<1>3. \A c, d, x \in Int : ((n * c) + x) - ((n * d) + x) = n * (c - d)
  OBVIOUS
<1>4. a - b = n * ((a \div n) - (b \div n))
  BY <1>1, <1>2, <1>3
<1>5. \A k \in Int : n * k < n /\ -n < n * k => k = 0
  OBVIOUS
<1>6. (a \div n) - (b \div n) = 0
  BY <1>1, <1>4, <1>5
<1> QED
  BY <1>1, <1>4, <1>6

-----------------------------------------------------------------------------
(* A ring of size entries whose indices wrap at max.                       *)

Ring(size, max) ==
  /\ size \in Nat \ {0} /\ max \in Nat \ {0}
  /\ max % size = 0 /\ size < max
Distance(from, to, max) == (to - from) % max
Between(b, size, max, from, to) == [i \in 1 .. Distance(from, to, max) |-> b[(from + i - 1) % size]]
Holds(b, size, S) == b \in [0 .. size - 1 -> S]
Ahead(i, k, max) == (i + k) % max

LEMMA Rings == Ring(PIPESIZE, UINT) /\ UINT \in Nat \ {0}
BY PipeAssumption DEF Ring

LEMMA DistanceIs ==
  ASSUME NEW max \in Nat \ {0}, NEW from \in 0 .. max - 1, NEW to \in 0 .. max - 1
  PROVE  Distance(from, to, max) = IF to >= from THEN to - from ELSE to - from + max
<1>1. CASE to >= from
  <2>1. to - from \in 0 .. max - 1
    BY <1>1
  <2> QED
    BY <1>1, <2>1, ModSmall DEF Distance
<1>2. CASE ~(to >= from)
  <2>1. to - from \in Int /\ -max <= to - from /\ to - from < 0
    BY <1>2
  <2> QED
    BY <1>2, <2>1, ModDown DEF Distance
<1> QED
  BY <1>1, <1>2

LEMMA DistanceType ==
  ASSUME NEW max \in Nat \ {0}, NEW from \in 0 .. max - 1, NEW to \in 0 .. max - 1
  PROVE  /\ Distance(from, to, max) \in 0 .. max - 1
         /\ Distance(from, to, max) = 0 <=> from = to
<1> DEFINE d == Distance(from, to, max)
<1>1. d = IF to >= from THEN to - from ELSE to - from + max
  BY DistanceIs
<1> HIDE DEF d
<1>2. d \in 0 .. max - 1 /\ (d = 0 <=> from = to)
  BY <1>1
<1> QED
  BY <1>2 DEF d

\* An index that moves on by k.
LEMMA StepIs ==
  ASSUME NEW max \in Nat \ {0}, NEW i \in 0 .. max - 1, NEW k \in 0 .. max
  PROVE  /\ (i + k) % max = IF i + k < max THEN i + k ELSE i + k - max
         /\ (i + k) % max \in 0 .. max - 1
<1>1. CASE i + k < max
  <2>1. i + k \in 0 .. max - 1
    BY <1>1
  <2> QED
    BY <1>1, <2>1, ModSmall
<1>2. CASE ~(i + k < max)
  <2>1. i + k \in max .. 2 * max - 1
    BY <1>2
  <2> QED
    BY <1>2, <2>1, ModUp
<1> QED
  BY <1>1, <1>2

\* The wrap of the index does not move the slots.
LEMMA SlotWrap ==
  ASSUME NEW size, NEW max, Ring(size, max), NEW i \in 0 .. max - 1, NEW k \in 0 .. max, NEW j \in Nat
  PROVE  (((i + k) % max) + j) % size = (i + k + j) % size
<1>1. size \in Nat \ {0} /\ max \in Nat \ {0} /\ max % size = 0
  BY DEF Ring
<1>2. PICK q \in Int : max = size * q
  <2>1. max \div size \in Int /\ max = (size * (max \div size)) + 0
    BY <1>1, DivMod
  <2>2. size * (max \div size) \in Int
    BY <1>1, <2>1
  <2> QED
    BY <2>1, <2>2
<1>3. CASE i + k < max
  BY <1>1, <1>3, StepIs
<1>4. CASE ~(i + k < max)
  <2>1. (i + k) % max = i + k - max
    BY <1>1, <1>4, StepIs
  <2> DEFINE a == i + k + j - max
  <2>2. a \in Int /\ a + max = i + k + j /\ ((i + k) % max) + j = a
    BY <1>1, <2>1
  <2> HIDE DEF a
  <2>3. (a + (size * q)) % size = a % size
    BY <1>1, <2>2, ModMult
  <2> QED
    BY <1>2, <2>2, <2>3
<1> QED
  BY <1>3, <1>4

LEMMA DropDistance ==
  ASSUME NEW max \in Nat \ {0}, NEW from \in 0 .. max - 1, NEW to \in 0 .. max - 1,
         NEW k \in 0 .. Distance(from, to, max)
  PROVE  /\ (from + k) % max \in 0 .. max - 1
         /\ Distance(from, (from + k) % max, max) = k
         /\ Distance((from + k) % max, to, max) = Distance(from, to, max) - k
<1>1. Distance(from, to, max) = IF to >= from THEN to - from ELSE to - from + max
  BY DistanceIs
<1>2. k \in 0 .. max
  BY <1>1
<1>3. PICK f2 \in 0 .. max - 1 : f2 = (from + k) % max /\ f2 = IF from + k < max THEN from + k ELSE from + k - max
  BY <1>2, StepIs
<1>4. Distance(from, f2, max) = IF f2 >= from THEN f2 - from ELSE f2 - from + max
  BY DistanceIs
<1>5. Distance(f2, to, max) = IF to >= f2 THEN to - f2 ELSE to - f2 + max
  BY DistanceIs
<1>6. Distance(from, f2, max) = k /\ Distance(f2, to, max) = Distance(from, to, max) - k
  BY <1>1, <1>2, <1>3, <1>4, <1>5
<1> QED
  BY <1>3, <1>6

LEMMA BetweenLen ==
  ASSUME NEW b, NEW size, NEW max \in Nat \ {0}, NEW from \in 0 .. max - 1, NEW to \in 0 .. max - 1
  PROVE  Len(Between(b, size, max, from, to)) = Distance(from, to, max)
<1>1. PICK d \in 0 .. max - 1 : d = Distance(from, to, max)
  BY DistanceType
<1>2. Between(b, size, max, from, to) = [i \in 1 .. d |-> b[(from + i - 1) % size]]
  BY <1>1 DEF Between
<1> QED
  BY <1>1, <1>2

LEMMA BetweenSeq ==
  ASSUME NEW S, NEW size, NEW max, Ring(size, max), NEW b \in [0 .. size - 1 -> S],
         NEW from \in 0 .. max - 1, NEW to \in 0 .. max - 1
  PROVE  Between(b, size, max, from, to) \in Seq(S)
<1>0. size \in Nat \ {0} /\ max \in Nat \ {0}
  BY DEF Ring
<1>1. PICK d \in 0 .. max - 1 : d = Distance(from, to, max)
  BY <1>0, DistanceType
<1> DEFINE s == Between(b, size, max, from, to)
<1>2. s = [i \in 1 .. d |-> b[(from + i - 1) % size]]
  BY <1>1 DEF Between
<1>3. ASSUME NEW i \in 1 .. d PROVE (from + i - 1) % size \in 0 .. size - 1
  <2>1. from + i - 1 \in Int
    OBVIOUS
  <2> QED
    BY <1>0, <2>1, ModRange
<1> HIDE DEF s
<1>4. s \in [1 .. d -> S]
  BY <1>2, <1>3
<1>5. s \in Seq(S)
  BY <1>4
<1> QED
  BY <1>5 DEF s

\* The slot of the index to, seen from the index from.
LEMMA LastSlot ==
  ASSUME NEW size, NEW max, Ring(size, max),
         NEW from \in 0 .. max - 1, NEW to \in 0 .. max - 1
  PROVE  LET d == Distance(from, to, max) IN
         (from + d) % max = to /\ (from + d) % size = to % size
<1> PICK d \in 0 .. max - 1 : d = Distance(from, to, max)
  BY DistanceType DEF Ring
<1>1. max \in Nat \ {0}
  BY DEF Ring
<1>2. d = IF to >= from THEN to - from ELSE to - from + max
  BY <1>1, DistanceIs
<1>3. (from + d) % max = to
  <2>1. (from + d) % max = IF from + d < max THEN from + d ELSE from + d - max
    <3>1. d \in 0 .. max
      BY <1>1
    <3> QED
      BY <1>1, <3>1, StepIs
  <2> QED
    BY <1>1, <1>2, <2>1
<1>4. (((from + d) % max) + 0) % size = (from + d + 0) % size
  <2>1. d \in 0 .. max /\ 0 \in Nat
    BY <1>1
  <2> QED
    BY <2>1, SlotWrap, Zenon
<1>5. to + 0 = to /\ from + d + 0 = from + d
  OBVIOUS
<1> QED
  BY <1>3, <1>4, <1>5

\* The first k entries go.
LEMMA DropSeq ==
  ASSUME NEW size, NEW max, Ring(size, max), NEW S, NEW b, Holds(b, size, S),
         NEW from \in 0 .. max - 1, NEW to \in 0 .. max - 1,
         NEW k \in 0 .. Distance(from, to, max), NEW fromn, fromn = Ahead(from, k, max)
  PROVE  Between(b, size, max, fromn, to)
           = SubSeq(Between(b, size, max, from, to), k + 1, Distance(from, to, max))
<1> b \in [0 .. size - 1 -> S]
  BY DEF Holds
<1>1. max \in Nat \ {0} /\ size \in Nat \ {0} /\ size < max
  BY DEF Ring
<1>2. PICK d \in 0 .. max - 1 : d = Distance(from, to, max)
  BY <1>1, DistanceType
<1>3. k \in 0 .. max /\ k \in 0 .. d /\ k \in Nat
  BY <1>1, <1>2
<1>4. PICK f2 \in 0 .. max - 1 : f2 = (from + k) % max /\ f2 = IF from + k < max THEN from + k ELSE from + k - max
  BY <1>1, <1>3, StepIs
<1>5. d = IF to >= from THEN to - from ELSE to - from + max
  BY <1>1, <1>2, DistanceIs
<1>6. Distance(from, f2, max) = k
  <2>1. Distance(from, f2, max) = IF f2 >= from THEN f2 - from ELSE f2 - from + max
    BY <1>1, DistanceIs
  <2> QED
    BY <1>1, <1>3, <1>4, <1>5, <2>1
<1>7. Distance(f2, to, max) = d - k
  <2>1. Distance(f2, to, max) = IF to >= f2 THEN to - f2 ELSE to - f2 + max
    BY <1>1, DistanceIs
  <2> QED
    BY <1>1, <1>3, <1>4, <1>5, <2>1
<1> DEFINE s == Between(b, size, max, from, to)
           s2 == Between(b, size, max, f2, to)
           t == SubSeq(s, k + 1, d)
<1>8. s \in Seq(S) /\ Len(s) = d /\ s2 \in Seq(S) /\ Len(s2) = d - k
  <2>1. Len(s) = Distance(from, to, max) /\ s \in Seq(S)
    <3>1. Len(s) = Distance(from, to, max)
      BY <1>1, BetweenLen
    <3>2. s \in Seq(S)
      BY BetweenSeq
    <3> QED
      BY <3>1, <3>2
  <2>2. Len(s2) = Distance(f2, to, max) /\ s2 \in Seq(S)
    <3>1. Len(s2) = Distance(f2, to, max)
      BY <1>1, BetweenLen
    <3>2. s2 \in Seq(S)
      BY BetweenSeq
    <3> QED
      BY <3>1, <3>2
  <2> QED
    BY <1>2, <1>7, <2>1, <2>2
<1>9. \A i \in 1 .. d : s[i] = b[(from + i - 1) % size]
  BY <1>2 DEF Between
<1>10. \A i \in 1 .. d - k : s2[i] = b[(f2 + i - 1) % size]
  BY <1>7 DEF Between
<1> HIDE DEF s, s2
<1>11. t \in Seq(S) /\ Len(t) = d - k /\ \A i \in 1 .. d - k : t[i] = s[k + i]
  <2>1. \A i \in k + 1 .. d : s[i] \in S
    BY <1>3, <1>8
  <2>2. k + 1 \in Int /\ d \in Int /\ \A i \in Nat : k + 1 + i - 1 = k + i
    BY <1>3
  <2>3. Len(t) = IF k + 1 <= d THEN d - (k + 1) + 1 ELSE 0
    BY <2>1, <2>2, SubSeqProperties
  <2>4. t \in Seq(S) /\ \A i \in 1 .. d - (k + 1) + 1 : t[i] = s[k + 1 + i - 1]
    BY <2>1, <2>2, SubSeqProperties
  <2>5. Len(t) = d - k /\ d - (k + 1) + 1 = d - k
    BY <1>3, <2>3
  <2> QED
    BY <2>2, <2>4, <2>5
<1> HIDE DEF t
<1>12. ASSUME NEW i \in 1 .. d - k PROVE s2[i] = t[i]
  <2>1. PICK j \in Nat : j = i - 1
    BY <1>3
  <2>2. (((from + k) % max) + j) % size = (from + k + j) % size
    BY <1>3, SlotWrap, Zenon
  <2>3. f2 + i - 1 = f2 + j /\ from + (k + i) - 1 = from + k + j /\ k + i \in 1 .. d
    BY <1>3, <2>1
  <2>4. s2[i] = b[(f2 + j) % size]
    BY <1>10, <2>3
  <2>5. t[i] = b[(from + k + j) % size]
    BY <1>9, <1>11, <2>3
  <2> QED
    BY <1>4, <2>2, <2>4, <2>5
<1>13. s2 = t
  BY <1>8, <1>11, <1>12, SeqEqual
<1> QED
  BY <1>2, <1>4, <1>13 DEF s, s2, t, Ahead

-----------------------------------------------------------------------------
(* Making and closing a pipe.                                              *)

LEMMA WokenIs ==
  ASSUME Types, NEW pi, NEW chan \in {"rsleep", "wsleep"}, NEW wo, wo = Woken(op, pi, chan), NEW q \in Procs
  PROVE  /\ wo[q] \in OpType /\ Roused(op[q], wo[q])
         /\ op[q].pipe = pi => wo[q].at # chan
         /\ op[q].at # chan => wo[q] = op[q]
         /\ wo[q].at \in {"rsleep", "wsleep"} => wo[q] = op[q]
<1>1. PICK o \in OpType : o = op[q]
  BY OpIs
<1> DEFINE a == IF chan = "rsleep" THEN "read" ELSE "write"
<1>2. wo[q] = IF o.at = chan /\ o.pipe = pi THEN [o EXCEPT !.at = a] ELSE o
  BY <1>1 DEF Woken
<1>3. CASE ~(o.at = chan /\ o.pipe = pi)
  BY <1>1, <1>2, <1>3 DEF Roused
<1>4. CASE o.at = chan /\ o.pipe = pi
  <2>1. a \in Wheres /\ a \notin {"rsleep", "wsleep"} /\ (chan = "rsleep" => a = "read") /\ (chan = "wsleep" => a = "write")
    BY DEF Wheres
  <2>2. PICK n \in OpType : /\ n = wo[q] /\ n.at = a /\ n.todo = o.todo /\ n.pipe = o.pipe
                            /\ n.writable = o.writable /\ n.exiting = o.exiting
    <3> HIDE DEF a
    <3> QED
      BY <1>2, <1>4, <2>1 DEF OpType
  <2> HIDE DEF a
  <2> QED
    BY <1>1, <1>4, <2>1, <2>2 DEF Roused
<1> QED
  BY <1>3, <1>4

\* p goes on with the call o, and wakes others.
Wakes(p, pi, chan, o) == op' = [Woken(op, pi, chan) EXCEPT ![p] = o]

LEMMA WokenBut ==
  ASSUME Types, NEW pi, NEW chan \in {"rsleep", "wsleep"}, NEW p \in Procs, NEW o \in OpType,
         Wakes(p, pi, chan, o)
  PROVE  /\ op' \in [Procs -> OpType] /\ op'[p] = o
         /\ \A q \in Procs : q # p => /\ Roused(op[q], op'[q])
                                      /\ op[q].pipe = pi => op'[q].at # chan
                                      /\ op'[q].at \in {"rsleep", "wsleep"} => op'[q] = op[q]
<1>1. PICK wo : wo = Woken(op, pi, chan)
  OBVIOUS
<1>2. ASSUME NEW q \in Procs
      PROVE  /\ wo[q] \in OpType /\ Roused(op[q], wo[q])
             /\ op[q].pipe = pi => wo[q].at # chan
             /\ wo[q].at \in {"rsleep", "wsleep"} => wo[q] = op[q]
  BY <1>1, WokenIs
<1>3. wo = [q \in Procs |-> wo[q]]
  BY <1>1 DEF Woken
<1>4. wo \in [Procs -> OpType]
  BY <1>2, <1>3
<1>5. op' \in [Procs -> OpType] /\ op'[p] = o /\ \A q \in Procs : q # p => op'[q] = wo[q]
  BY <1>1, <1>4 DEF Wakes
<1> QED
  BY <1>2, <1>5

LEMMA NoPipeIs ==
  /\ NoPipe \in PipeType /\ NoPipe.page = FALSE /\ NoPipe.readopen = FALSE /\ NoPipe.writeopen = FALSE
  /\ (NoPipe.nwrite - NoPipe.nread) % UINT = 0 /\ PIPESIZE \in Nat \ {0} /\ UINT \in Nat \ {0}
<1>1. PIPESIZE \in Nat \ {0} /\ UINT \in Nat \ {0} /\ UINT - 1 \in 0 .. UINT - 1
  BY PipeAssumption
<1>2. Junk \in Bytes
  BY ProgramAssumption DEF Junk
<1>3. NoPipe \in PipeType
  BY <1>1, <1>2 DEF NoPipe, PipeType
<1>4. NoPipe.nwrite - NoPipe.nread = 0
  BY <1>1 DEF NoPipe
<1>5. 0 % UINT = 0
  BY <1>1
<1> QED
  BY <1>1, <1>3, <1>4, <1>5 DEF NoPipe

\* One end of pi is closed, and the pipe with the second.
EndClosed(pi, w, pp) ==
  /\ pp \in PipeType
  /\ pp.readopen = (pipe[pi].readopen /\ w) /\ pp.writeopen = (pipe[pi].writeopen /\ ~w)
  /\ pp.page = (pp.readopen \/ pp.writeopen)
  /\ \/ pp.nread = pipe[pi].nread /\ pp.nwrite = pipe[pi].nwrite
     \/ pp = NoPipe

LEMMA EndCloses ==
  ASSUME Types, NEW pi \in Pipes, NEW w \in BOOLEAN, pipe[pi].page, NEW e,
         e = (IF w THEN [pipe[pi] EXCEPT !.writeopen = FALSE] ELSE [pipe[pi] EXCEPT !.readopen = FALSE]),
         NEW pp, pp = (IF e.readopen \/ e.writeopen THEN e ELSE NoPipe)
  PROVE  EndClosed(pi, w, pp)
<1>1. PICK c \in PipeType : c = pipe[pi]
  BY DEF Types
<1>2. CASE w
  <2>1. e = [c EXCEPT !.writeopen = FALSE]
    BY <1>1, <1>2
  <2>2. /\ e \in PipeType /\ e.readopen = c.readopen /\ e.writeopen = FALSE /\ e.page = c.page
        /\ e.nread = c.nread /\ e.nwrite = c.nwrite /\ c.page \in BOOLEAN /\ c.readopen \in BOOLEAN
    BY <2>1 DEF PipeType
  <2> QED
    BY <1>1, <1>2, <2>2, NoPipeIs DEF EndClosed
<1>3. CASE ~w
  <2>1. e = [c EXCEPT !.readopen = FALSE]
    BY <1>1, <1>3
  <2>2. /\ e \in PipeType /\ e.writeopen = c.writeopen /\ e.readopen = FALSE /\ e.page = c.page
        /\ e.nread = c.nread /\ e.nwrite = c.nwrite /\ c.page \in BOOLEAN /\ c.writeopen \in BOOLEAN
    BY <2>1 DEF PipeType
  <2> QED
    BY <1>1, <1>3, <2>2, NoPipeIs DEF EndClosed
<1> QED
  BY <1>2, <1>3

\* Who has a descriptor of an end keeps the end from being closed.
LEMMA LinkedEnd ==
  ASSUME IInv, NEW q \in Procs, InPipe(op[q]), NEW pi \in Pipes, op[q].pipe = pi, NEW w \in BOOLEAN,
         w <=> op[q].at \in {"write", "wsleep"}
  PROVE  /\ \E f \in Files : IsEnd(f, pi, w)
         /\ IsOpen(pi, w) /\ pipe[pi].page
         /\ \A p \in Procs : ~IsClosing(p, pi, w)
<1>1. (op[q].at \in {"write", "wsleep"}) = w
  OBVIOUS
<1>2. PICK f \in Files : IsEnd(f, pi, w)
  BY <1>1 DEF IInv, Links, Linked
<1>3. EndOK(pi, w)
  BY DEF IInv, EndsOK
<1>4. IsOpen(pi, w) /\ \A p \in Procs : ~IsClosing(p, pi, w)
  BY <1>2, <1>3 DEF EndOK
<1> QED
  BY <1>2, <1>4 DEF IsOpen, IInv, Pages

LEMMA EndsClose ==
  ASSUME EndsOK, NEW p \in Procs, NEW pi \in Pipes, NEW w \in BOOLEAN, IsClosing(p, pi, w), op'[p].at = "close",
         \A q \in Procs : q # p /\ (op[q].at = "pipeclose" \/ op'[q].at = "pipeclose") => op'[q] = op[q],
         file' = file, \A x \in Pipes : x # pi => pipe'[x] = pipe[x],
         EndClosed(pi, w, pipe'[pi])
  PROVE  EndsOK'
<1> SUFFICES ASSUME NEW x \in Pipes, NEW v \in BOOLEAN PROVE EndOK(x, v)'
  BY DEF EndsOK
<1>1. EndOK(x, v)
  BY DEF EndsOK
<1>2. \A g \in Files : IsEnd(g, x, v)' <=> IsEnd(g, x, v)
  BY DEF IsEnd
<1>3. \A q \in Procs : q # p => (IsClosing(q, x, v)' <=> IsClosing(q, x, v))
  BY DEF IsClosing
<1>4. ~IsClosing(p, x, v)' /\ (IsClosing(p, x, v) <=> x = pi /\ v = w)
  BY DEF IsClosing
<1>5. CASE x = pi /\ v = w
  <2>1. ~IsOpen(x, v)'
    BY <1>5 DEF IsOpen, EndClosed
  <2> QED
    BY <1>1, <1>2, <1>3, <1>4, <1>5, <2>1 DEF EndOK
<1>6. CASE ~(x = pi /\ v = w)
  <2>1. IsOpen(x, v)' <=> IsOpen(x, v)
    <3>1. CASE x # pi
      BY <3>1 DEF IsOpen
    <3>2. CASE x = pi
      <4>1. (v <=> ~w) /\ pipe'[x].readopen = (pipe[x].readopen /\ w) /\ pipe'[x].writeopen = (pipe[x].writeopen /\ ~w)
        BY <1>6, <3>2 DEF EndClosed
      <4> QED
        BY <4>1 DEF IsOpen
    <3> QED
      BY <3>1, <3>2
  <2> QED
    BY <1>1, <1>2, <1>3, <1>4, <1>6, <2>1 DEF EndOK
<1> QED
  BY <1>5, <1>6

LEMMA pipecloseInv ==
  ASSUME IInv, NEW p \in Procs, pipeclose(p)
  PROVE  IInv'
<1>1. op[p].at = "pipeclose" /\ alive[p] /\ UNCHANGED <<alive, killed, ofile, file, panicked>> /\ Types
  BY DEF pipeclose, Is, IInv
<1>2. Shape(op[p], ofile[p], alive[p]) /\ op[p] \in OpType
  BY <1>1, OpIs DEF IInv, Shapes
<1>3. PICK pi \in Pipes : pi = op[p].pipe
  BY <1>1, <1>2 DEF Shape
<1>4. PICK w \in BOOLEAN : w = op[p].writable
  BY <1>2 DEF OpType
<1>5. PICK chan \in {"rsleep", "wsleep"} : chan = (IF w THEN "rsleep" ELSE "wsleep")
  OBVIOUS
<1>6. PICK e : e = (IF w THEN [pipe[pi] EXCEPT !.writeopen = FALSE] ELSE [pipe[pi] EXCEPT !.readopen = FALSE])
  OBVIOUS
<1>7. PICK pp : pp = (IF e.readopen \/ e.writeopen THEN e ELSE NoPipe)
  OBVIOUS
<1>8. PICK wo : wo = Woken(op, pi, chan)
  OBVIOUS
<1>9. /\ pipe' = [pipe EXCEPT ![pi] = pp]
      /\ op' = [wo EXCEPT ![p].at = "close", ![p].pipe = None, ![p].writable = FALSE]
  BY <1>3, <1>4, <1>5, <1>6, <1>7, <1>8, Zenon DEF pipeclose
<1> DEFINE o == [op[p] EXCEPT !.at = "close", !.pipe = None, !.writable = FALSE]
<1>10. /\ o \in OpType /\ o.at = "close" /\ o.todo = op[p].todo /\ o.pipe = None /\ o.exiting = op[p].exiting
  BY <1>2 DEF OpType, Wheres
<1>11. op' = [wo EXCEPT ![p] = o]
  <2>1. wo[p] = op[p]
    BY <1>1, <1>8, WokenIs
  <2>2. wo = [q \in Procs |-> wo[q]]
    BY <1>8 DEF Woken
  <2> QED
    BY <1>2, <1>9, <2>1, <2>2 DEF OpType
<1> HIDE DEF o
<1>12. /\ op' \in [Procs -> OpType] /\ op'[p] = o
       /\ \A q \in Procs : q # p => /\ Roused(op[q], op'[q])
                                    /\ op[q].pipe = pi => op'[q].at # chan
                                    /\ op'[q].at \in {"rsleep", "wsleep"} => op'[q] = op[q]
  <2>1. Types /\ o \in OpType /\ Wakes(p, pi, chan, o)
    BY <1>1, <1>8, <1>10, <1>11 DEF Wakes
  <2> QED
    BY <2>1, WokenBut
<1>13. IsClosing(p, pi, w) /\ EndOK(pi, w)
  BY <1>1, <1>3, <1>4 DEF IsClosing, IInv, EndsOK
<1>14. IsOpen(pi, w) /\ pipe[pi].page
  BY <1>13 DEF EndOK, IsOpen, IInv, Pages
<1>15. EndClosed(pi, w, pp)
  BY <1>1, <1>6, <1>7, <1>14, EndCloses
<1>16. /\ pipe' \in [Pipes -> PipeType] /\ pipe'[pi] = pp /\ \A x \in Pipes : x # pi => pipe'[x] = pipe[x]
  BY <1>1, <1>9, <1>15 DEF Types, EndClosed
<1>17. Types'
  BY <1>1, <1>12, <1>16 DEF IInv, Types
<1>18. Shape(op'[p], ofile[p], alive[p])
  BY <1>1, <1>2, <1>10, <1>12 DEF Shape, InPipe
<1>19. Shapes'
  BY <1>1, <1>12, <1>18, ShapesNext DEF IInv
<1>20. Refs(file', ofile', op')
  <2>1. \A q \in Procs : op'[q].todo = op[q].todo
    BY <1>10, <1>12 DEF Roused
  <2> QED
    BY <1>1, <2>1, SameRefs DEF IInv
<1>21. \A q \in Procs : q # p /\ (op[q].at = "pipeclose" \/ op'[q].at \in {"pipeclose", "pipe1", "pipe2"}) => op'[q] = op[q]
  BY <1>12 DEF Roused
<1>22. Fresh' /\ FilesOK'
  BY <1>1, <1>10, <1>12, <1>21 DEF IInv, Fresh, FreshOf, FilesOK
<1>23. EndsOK'
  <2>1. op'[p].at = "close" /\ EndClosed(pi, w, pipe'[pi]) /\ file' = file /\ EndsOK
    BY <1>1, <1>10, <1>12, <1>15, <1>16 DEF IInv
  <2>2. \A q \in Procs : q # p /\ (op[q].at = "pipeclose" \/ op'[q].at = "pipeclose") => op'[q] = op[q]
    BY <1>21
  <2> QED
    BY <1>13, <1>16, <2>1, <2>2, EndsClose
<1>24. Pages'
  <2> SUFFICES ASSUME NEW x \in Pipes
               PROVE  pipe'[x].page = (pipe'[x].readopen \/ pipe'[x].writeopen) /\ (pipe'[x].nwrite - pipe'[x].nread) % UINT <= PIPESIZE
    BY DEF Pages, Held
  <2>1. pipe[x].page = (pipe[x].readopen \/ pipe[x].writeopen) /\ (pipe[x].nwrite - pipe[x].nread) % UINT <= PIPESIZE
    BY DEF IInv, Pages, Held
  <2>2. CASE x # pi
    BY <1>16, <2>1, <2>2
  <2>3. CASE x = pi
    <3>1. (pp.nwrite - pp.nread) % UINT <= PIPESIZE
      BY <1>15, <2>1, <2>3, NoPipeIs DEF EndClosed
    <3> QED
      BY <1>15, <1>16, <2>3, <3>1 DEF EndClosed
  <2> QED
    BY <2>2, <2>3
<1>25. Linked(p)' /\ Waits(p)'
  BY <1>10, <1>12 DEF Linked, Waits, InPipe
<1>26. Links'
  BY <1>1, <1>12, <1>25, LinksNext DEF IInv
<1>27. ASSUME NEW q \in Procs, q # p, op'[q].at \in {"rsleep", "wsleep"} PROVE pipe'[op[q].pipe] = pipe[op[q].pipe]
  <2>1. op'[q] = op[q] /\ InPipe(op[q]) /\ (op[q].pipe = pi => op[q].at # chan)
    BY <1>12, <1>27 DEF InPipe
  <2>2. op[q].pipe \in Pipes
    BY <2>1 DEF IInv, Shapes, Shape
  <2>3. ASSUME op[q].pipe = pi PROVE FALSE
    <3>1. w <=> op[q].at \in {"write", "wsleep"}
      BY <1>5, <1>27, <2>1, <2>3
    <3>2. ~IsClosing(p, pi, w)
      BY <2>1, <2>3, <3>1, LinkedEnd
    <3> QED
      BY <1>13, <3>2
  <2> QED
    BY <1>16, <2>2, <2>3
<1>28. Sleepers'
  <2>1. \A q \in Procs : q # p => Roused(op[q], op'[q]) /\ (killed'[q] => killed[q])
    BY <1>1, <1>12
  <2> QED
    BY <1>25, <1>27, <2>1, SleepersNext DEF IInv
<1> QED
  BY <1>17, <1>19, <1>20, <1>22, <1>23, <1>24, <1>26, <1>28 DEF IInv

LEMMA Single ==
  ASSUME NEW S, NEW s \in Seq(S), Len(s) = 1
  PROVE  s # <<>> /\ Head(s) = s[1] /\ Tail(s) = <<>>
<1>1. s # <<>>
  OBVIOUS
<1>2. Head(s) = s[1]
  OBVIOUS
<1>3. Tail(s) \in Seq(S) /\ Len(Tail(s)) = 0
  BY <1>1
<1> QED
  BY <1>1, <1>2, <1>3, EmptySeq

\* The two files of p's call go to two free descriptors.
LEMMA GiveRefs ==
  ASSUME Types, Refs(file, ofile, op), NEW p \in Procs, NEW s \in Seq(Files), Len(s) = 2,
         NEW rf \in Files, NEW wf \in Files, rf = s[1], wf = s[2],
         op[p].todo = s, op'[p].todo = <<>>, \A q \in Procs : q # p => op'[q] = op[q],
         NEW a \in Fds, NEW b \in Fds, a # b, ofile[p][a] = None, ofile[p][b] = None,
         ofile'[p][a] = rf, ofile'[p][b] = wf, \A x \in Fds : x # a /\ x # b => ofile'[p][x] = ofile[p][x],
         \A q \in Procs : q # p => ofile'[q] = ofile[q], \A g \in Files : file'[g].ref = file[g].ref
  PROVE  Refs(file', ofile', op')
<1> SUFFICES ASSUME NEW g \in Files
             PROVE  file'[g].ref = Cardinality(DescRefs(ofile', g)) + Cardinality(CallRefs(op', g))
  BY DEF Refs
<1>1. PICK o1 : o1 = [q \in Procs |-> IF q = p THEN [todo |-> Tail(s)] ELSE op[q]]
  OBVIOUS
<1>2. PICK of1 : of1 = [q \in Procs |-> IF q = p THEN [x \in Fds |-> IF x = a THEN rf ELSE ofile[p][x]] ELSE ofile[q]]
  OBVIOUS
<1>3. PICK t : t = Tail(s)
  OBVIOUS
<1>4. t \in Seq(Files) /\ Len(t) = 1 /\ t[1] = wf
  BY <1>3
<1>5. s # <<>> /\ Len(s) <= NOFILE + 2 /\ Head(s) = rf
  BY Nones
<1>6. t # <<>> /\ Len(t) <= NOFILE + 2 /\ Head(t) = wf /\ Tail(t) = <<>>
  <2>1. t # <<>> /\ Head(t) = t[1] /\ Tail(t) = <<>>
    BY <1>4, Single
  <2>2. 1 <= NOFILE + 2
    BY Nones
  <2> QED
    BY <1>4, <2>1, <2>2
<1>7. o1[p].todo = t /\ \A q \in Procs \ {p} : o1[q].todo = op[q].todo
  BY <1>1, <1>3
<1>8. CallDropped(op, o1, rf, g)
  <2>1. o1[p].todo = Tail(s) /\ rf = Head(s)
    BY <1>3, <1>5, <1>7
  <2>2. s # <<>> /\ Len(s) <= NOFILE + 2
    BY <1>5
  <2> QED
    BY <1>7, <2>1, <2>2, CallTail
<1>9. CallDropped(o1, op', wf, g)
  <2>1. op'[p].todo = Tail(t) /\ \A q \in Procs \ {p} : op'[q].todo = o1[q].todo
    BY <1>6, <1>7
  <2> QED
    BY <1>4, <1>6, <1>7, <2>1, CallTail
<1>10. /\ of1[p][a] = rf /\ of1[p][b] = None
       /\ \A q \in Procs, x \in Fds : ~(q = p /\ x = a) => of1[q][x] = ofile[q][x]
  BY <1>2
<1>11. DescMoved(ofile, of1, p, a, g)
  BY <1>10, DescCell
<1>12. DescMoved(of1, ofile', p, b, g)
  <2>1. \A q \in Procs, x \in Fds : ~(q = p /\ x = b) => ofile'[q][x] = of1[q][x]
    BY <1>10
  <2> QED
    BY <2>1, DescCell
<1>13. PICK c1 \in Nat, c2 \in Nat, c3 \in Nat, d1 \in Nat, d2 \in Nat, d3 \in Nat :
         /\ c1 = Cardinality(CallRefs(op, g)) /\ c2 = Cardinality(CallRefs(o1, g)) /\ c3 = Cardinality(CallRefs(op', g))
         /\ d1 = Cardinality(DescRefs(ofile, g)) /\ d2 = Cardinality(DescRefs(of1, g)) /\ d3 = Cardinality(DescRefs(ofile', g))
  BY RefsFinite
<1>14. g # None
  BY Nones
<1>15. c1 = c2 + (IF rf = g THEN 1 ELSE 0) /\ c2 = c3 + (IF wf = g THEN 1 ELSE 0)
  BY <1>8, <1>9, <1>13 DEF CallDropped
<1>16. d2 = d1 + (IF rf = g THEN 1 ELSE 0) /\ d3 = d2 + (IF wf = g THEN 1 ELSE 0)
  BY <1>10, <1>11, <1>12, <1>13, <1>14 DEF DescMoved
<1>17. file[g].ref = d1 + c1
  BY <1>13 DEF Refs
<1>18. d1 + c1 = d3 + c3
  BY <1>15, <1>16
<1> QED
  BY <1>13, <1>17, <1>18

LEMMA NewPipeIs ==
  ASSUME NEW c \in PipeType, NEW pp, pp = NewPipe(c)
  PROVE  /\ pp \in PipeType /\ pp.page = TRUE /\ pp.readopen = TRUE /\ pp.writeopen = TRUE
         /\ (pp.nwrite - pp.nread) % UINT = 0 /\ pp.nread = 0 /\ pp.nwrite = 0
<1>1. UINT \in Nat \ {0} /\ 0 \in 0 .. UINT - 1 /\ 0 % UINT = 0 /\ 0 - 0 = 0
  BY NoPipeIs
<1>2. /\ pp \in PipeType /\ pp.page = TRUE /\ pp.readopen = TRUE /\ pp.writeopen = TRUE
      /\ pp.nread = 0 /\ pp.nwrite = 0
  BY <1>1 DEF NewPipe, PipeType
<1> QED
  BY <1>1, <1>2

\* Two files of no pipe become the ends of one that nobody refers to.
LEMMA EndsOpen ==
  ASSUME EndsOK, NEW p \in Procs, NEW rf \in Files, NEW wf \in Files, rf # wf, NEW pi \in Pipes,
         file[rf].type = "none", file[wf].type = "none", ~IsOpen(pi, TRUE), ~IsOpen(pi, FALSE),
         file'[rf].type = "pipe", file'[rf].pipe = pi, file'[rf].writable = FALSE,
         file'[wf].type = "pipe", file'[wf].pipe = pi, file'[wf].writable = TRUE,
         \A g \in Files : g # rf /\ g # wf => file'[g] = file[g],
         pipe'[pi].readopen, pipe'[pi].writeopen, \A x \in Pipes : x # pi => pipe'[x] = pipe[x],
         op[p].at # "pipeclose", op'[p].at # "pipeclose", \A q \in Procs : q # p => op'[q] = op[q]
  PROVE  EndsOK'
<1> SUFFICES ASSUME NEW x \in Pipes, NEW v \in BOOLEAN PROVE EndOK(x, v)'
  BY DEF EndsOK
<1>1. EndOK(x, v)
  BY DEF EndsOK
<1>2. \A q \in Procs : IsClosing(q, x, v)' <=> IsClosing(q, x, v)
  BY DEF IsClosing
<1>3. \A g \in Files : g # rf /\ g # wf => (IsEnd(g, x, v)' <=> IsEnd(g, x, v))
  BY DEF IsEnd
<1>4. ~IsEnd(rf, x, v) /\ ~IsEnd(wf, x, v)
  BY DEF IsEnd
<1>5. CASE x # pi
  <2>1. (IsOpen(x, v)' <=> IsOpen(x, v)) /\ ~IsEnd(rf, x, v)' /\ ~IsEnd(wf, x, v)'
    BY <1>5 DEF IsOpen, IsEnd
  <2> QED
    BY <1>1, <1>2, <1>3, <1>4, <2>1 DEF EndOK
<1>6. CASE x = pi
  <2>1. IsOpen(x, v)' /\ ~IsOpen(x, v)
    BY <1>6 DEF IsOpen
  <2>2. PICK f \in {rf, wf} : \A g \in Files : IsEnd(g, x, v)' <=> g = f
    <3>1. \A g \in Files : g # rf /\ g # wf => ~IsEnd(g, x, v)'
      BY <1>1, <1>3, <2>1 DEF EndOK
    <3>2. CASE v = TRUE
      <4>1. IsEnd(wf, x, v)' /\ ~IsEnd(rf, x, v)'
        BY <1>6, <3>2 DEF IsEnd
      <4> QED
        BY <3>1, <4>1
    <3>3. CASE v = FALSE
      <4>1. IsEnd(rf, x, v)' /\ ~IsEnd(wf, x, v)'
        BY <1>6, <3>3 DEF IsEnd
      <4> QED
        BY <3>1, <4>1
    <3> QED
      BY <3>2, <3>3
  <2>3. \A q \in Procs : ~IsClosing(q, x, v)'
    BY <1>1, <1>2, <2>1 DEF EndOK
  <2> QED
    BY <2>1, <2>2, <2>3 DEF EndOK
<1> QED
  BY <1>5, <1>6

\* Two descriptors for two files.
LEMMA TwoPlaced ==
  ASSUME Types, NEW p \in Procs, NEW s \in Seq(Files), Len(s) = 2, FdsLeft(p) >= 2, NEW d, d = fdalloc(p, s)
  PROVE  /\ d \in [Fds -> Files \cup {None}]
         /\ \E a \in Fds, b \in Fds : /\ a # b /\ ofile[p][a] = None /\ ofile[p][b] = None /\ d[a] = s[1] /\ d[b] = s[2]
                                      /\ \A x \in Fds : x # a /\ x # b => d[x] = ofile[p][x]
<1>1. Len(s) <= FdsLeft(p)
  BY OpenIs
<1>2. Placed(p, s, d)
  BY <1>1, fdallocIs
<1>3. PICK g \in [1 .. Len(s) -> Fds] :
        /\ \A i \in 1 .. Len(s) : ofile[p][g[i]] = None /\ d[g[i]] = s[i]
        /\ \A i, j \in 1 .. Len(s) : g[i] = g[j] => i = j
        /\ \A x \in Fds : d[x] = ofile[p][x] \/ \E i \in 1 .. Len(s) : x = g[i]
  BY <1>2 DEF Placed
<1>4. 1 \in 1 .. Len(s) /\ 2 \in 1 .. Len(s) /\ 1 # 2 /\ \A i \in 1 .. Len(s) : i = 1 \/ i = 2
  OBVIOUS
<1>5. PICK a \in Fds, b \in Fds : a = g[1] /\ b = g[2]
  BY <1>4
<1>6. a # b /\ ofile[p][a] = None /\ ofile[p][b] = None /\ d[a] = s[1] /\ d[b] = s[2]
  BY <1>3, <1>4, <1>5
<1>7. \A x \in Fds : x # a /\ x # b => d[x] = ofile[p][x]
  BY <1>3, <1>4, <1>5
<1>8. d \in [Fds -> Files \cup {None}]
  BY <1>2 DEF Placed
<1> QED
  BY <1>6, <1>7, <1>8

LEMMA PipeMadeInv ==
  ASSUME IInv, NEW p \in Procs, PipeMade(p)
  PROVE  IInv'
<1>1. PICK s : s = op[p].todo
  OBVIOUS
<1>2. op[p].at = "pipe2" /\ alive[p] /\ UNCHANGED <<alive, killed, panicked>> /\ Types
  BY DEF PipeMade, Is, IInv
<1>3. Shape(op[p], ofile[p], alive[p]) /\ FreshOf(p)
  BY DEF IInv, Shapes, Fresh
<1>4. s \in Seq(Files) /\ Len(s) = 2 /\ s[1] # s[2] /\ \A i \in 1 .. Len(s) : file[s[i]].ref = 1 /\ file[s[i]].type = "none"
  BY <1>1, <1>2, <1>3, OpIs DEF Shape, FreshOf
<1>5. PICK rf \in Files, wf \in Files : rf = s[1] /\ wf = s[2]
  <2>0. s \in Seq(Files) /\ 1 \in 1 .. Len(s) /\ 2 \in 1 .. Len(s)
    BY <1>4
  <2>1. s[1] \in Files /\ s[2] \in Files
    BY <2>0
  <2> QED
    BY <2>1
<1>6. rf # wf /\ file[rf].ref = 1 /\ file[wf].ref = 1 /\ file[rf].type = "none" /\ file[wf].type = "none"
  <2>1. 1 \in 1 .. Len(s) /\ 2 \in 1 .. Len(s)
    BY <1>4
  <2> QED
    BY <1>4, <1>5, <2>1
<1>7. PICK pi \in Pipes :
        /\ ~pipe[pi].page /\ pipe' = [pipe EXCEPT ![pi] = NewPipe(pipe[pi])]
        /\ file' = [file EXCEPT ![rf] = [ref |-> 1, type |-> "pipe", pipe |-> pi, writable |-> FALSE],
                                ![wf] = [ref |-> 1, type |-> "pipe", pipe |-> pi, writable |-> TRUE]]
        /\ \/ FdsLeft(p) >= 2 /\ ofile' = [ofile EXCEPT ![p] = fdalloc(p, s)] /\ op' = [op EXCEPT ![p] = Idle]
           \/ CloseAll(p, s) /\ UNCHANGED ofile
  BY <1>1, <1>5 DEF PipeMade, Return
<1>8. /\ file' \in [Files -> FileType]
      /\ file'[rf].ref = 1 /\ file'[rf].type = "pipe" /\ file'[rf].pipe = pi /\ file'[rf].writable = FALSE
      /\ file'[wf].ref = 1 /\ file'[wf].type = "pipe" /\ file'[wf].pipe = pi /\ file'[wf].writable = TRUE
      /\ \A g \in Files : g # rf /\ g # wf => file'[g] = file[g]
  BY <1>2, <1>6, <1>7 DEF Types, FileType
<1>9. PICK pp : pp = NewPipe(pipe[pi])
  OBVIOUS
<1>10. /\ pp \in PipeType /\ pp.page = TRUE /\ pp.readopen = TRUE /\ pp.writeopen = TRUE
       /\ (pp.nwrite - pp.nread) % UINT = 0
  <2>1. pipe[pi] \in PipeType
    BY <1>2 DEF Types
  <2> QED
    BY <1>9, <2>1, NewPipeIs
<1>11. pipe' \in [Pipes -> PipeType] /\ pipe'[pi] = pp /\ \A x \in Pipes : x # pi => pipe'[x] = pipe[x]
  BY <1>2, <1>7, <1>9, <1>10 DEF Types
<1>12. /\ op' \in [Procs -> OpType] /\ op'[p].at \in {"user", "close"} /\ \A q \in Procs : q # p => op'[q] = op[q]
       /\ ofile' \in [Procs -> [Fds -> Files \cup {None}]] /\ \A q \in Procs : q # p => ofile'[q] = ofile[q]
       /\ Shape(op'[p], ofile'[p], alive'[p]) /\ Refs(file', ofile', op')
  <2>0. \A g \in Files : file'[g].ref = file[g].ref
    BY <1>6, <1>8
  <2>1. CASE FdsLeft(p) >= 2 /\ ofile' = [ofile EXCEPT ![p] = fdalloc(p, s)] /\ op' = [op EXCEPT ![p] = Idle]
    <3>1. op' \in [Procs -> OpType] /\ op'[p] = Idle /\ \A q \in Procs : q # p => op'[q] = op[q]
      BY <2>1, IdleIs, OnlyP
    <3>2. PICK d : d = fdalloc(p, s)
      OBVIOUS
    <3>3. PICK a \in Fds, b \in Fds :
            /\ d \in [Fds -> Files \cup {None}]
            /\ a # b /\ ofile[p][a] = None /\ ofile[p][b] = None /\ d[a] = rf /\ d[b] = wf
            /\ \A x \in Fds : x # a /\ x # b => d[x] = ofile[p][x]
      BY <1>2, <1>4, <1>5, <2>1, <3>2, TwoPlaced
    <3>4. /\ ofile' \in [Procs -> [Fds -> Files \cup {None}]] /\ ofile'[p] = d
          /\ \A q \in Procs : q # p => ofile'[q] = ofile[q]
      BY <1>2, <2>1, <3>2, <3>3 DEF Types
    <3>5. Refs(file', ofile', op')
      <4>1. op'[p].todo = <<>> /\ op[p].todo = s /\ Refs(file, ofile, op) /\ s \in Seq(Files) /\ Len(s) = 2
        BY <1>1, <1>4, <3>1, IdleIs DEF IInv
      <4>2. ofile'[p][a] = rf /\ ofile'[p][b] = wf /\ \A x \in Fds : x # a /\ x # b => ofile'[p][x] = ofile[p][x]
        BY <3>3, <3>4
      <4>3. a # b /\ ofile[p][a] = None /\ ofile[p][b] = None
        BY <3>3
      <4>4. Types /\ rf = s[1] /\ wf = s[2] /\ \A q \in Procs : q # p => op'[q] = op[q]
        BY <1>2, <1>5, <3>1
      <4>5. \A q \in Procs : q # p => ofile'[q] = ofile[q]
        BY <3>4
      <4> QED
        BY <2>0, <4>1, <4>2, <4>3, <4>4, <4>5, GiveRefs
    <3>6. Shape(op'[p], ofile'[p], alive'[p])
      <4>1. Len(<<>>) = 0 /\ 0 <= NOFILE + 2
        BY Nones
      <4> QED
        BY <1>2, <3>1, <4>1, IdleIs DEF Shape, InPipe
    <3> QED
      BY <3>1, <3>4, <3>5, <3>6, IdleIs
  <2>2. CASE CloseAll(p, s) /\ UNCHANGED ofile
    <3> DEFINE o == [Idle EXCEPT !.at = "close", !.todo = s]
    <3>1. op' = [op EXCEPT ![p] = o]
      BY <2>2 DEF CloseAll
    <3>2. o \in OpType /\ o.at = "close" /\ o.pipe = None /\ o.todo = s /\ o.exiting = FALSE
      BY <1>4, IdleIs DEF OpType, Idle, Wheres
    <3> HIDE DEF o
    <3>3. op' \in [Procs -> OpType] /\ op'[p] = o /\ \A q \in Procs : q # p => op'[q] = op[q]
      BY <3>1, <3>2, OnlyP
    <3>4. Shape(op'[p], ofile'[p], alive'[p])
      <4>1. Len(s) <= NOFILE + 2
        BY <1>4, Nones
      <4> QED
        BY <1>2, <3>2, <3>3, <4>1 DEF Shape, InPipe
    <3>5. Refs(file', ofile', op')
      <4>1. \A q \in Procs : op'[q].todo = op[q].todo
        BY <1>1, <3>2, <3>3
      <4> QED
        BY <2>0, <2>2, <4>1, SameRefs DEF IInv
    <3>6. ofile' \in [Procs -> [Fds -> Files \cup {None}]] /\ \A q \in Procs : q # p => ofile'[q] = ofile[q]
      BY <1>2, <2>2 DEF Types
    <3> QED
      BY <3>2, <3>3, <3>4, <3>5, <3>6
  <2> QED
    BY <1>7, <2>1, <2>2
<1>13. \A q \in Procs : q # p => Roused(op[q], op'[q])
  BY <1>12 DEF Roused
<1>14. Types'
  BY <1>2, <1>8, <1>11, <1>12 DEF Types
<1>15. Shapes'
  BY <1>2, <1>12, <1>13, ShapesNext DEF IInv
<1>16. Fresh'
  <2>1. \A g \in Files : file'[g] = file[g] \/ Reached(p, g)
    <3>1. 1 \in 1 .. NOFILE + 2 /\ 2 \in 1 .. NOFILE + 2 /\ DOMAIN s = 1 .. 2
      BY <1>4, Nones
    <3>2. Todo(op, p, 1, rf) /\ Todo(op, p, 2, wf)
      BY <1>1, <1>5, <3>1 DEF Todo
    <3>3. Reached(p, rf) /\ Reached(p, wf)
      BY <3>1, <3>2 DEF Reached
    <3> QED
      BY <1>8, <3>3
  <2>2. FreshOf(p)'
    BY <1>12 DEF FreshOf
  <2> QED
    BY <1>2, <1>12, <2>1, <2>2, FreshNext DEF IInv
<1>17. FilesOK'
  BY <1>8 DEF IInv, FilesOK
<1>18. ~IsOpen(pi, TRUE) /\ ~IsOpen(pi, FALSE)
  BY <1>7 DEF IInv, Pages, IsOpen
<1>19. EndsOK'
  <2>1. pipe'[pi].readopen /\ pipe'[pi].writeopen
    BY <1>10, <1>11
  <2>2. op[p].at # "pipeclose" /\ op'[p].at # "pipeclose" /\ EndsOK
    BY <1>2, <1>12 DEF IInv
  <2> QED
    BY <1>6, <1>8, <1>11, <1>12, <1>18, <2>1, <2>2, EndsOpen
<1>20. Pages'
  <2> SUFFICES ASSUME NEW x \in Pipes
               PROVE  pipe'[x].page = (pipe'[x].readopen \/ pipe'[x].writeopen) /\ (pipe'[x].nwrite - pipe'[x].nread) % UINT <= PIPESIZE
    BY DEF Pages, Held
  <2>1. pipe[x].page = (pipe[x].readopen \/ pipe[x].writeopen) /\ (pipe[x].nwrite - pipe[x].nread) % UINT <= PIPESIZE
    BY DEF IInv, Pages, Held
  <2>2. 0 <= PIPESIZE
    BY NoPipeIs
  <2> QED
    BY <1>10, <1>11, <2>1, <2>2
<1>21. Linked(p)' /\ Waits(p)'
  BY <1>12 DEF Linked, Waits, InPipe
<1>22. Links'
  <2>1. \A q \in Procs, fd \in Fds : ofile[q][fd] \in Files /\ file[ofile[q][fd]].type = "pipe" =>
            file'[ofile[q][fd]] = file[ofile[q][fd]]
    BY <1>6, <1>8
  <2> QED
    BY <1>12, <1>13, <1>21, <2>1, LinksNext DEF IInv
<1>23. ASSUME NEW q \in Procs, q # p, op'[q].at \in {"rsleep", "wsleep"} PROVE pipe'[op[q].pipe] = pipe[op[q].pipe]
  <2>1. InPipe(op[q]) /\ op[q].pipe \in Pipes
    BY <1>12, <1>23 DEF InPipe, IInv, Shapes, Shape
  <2>2. op[q].pipe # pi
    <3>1. CASE op[q].at \in {"write", "wsleep"}
      BY <1>18, <2>1, <3>1, LinkedEnd
    <3>2. CASE op[q].at \notin {"write", "wsleep"}
      BY <1>18, <2>1, <3>2, LinkedEnd
    <3> QED
      BY <3>1, <3>2
  <2> QED
    BY <1>11, <2>1, <2>2
<1>24. Sleepers'
  BY <1>2, <1>13, <1>21, <1>23, SleepersNext DEF IInv
<1> QED
  BY <1>12, <1>14, <1>15, <1>16, <1>17, <1>19, <1>20, <1>22, <1>24 DEF IInv

-----------------------------------------------------------------------------
(* Reading and writing.                                                    *)

\* An index that moves on by k, and how far the other is.
LEMMA PushDistance ==
  ASSUME NEW max \in Nat \ {0}, NEW from \in 0 .. max - 1, NEW to \in 0 .. max - 1, NEW k \in Nat,
         NEW d, d = Distance(from, to, max), d + k < max, NEW ton, ton = Ahead(to, k, max)
  PROVE  ton \in 0 .. max - 1 /\ Distance(from, ton, max) = d + k
<1>1. d = IF to >= from THEN to - from ELSE to - from + max
  BY DistanceIs
<1>2. k \in 0 .. max
  BY <1>1
<1>3. ton \in 0 .. max - 1 /\ ton = IF to + k < max THEN to + k ELSE to + k - max
  BY <1>2, StepIs DEF Ahead
<1>4. Distance(from, ton, max) = IF ton >= from THEN ton - from ELSE ton - from + max
  BY <1>3, DistanceIs
<1>5. Distance(from, ton, max) = d + k
  BY <1>1, <1>2, <1>3, <1>4
<1> QED
  BY <1>3, <1>5

\* The bytes of s from the slot of the index to on.
Puts(b, size, to, s) ==
  [i \in 0 .. size - 1 |->
     IF \E j \in DOMAIN s : (to + j - 1) % size = i
     THEN s[CHOOSE j \in DOMAIN s : (to + j - 1) % size = i] ELSE b[i]]

Written(b, bn, size, to, s) ==
  /\ \A m \in 1 .. Len(s) : bn[(to + m - 1) % size] = s[m]
  /\ \A i \in 0 .. size - 1 : (\A j \in 1 .. Len(s) : (to + j - 1) % size # i) => bn[i] = b[i]

LEMMA PutsIs ==
  ASSUME NEW size \in Nat \ {0}, NEW S, NEW b \in [0 .. size - 1 -> S], NEW to \in Nat, NEW s \in Seq(S), Len(s) <= size,
         NEW bn, bn = Puts(b, size, to, s)
  PROVE  bn \in [0 .. size - 1 -> S] /\ Written(b, bn, size, to, s)
<1>0. DOMAIN s = 1 .. Len(s) /\ Len(s) \in Nat
  OBVIOUS
<1>1. bn = [i \in 0 .. size - 1 |->
              IF \E j \in 1 .. Len(s) : (to + j - 1) % size = i
              THEN s[CHOOSE j \in 1 .. Len(s) : (to + j - 1) % size = i] ELSE b[i]]
  BY <1>0 DEF Puts
<1>2. ASSUME NEW m \in 1 .. Len(s), NEW j \in 1 .. Len(s), (to + j - 1) % size = (to + m - 1) % size PROVE j = m
  <2>1. PICK x \in Int, y \in Int : x = to + j - 1 /\ y = to + m - 1
    BY <1>0
  <2>2. x - y < size /\ y - x < size /\ x % size = y % size
    BY <1>0, <1>2, <2>1
  <2>3. x = y
    BY <2>2, ModInjective
  <2> QED
    BY <1>0, <2>1, <2>3
<1>3. ASSUME NEW m \in 1 .. Len(s) PROVE (to + m - 1) % size \in 0 .. size - 1 /\ bn[(to + m - 1) % size] = s[m]
  <2>1. to + m - 1 \in Int
    BY <1>0
  <2>2. PICK i \in 0 .. size - 1 : i = (to + m - 1) % size
    BY <2>1, ModRange
  <2>3. (CHOOSE j \in 1 .. Len(s) : (to + j - 1) % size = i) = m
    BY <1>2, <2>2
  <2>4. \E j \in 1 .. Len(s) : (to + j - 1) % size = i
    BY <2>2
  <2>5. bn[i] = s[CHOOSE j \in 1 .. Len(s) : (to + j - 1) % size = i]
    BY <1>1, <2>4
  <2> QED
    BY <2>2, <2>3, <2>5
<1>4. ASSUME NEW i \in 0 .. size - 1, \A j \in 1 .. Len(s) : (to + j - 1) % size # i PROVE bn[i] = b[i]
  BY <1>1, <1>4
<1>5. bn \in [0 .. size - 1 -> S]
  <2> SUFFICES ASSUME NEW i \in 0 .. size - 1 PROVE bn[i] \in S
    BY <1>1
  <2>1. CASE \A j \in 1 .. Len(s) : (to + j - 1) % size # i
    BY <1>4, <2>1
  <2>2. CASE \E j \in 1 .. Len(s) : (to + j - 1) % size = i
    <3>1. PICK j \in 1 .. Len(s) : (to + j - 1) % size = i
      BY <2>2
    <3>2. bn[i] = s[j]
      BY <1>3, <3>1
    <3> QED
      BY <1>0, <3>2
  <2> QED
    BY <2>1, <2>2
<1> QED
  BY <1>3, <1>4, <1>5 DEF Written

\* The bytes of s behind the last one.
LEMMA PutSeq ==
  ASSUME NEW size, NEW max, Ring(size, max), NEW S, NEW b, Holds(b, size, S),
         NEW from \in 0 .. max - 1, NEW to \in 0 .. max - 1, NEW v \in Seq(S),
         NEW d, d = Distance(from, to, max), d + Len(v) <= size,
         NEW bn, bn = Puts(b, size, to, v), NEW ton, ton = Ahead(to, Len(v), max)
  PROVE  Between(bn, size, max, from, ton) = Between(b, size, max, from, to) \o v
<1> b \in [0 .. size - 1 -> S]
  BY DEF Holds
<1>1. max \in Nat \ {0} /\ size \in Nat \ {0} /\ size < max
  BY DEF Ring
<1>2. d \in 0 .. max - 1
  BY <1>1, DistanceType
<1>3. PICK k \in Nat : k = Len(v)
  OBVIOUS
<1>4. d \in Nat /\ d + k <= size /\ d + k < max /\ k <= size /\ to \in Nat /\ from \in Nat
  BY <1>1, <1>2, <1>3
<1>5. ton \in 0 .. max - 1 /\ Distance(from, ton, max) = d + k
  BY <1>1, <1>3, <1>4, PushDistance
<1>6. /\ bn \in [0 .. size - 1 -> S]
      /\ \A m \in 1 .. k : bn[(to + m - 1) % size] = v[m]
      /\ \A i \in 0 .. size - 1 : (\A j \in 1 .. k : (to + j - 1) % size # i) => bn[i] = b[i]
  <2>1. bn \in [0 .. size - 1 -> S] /\ Written(b, bn, size, to, v)
    <3>1. size \in Nat \ {0} /\ to \in Nat /\ Len(v) <= size
      BY <1>1, <1>3, <1>4
    <3> QED
      BY <3>1, PutsIs
  <2> QED
    BY <1>3, <2>1 DEF Written
<1>7. ASSUME NEW m \in 1 .. k PROVE (to + m - 1) % size = (from + d + m - 1) % size
  <2>1. PICK j \in Nat : j = m - 1
    OBVIOUS
  <2>2. to = (from + d) % max
    BY LastSlot
  <2>3. (((from + d) % max) + j) % size = (from + d + j) % size
    <3>1. d \in 0 .. max
      BY <1>1, <1>2
    <3>2. \A i \in 0 .. max - 1, u \in 0 .. max, l \in Nat : (((i + u) % max) + l) % size = (i + u + l) % size
      BY SlotWrap
    <3> QED
      BY <3>1, <3>2
  <2>4. to + m - 1 = to + j /\ from + d + m - 1 = from + d + j
    BY <1>4, <2>1
  <2> QED
    BY <2>2, <2>3, <2>4
<1> DEFINE s == Between(b, size, max, from, to)
           s2 == Between(bn, size, max, from, ton)
<1>8. s \in Seq(S) /\ Len(s) = d /\ \A i \in 1 .. d : s[i] = b[(from + i - 1) % size]
  <2>1. Between(b, size, max, from, to) \in Seq(S)
    BY BetweenSeq
  <2>2. Len(Between(b, size, max, from, to)) = d
    BY <1>1, BetweenLen
  <2>3. \A i \in 1 .. d : Between(b, size, max, from, to)[i] = b[(from + i - 1) % size]
    BY DEF Between
  <2> QED
    BY <2>1, <2>2, <2>3
<1>9. s2 \in Seq(S) /\ Len(s2) = d + k /\ \A i \in 1 .. d + k : s2[i] = bn[(from + i - 1) % size]
  <2>1. Between(bn, size, max, from, ton) \in Seq(S)
    BY <1>5, <1>6, BetweenSeq
  <2>2. Len(Between(bn, size, max, from, ton)) = d + k
    <3>1. Len(Between(bn, size, max, from, ton)) = Distance(from, ton, max)
      BY <1>1, <1>5, BetweenLen
    <3> QED
      BY <1>5, <3>1
  <2>3. \A i \in 1 .. d + k : Between(bn, size, max, from, ton)[i] = bn[(from + i - 1) % size]
    BY <1>5 DEF Between
  <2> QED
    BY <2>1, <2>2, <2>3
<1> HIDE DEF s, s2
<1>10. ASSUME NEW i \in 1 .. d PROVE s2[i] = s[i]
  <2>1. PICK x \in Int : x = from + i - 1
    BY <1>4
  <2>2. x % size \in 0 .. size - 1
    BY <1>1, ModRange
  <2>3. ASSUME NEW j \in 1 .. k PROVE (to + j - 1) % size # x % size
    <3>1. PICK y \in Int : y = from + d + j - 1
      BY <1>4
    <3>2. x # y /\ x - y < size /\ y - x < size
      <4>1. PICK z \in Int : z = d + j - i
        BY <1>4
      <4>2. y = x + z
        BY <1>4, <2>1, <3>1, <4>1
      <4>3. z >= 1 /\ z < size
        <5>1. i \in Int /\ i <= d /\ j \in Int /\ j >= 1 /\ i >= 1 /\ j <= k /\ size \in Int
          BY <1>1, <1>4
        <5> QED
          BY <1>4, <4>1, <5>1
      <4>4. size \in Int
        BY <1>1
      <4> QED
        BY <4>2, <4>3, <4>4
    <3>3. x % size # y % size
      BY <1>1, <3>2, ModInjective
    <3> QED
      BY <1>7, <3>1, <3>3
  <2>4. bn[x % size] = b[x % size]
    BY <1>6, <2>2, <2>3
  <2>5. i \in 1 .. d + k
    BY <1>4
  <2> QED
    BY <1>8, <1>9, <2>1, <2>4, <2>5
<1>11. ASSUME NEW i \in d + 1 .. d + k PROVE s2[i] = v[i - d]
  <2>1. PICK m \in 1 .. k : m = i - d
    BY <1>4
  <2>2. i \in 1 .. d + k /\ from + i - 1 = from + d + m - 1
    BY <1>4, <2>1
  <2>3. s2[i] = bn[(from + d + m - 1) % size]
    BY <1>9, <2>2
  <2>4. (to + m - 1) % size = (from + d + m - 1) % size /\ bn[(to + m - 1) % size] = v[m]
    BY <1>6, <1>7
  <2> QED
    BY <2>1, <2>3, <2>4
<1>12. s2 = s \o v
  <2> DEFINE t == s \o v
  <2>1. /\ t \in Seq(S) /\ Len(t) = Len(s) + Len(v)
        /\ \A i \in 1 .. Len(s) + Len(v) : t[i] = IF i <= Len(s) THEN s[i] ELSE v[i - Len(s)]
    BY <1>8, ConcatProperties
  <2> HIDE DEF t
  <2>2. Len(t) = d + k /\ \A i \in 1 .. d + k : t[i] = IF i <= d THEN s[i] ELSE v[i - d]
    BY <1>3, <1>8, <2>1
  <2>3. ASSUME NEW i \in 1 .. d + k PROVE s2[i] = t[i]
    <3>1. CASE i <= d
      <4>1. i \in 1 .. d
        BY <1>4, <3>1
      <4> QED
        BY <1>10, <2>2, <3>1, <4>1
    <3>2. CASE ~(i <= d)
      <4>1. i \in d + 1 .. d + k
        BY <1>4, <3>2
      <4> QED
        BY <1>11, <2>2, <3>2, <4>1
    <3> QED
      BY <3>1, <3>2
  <2>4. s2 = t
    BY <1>9, <2>1, <2>2, <2>3, SeqEqual
  <2> QED
    BY <2>4 DEF t
<1> QED
  BY <1>12 DEF s, s2

HeldBy(pp) == Distance(pp.nread, pp.nwrite, UINT)

LEMMA HeldByIs ==
  ASSUME NEW pp \in PipeType
  PROVE  /\ HeldBy(pp) \in 0 .. UINT - 1 /\ pp.nread \in 0 .. UINT - 1 /\ pp.nwrite \in 0 .. UINT - 1
         /\ pp.nwrite = pp.nread <=> HeldBy(pp) = 0
         /\ pp.nwrite = (pp.nread + PIPESIZE) % UINT <=> HeldBy(pp) = PIPESIZE
<1>1. PICK r \in 0 .. UINT - 1, w \in 0 .. UINT - 1 : r = pp.nread /\ w = pp.nwrite
  BY DEF PipeType
<1>2. UINT \in Nat \ {0} /\ PIPESIZE \in 0 .. UINT /\ PIPESIZE < UINT /\ PIPESIZE \in Nat
  BY PipeAssumption, Rings
<1>3. PICK d : d = Distance(r, w, UINT)
  OBVIOUS
<1>4. d \in 0 .. UINT - 1 /\ (d = 0 <=> r = w)
  BY <1>2, <1>3, DistanceType
<1>5. d = IF w >= r THEN w - r ELSE w - r + UINT
  BY <1>2, <1>3, DistanceIs
<1>6. PICK x \in 0 .. UINT - 1 : x = (r + PIPESIZE) % UINT /\ x = IF r + PIPESIZE < UINT THEN r + PIPESIZE ELSE r + PIPESIZE - UINT
  BY <1>2, StepIs
<1>7. w = x <=> d = PIPESIZE
  BY <1>2, <1>5, <1>6
<1> QED
  BY <1>1, <1>3, <1>4, <1>6, <1>7 DEF HeldBy

LEMMA HeldIs ==
  ASSUME IInv, NEW pi \in Pipes
  PROVE  /\ pipe[pi] \in PipeType /\ Held(pi) = HeldBy(pipe[pi]) /\ Held(pi) \in 0 .. PIPESIZE
         /\ Full(pi) <=> Held(pi) = PIPESIZE
         /\ Empty(pi) <=> Held(pi) = 0
<1>1. pipe[pi] \in PipeType /\ Held(pi) <= PIPESIZE
  BY DEF IInv, Types, Pages
<1>2. Held(pi) = HeldBy(pipe[pi])
  BY DEF Held, HeldBy, Distance
<1>3. HeldBy(pipe[pi]) \in 0 .. UINT - 1
  BY <1>1, HeldByIs
<1>4. Held(pi) \in 0 .. PIPESIZE
  BY <1>1, <1>2, <1>3, NoPipeIs
<1>5. /\ pipe[pi].nwrite = pipe[pi].nread <=> HeldBy(pipe[pi]) = 0
      /\ pipe[pi].nwrite = (pipe[pi].nread + PIPESIZE) % UINT <=> HeldBy(pipe[pi]) = PIPESIZE
  BY <1>1, HeldByIs
<1> QED
  BY <1>1, <1>2, <1>4, <1>5 DEF Full, Empty

\* What a read or a write leaves alone.
SameOpen(pp, pn) == pn.page = pp.page /\ pn.readopen = pp.readopen /\ pn.writeopen = pp.writeopen

Taken(pp, k) == [pp EXCEPT !.nread = (@ + k) % UINT]

LEMMA ReadIs ==
  ASSUME NEW pp \in PipeType, NEW h, h = HeldBy(pp), NEW k \in 0 .. h, NEW pn, pn = Taken(pp, k)
  PROVE  /\ pn \in PipeType /\ SameOpen(pp, pn) /\ HeldBy(pn) = h - k
         /\ pn.data = pp.data /\ pn.nwrite = pp.nwrite /\ pn.nread = Ahead(pp.nread, k, UINT)
<1>1. PICK r \in 0 .. UINT - 1, w \in 0 .. UINT - 1 : r = pp.nread /\ w = pp.nwrite
  BY DEF PipeType
<1>2. PICK x : x = (r + k) % UINT
  OBVIOUS
<1>3. x \in 0 .. UINT - 1 /\ Distance(x, w, UINT) = h - k
  <2>1. k \in 0 .. Distance(r, w, UINT) /\ h = Distance(r, w, UINT) /\ UINT \in Nat \ {0}
    BY <1>1, Rings DEF HeldBy
  <2>2. (r + k) % UINT \in 0 .. UINT - 1 /\ Distance((r + k) % UINT, w, UINT) = Distance(r, w, UINT) - k
    BY <2>1, DropDistance
  <2> QED
    BY <1>2, <2>1, <2>2
<1>4. pn = [pp EXCEPT !.nread = x]
  BY <1>1, <1>2 DEF Taken
<1>5. /\ pn \in PipeType /\ pn.page = pp.page /\ pn.readopen = pp.readopen /\ pn.writeopen = pp.writeopen
      /\ pn.data = pp.data /\ pn.nwrite = w /\ pn.nread = x
  BY <1>1, <1>3, <1>4 DEF PipeType
<1> QED
  BY <1>1, <1>2, <1>3, <1>5 DEF SameOpen, HeldBy, Ahead

LEMMA WriteIs ==
  ASSUME NEW pp \in PipeType, NEW h, h = HeldBy(pp), NEW s \in Seq(Bytes), NEW k \in Nat, k = Len(s), h + k <= PIPESIZE,
         NEW pn, pn = Put(pp, s)
  PROVE  /\ pn \in PipeType /\ SameOpen(pp, pn) /\ HeldBy(pn) = h + k
         /\ pn.data = Puts(pp.data, PIPESIZE, pp.nwrite, s) /\ pn.nwrite = Ahead(pp.nwrite, k, UINT) /\ pn.nread = pp.nread
<1>1. PICK r \in 0 .. UINT - 1, w \in 0 .. UINT - 1 : r = pp.nread /\ w = pp.nwrite
  BY DEF PipeType
<1>2. PICK x : x = Ahead(w, k, UINT)
  OBVIOUS
<1>3. PICK b : b = Puts(pp.data, PIPESIZE, w, s)
  OBVIOUS
<1>4. /\ UINT \in Nat \ {0} /\ PIPESIZE \in Nat \ {0} /\ PIPESIZE < UINT /\ h = Distance(r, w, UINT) /\ h \in Nat
  <2>1. h \in 0 .. UINT - 1
    BY HeldByIs
  <2> QED
    BY <1>1, <2>1, PipeAssumption, Rings DEF HeldBy
<1>5. x \in 0 .. UINT - 1 /\ Distance(r, x, UINT) = h + k
  <2>1. h + k < UINT /\ h = Distance(r, w, UINT) /\ UINT \in Nat \ {0}
    BY <1>4
  <2> QED
    BY <1>2, <2>1, PushDistance
<1>6. b \in [0 .. PIPESIZE - 1 -> Bytes]
  <2>1. pp.data \in [0 .. PIPESIZE - 1 -> Bytes] /\ w \in Nat /\ Len(s) <= PIPESIZE /\ PIPESIZE \in Nat \ {0}
    BY <1>4 DEF PipeType
  <2> QED
    BY <1>3, <2>1, PutsIs
<1>7. pn = [pp EXCEPT !.nwrite = x, !.data = b]
  BY <1>1, <1>2, <1>3 DEF Put, Puts, Ahead, PipeType
<1>8. /\ pn \in PipeType /\ pn.page = pp.page /\ pn.readopen = pp.readopen /\ pn.writeopen = pp.writeopen
      /\ pn.data = b /\ pn.nwrite = x /\ pn.nread = r
  BY <1>1, <1>5, <1>6, <1>7 DEF PipeType
<1> QED
  BY <1>1, <1>2, <1>3, <1>5, <1>8 DEF SameOpen, HeldBy

\* Nothing is written.
LEMMA WriteNone ==
  ASSUME NEW pp \in PipeType, NEW s \in Seq(Bytes), Len(s) = 0
  PROVE  Put(pp, s) = pp
<1>1. PICK w \in 0 .. UINT - 1 : w = pp.nwrite
  BY DEF PipeType
<1>2. (w + 0) % UINT = w
  <2>1. w + 0 = w /\ UINT \in Nat \ {0}
    BY Rings
  <2> QED
    BY <2>1, ModSmall
<1>3. PICK b \in [0 .. PIPESIZE - 1 -> Bytes] : b = pp.data
  BY DEF PipeType
<1>4. DOMAIN s = {}
  OBVIOUS
<1>5. Put(pp, s) = [pp EXCEPT !.nwrite = w, !.data = [i \in 0 .. PIPESIZE - 1 |-> b[i]]]
  BY <1>1, <1>2, <1>3, <1>4 DEF Put, PipeType
<1>6. [i \in 0 .. PIPESIZE - 1 |-> b[i]] = b
  OBVIOUS
<1> QED
  BY <1>1, <1>3, <1>5, <1>6 DEF PipeType

LEMMA OnePipe ==
  ASSUME IInv, NEW pi \in Pipes, NEW pn \in PipeType, pipe' = [pipe EXCEPT ![pi] = pn],
         SameOpen(pipe[pi], pn), HeldBy(pn) <= PIPESIZE
  PROVE  /\ pipe' \in [Pipes -> PipeType] /\ pipe'[pi] = pn /\ \A x \in Pipes : x # pi => pipe'[x] = pipe[x]
         /\ \A x \in Pipes : /\ pipe'[x].readopen = pipe[x].readopen /\ pipe'[x].writeopen = pipe[x].writeopen
                             /\ pipe'[x].page = pipe[x].page /\ Held(x)' <= PIPESIZE
<1>1. pipe' \in [Pipes -> PipeType] /\ pipe'[pi] = pn /\ \A x \in Pipes : x # pi => pipe'[x] = pipe[x]
  BY DEF IInv, Types
<1>2. ASSUME NEW x \in Pipes
      PROVE  /\ pipe'[x].readopen = pipe[x].readopen /\ pipe'[x].writeopen = pipe[x].writeopen
             /\ pipe'[x].page = pipe[x].page
  BY <1>1 DEF SameOpen
<1>3. ASSUME NEW x \in Pipes PROVE Held(x)' <= PIPESIZE
  <2>1. Held(x) <= PIPESIZE
    BY DEF IInv, Pages
  <2>2. CASE x = pi
    BY <1>1, <2>2 DEF Held, HeldBy, Distance
  <2>3. CASE x # pi
    BY <1>1, <2>1, <2>3 DEF Held
  <2> QED
    BY <2>2, <2>3
<1> QED
  BY <1>1, <1>2, <1>3

\* p returns from a read or a write.
LEMMA Returns ==
  ASSUME IInv, NEW p \in Procs, InPipe(op[p]), UNCHANGED <<alive, killed, ofile, file, panicked>>,
         op' \in [Procs -> OpType], op'[p] = Idle,
         \A q \in Procs : q # p => Roused(op[q], op'[q]),
         pipe' \in [Pipes -> PipeType],
         \A pi \in Pipes : /\ pipe'[pi].readopen = pipe[pi].readopen /\ pipe'[pi].writeopen = pipe[pi].writeopen
                           /\ pipe'[pi].page = pipe[pi].page /\ Held(pi)' <= PIPESIZE,
         \A q \in Procs : q # p /\ op'[q].at \in {"rsleep", "wsleep"} => pipe'[op[q].pipe] = pipe[op[q].pipe]
  PROVE  IInv'
<1>1. Shape(op[p], ofile[p], alive[p])
  BY DEF IInv, Shapes
<1>2. op[p].todo = <<>> /\ op[p].at \in {"read", "rsleep", "write", "wsleep"} /\ alive[p]
  BY <1>1 DEF Shape, InPipe
<1>3. Len(<<>>) = 0 /\ 0 <= NOFILE + 2
  BY Nones
<1>4. Shape(op'[p], ofile[p], alive[p])
  BY <1>2, <1>3, IdleIs DEF Shape, InPipe
<1>5. Linked(p)' /\ Waits(p)'
  BY IdleIs DEF Linked, Waits, InPipe
<1>6. op'[p].todo = op[p].todo /\ ~(op[p].at = "pipeclose" \/ op'[p].at \in {"pipeclose", "pipe1", "pipe2"})
  BY <1>2, IdleIs
<1>7. killed' \in [Procs -> BOOLEAN] /\ \A q \in Procs : killed'[q] => killed[q]
  BY DEF IInv, Types
<1> QED
  BY <1>4, <1>5, <1>6, <1>7, CallStep

LEMMA InPipeIs ==
  ASSUME IInv, NEW p \in Procs, op[p].at \in {"read", "rsleep", "write", "wsleep"}
  PROVE  InPipe(op[p]) /\ op[p].pipe \in Pipes /\ op[p].todo = <<>> /\ op[p] \in OpType /\ Types
<1>1. InPipe(op[p]) /\ Shape(op[p], ofile[p], alive[p]) /\ Types
  BY DEF IInv, Shapes, InPipe
<1> QED
  BY <1>1, OpIs DEF Shape

\* p falls asleep in its call, or goes on in it.
LEMMA StaysLinked ==
  ASSUME IInv, NEW p \in Procs, InPipe(op[p]), NEW o \in OpType, op'[p] = o, UNCHANGED <<ofile, file>>,
         o.pipe = op[p].pipe, o.todo = op[p].todo, o.exiting = op[p].exiting,
         \/ o.at \in {"read", "rsleep"} /\ op[p].at \in {"read", "rsleep"}
         \/ o.at \in {"write", "wsleep"} /\ op[p].at \in {"write", "wsleep"}
  PROVE  Linked(p)' /\ Shape(op'[p], ofile[p], alive[p])
<1>1. Shape(op[p], ofile[p], alive[p])
  BY DEF IInv, Shapes
<1>2. Shape(op'[p], ofile[p], alive[p])
  BY <1>1 DEF Shape, InPipe
<1>3. PICK fd \in Fds : ofile[p][fd] \in Files /\ IsEnd(ofile[p][fd], op[p].pipe, op[p].at \in {"write", "wsleep"})
  BY DEF IInv, Links, Linked
<1>4. (op'[p].at \in {"write", "wsleep"}) = (op[p].at \in {"write", "wsleep"})
  OBVIOUS
<1>5. Linked(p)'
  BY <1>3, <1>4 DEF Linked, IsEnd
<1> QED
  BY <1>2, <1>5

LEMMA MinIs ==
  ASSUME NEW m \in Nat, NEW n \in Nat
  PROVE  Min({m, n}) \in {m, n} /\ Min({m, n}) <= m /\ Min({m, n}) <= n
<1>1. {m, n} \in SUBSET Nat /\ {m, n} # {}
  OBVIOUS
<1>2. Min({m, n}) \in {m, n} /\ \A y \in {m, n} : Min({m, n}) <= y
  BY <1>1, Least
<1> QED
  BY <1>2

\* The bytes that a read takes.
LEMMA ReadMost ==
  ASSUME IInv, NEW p \in Procs, NEW pi \in Pipes, NEW k \in Min({1, Min({op[p].n, Held(pi)})}) .. Min({op[p].n, Held(pi)})
  PROVE  k \in 0 .. Held(pi) /\ (op[p].n # 0 /\ Held(pi) # 0 => k # 0)
<1>1. PICK n \in Nat : n = op[p].n
  BY OpIs DEF IInv
<1>2. PICK h \in Nat : h = Held(pi)
  BY HeldIs, NoPipeIs
<1>3. PICK m : m = Min({n, h})
  OBVIOUS
<1>4. m \in {n, h} /\ m <= n /\ m <= h
  BY <1>3, MinIs
<1>5. m \in Nat
  BY <1>4
<1>6. PICK l : l = Min({1, m})
  OBVIOUS
<1>7. l \in {1, m} /\ l <= 1 /\ l <= m
  BY <1>5, <1>6, MinIs
<1>8. k \in l .. m
  BY <1>1, <1>2, <1>3, <1>6
<1>9. k \in 0 .. h /\ (n # 0 /\ h # 0 => k # 0)
  BY <1>4, <1>5, <1>7, <1>8
<1> QED
  BY <1>1, <1>2, <1>9

LEMMA pipereadInv ==
  ASSUME IInv, NEW p \in Procs, piperead(p)
  PROVE  IInv'
<1>1. op[p].at = "read" /\ alive[p] /\ UNCHANGED <<alive, killed, ofile, file, panicked>>
  BY DEF piperead, Is
<1>2. InPipe(op[p]) /\ op[p].pipe \in Pipes /\ op[p].todo = <<>> /\ op[p] \in OpType /\ Types
  BY <1>1, InPipeIs
<1>3. PICK pi \in Pipes : pi = op[p].pipe
  BY <1>2
<1>4. CASE Empty(pi) /\ pipe[pi].writeopen
  <2>0. /\ pipe' \in [Pipes -> PipeType]
        /\ \A x \in Pipes : /\ pipe'[x].readopen = pipe[x].readopen /\ pipe'[x].writeopen = pipe[x].writeopen
                            /\ pipe'[x].page = pipe[x].page /\ Held(x)' <= PIPESIZE
    <3>1. pipe' = pipe
      BY <1>3, <1>4 DEF piperead
    <3> QED
      BY <3>1, SamePipes
  <2>1. CASE killed[p]
    <3>1. op' = [op EXCEPT ![p] = Idle] /\ pipe' = pipe
      BY <1>3, <1>4, <2>1 DEF piperead, Return
    <3>2. op' \in [Procs -> OpType] /\ op'[p] = Idle /\ \A q \in Procs : q # p => op'[q] = op[q] /\ Roused(op[q], op'[q])
      BY <3>1, IdleIs, OnlyP
    <3> QED
      BY <1>1, <1>2, <2>0, <3>1, <3>2, Returns
  <2>2. CASE ~killed[p]
    <3>1. op' = [op EXCEPT ![p].at = "rsleep"] /\ pipe' = pipe
      BY <1>3, <1>4, <2>2 DEF piperead, Goto
    <3> DEFINE o == [op[p] EXCEPT !.at = "rsleep"]
    <3>2. op' = [op EXCEPT ![p] = o]
      BY <3>1
    <3>3. o \in OpType /\ o.at = "rsleep" /\ o.todo = op[p].todo /\ o.pipe = op[p].pipe /\ o.exiting = op[p].exiting
      BY <1>2 DEF OpType, Wheres
    <3> HIDE DEF o
    <3>4. op' \in [Procs -> OpType] /\ op'[p] = o /\ \A q \in Procs : q # p => op'[q] = op[q] /\ Roused(op[q], op'[q])
      BY <3>2, <3>3, OnlyP
    <3>5. Linked(p)' /\ Shape(op'[p], ofile[p], alive[p])
      BY <1>1, <1>2, <3>3, <3>4, StaysLinked
    <3>6. Waits(p)'
      <4>1. Empty(pi)' /\ pipe'[pi].writeopen /\ ~killed'[p] /\ op'[p].pipe = pi /\ op'[p].at = "rsleep"
        BY <1>1, <1>3, <1>4, <2>2, <3>1, <3>3, <3>4 DEF Empty
      <4> QED
        BY <4>1 DEF Waits, Empty
    <3>7. killed' \in [Procs -> BOOLEAN] /\ \A q \in Procs : killed'[q] => killed[q]
      BY <1>1, <1>2 DEF Types
    <3>8. op'[p].todo = op[p].todo /\ ~(op[p].at = "pipeclose" \/ op'[p].at \in {"pipeclose", "pipe1", "pipe2"})
      BY <1>1, <3>3, <3>4
    <3> QED
      BY <1>1, <2>0, <3>1, <3>4, <3>5, <3>6, <3>7, <3>8, CallStep
  <2> QED
    BY <2>1, <2>2
<1>5. CASE ~(Empty(pi) /\ pipe[pi].writeopen)
  <2>1. PICK k \in Min({1, Min({op[p].n, Held(pi)})}) .. Min({op[p].n, Held(pi)}) :
          /\ pipe' = [pipe EXCEPT ![pi].nread = (@ + k) % UINT]
          /\ op' = [Woken(op, pi, "wsleep") EXCEPT ![p] = Idle]
    BY <1>3, <1>5 DEF piperead
  <2>2. k \in 0 .. Held(pi)
    BY ReadMost
  <2>3. PICK pn : pn = Taken(pipe[pi], k)
    OBVIOUS
  <2>4. pn \in PipeType /\ SameOpen(pipe[pi], pn) /\ HeldBy(pn) <= PIPESIZE
    <3>1. PICK h \in 0 .. PIPESIZE : h = Held(pi) /\ h = HeldBy(pipe[pi]) /\ pipe[pi] \in PipeType
      BY HeldIs
    <3>2. pn \in PipeType /\ SameOpen(pipe[pi], pn) /\ HeldBy(pn) = h - k
      BY <2>2, <2>3, <3>1, ReadIs
    <3>3. h - k <= PIPESIZE
      BY <2>2, <3>1, NoPipeIs
    <3> QED
      BY <3>2, <3>3
  <2>5. pipe' = [pipe EXCEPT ![pi] = pn]
    BY <2>1, <2>3 DEF Taken
  <2>6. /\ pipe' \in [Pipes -> PipeType] /\ \A x \in Pipes : x # pi => pipe'[x] = pipe[x]
        /\ \A x \in Pipes : /\ pipe'[x].readopen = pipe[x].readopen /\ pipe'[x].writeopen = pipe[x].writeopen
                            /\ pipe'[x].page = pipe[x].page /\ Held(x)' <= PIPESIZE
    BY <2>4, <2>5, OnePipe
  <2>7. /\ op' \in [Procs -> OpType] /\ op'[p] = Idle
        /\ \A q \in Procs : q # p => /\ Roused(op[q], op'[q])
                                     /\ op[q].pipe = pi => op'[q].at # "wsleep"
                                     /\ op'[q].at \in {"rsleep", "wsleep"} => op'[q] = op[q]
    <3>1. Types /\ Idle \in OpType /\ Wakes(p, pi, "wsleep", Idle) /\ "wsleep" \in {"rsleep", "wsleep"}
      BY <1>2, <2>1, IdleIs DEF Wakes
    <3> QED
      BY <3>1, WokenBut
  <2>8. ASSUME NEW q \in Procs, q # p, op'[q].at \in {"rsleep", "wsleep"} PROVE pipe'[op[q].pipe] = pipe[op[q].pipe]
    <3>1. op'[q] = op[q] /\ op[q].at \in {"rsleep", "wsleep"} /\ (op[q].pipe = pi => op[q].at # "wsleep")
      BY <2>7, <2>8
    <3>2. op[q].pipe \in Pipes
      BY <3>1, InPipeIs
    <3>3. op[q].pipe # pi
      <4>1. Waits(q)
        BY DEF IInv, Sleepers
      <4> QED
        BY <1>5, <3>1, <4>1 DEF Waits
    <3> QED
      BY <2>6, <3>2, <3>3
  <2> QED
    BY <1>1, <1>2, <2>6, <2>7, <2>8, Returns
<1> QED
  BY <1>4, <1>5

\* What the loop of pipewrite() does when it writes: k bytes t go in, and p returns
\* or, when the pipe is then full, sleeps with the rest u.
WritesTo(p, pi, k, t) ==
  /\ t \in Seq(Bytes) /\ Len(t) = k /\ k \in Nat /\ Held(pi) + k <= PIPESIZE
  /\ pipe' = [pipe EXCEPT ![pi] = Put(pipe[pi], t)]
  /\ \/ Wakes(p, pi, "rsleep", Idle)
     \/ /\ Held(pi) + k = PIPESIZE
        /\ \E u \in Seq(Bytes) : Wakes(p, pi, "rsleep", [op[p] EXCEPT !.at = "wsleep", !.rest = u])

LEMMA WriteMost ==
  ASSUME IInv, NEW p \in Procs, NEW pi \in Pipes, pi = op[p].pipe, pipewrite(p), pipe[pi].readopen, ~killed[p]
  PROVE  \E k \in Nat, t \in Seq(Bytes) : WritesTo(p, pi, k, t)
<1>1. PICK s \in Seq(Bytes) : s = op[p].rest
  BY OpIs DEF IInv
<1>2. PICK h \in 0 .. PIPESIZE : h = Held(pi)
  BY HeldIs
<1>3. PICK n \in Nat : n = Len(s)
  OBVIOUS
<1>4. PICK most : most = IF n <= PIPESIZE - h THEN n ELSE PIPESIZE - h
  OBVIOUS
<1>5. PIPESIZE \in Nat
  BY PipeAssumption
<1>6. most \in Nat /\ most <= n /\ h + most <= PIPESIZE /\ (most < n => h + most = PIPESIZE)
  <2>1. h \in Nat /\ h <= PIPESIZE /\ PIPESIZE - h \in Nat /\ h + (PIPESIZE - h) = PIPESIZE
    BY <1>5
  <2>2. CASE n <= PIPESIZE - h
    BY <1>4, <1>5, <2>1, <2>2
  <2>3. CASE ~(n <= PIPESIZE - h)
    <3>1. most = PIPESIZE - h
      BY <1>4, <2>3
    <3> QED
      BY <1>5, <2>1, <2>3, <3>1
  <2> QED
    BY <2>2, <2>3
<1>7. Room(pi) = PIPESIZE - h
  BY <1>2 DEF Room
<1>8. PICK k \in 0 .. most :
        /\ pipe' = [pipe EXCEPT ![pi] = Put(@, SubSeq(s, 1, k))]
        /\ op' = [Woken(op, pi, "rsleep") EXCEPT
                    ![p] = IF k = most /\ k < n
                           THEN [op[p] EXCEPT !.at = "wsleep", !.rest = SubSeq(s, k + 1, n)]
                           ELSE Idle]
  BY <1>1, <1>3, <1>4, <1>7 DEF pipewrite
<1>9. k \in Nat /\ k <= n /\ h + k <= PIPESIZE
  BY <1>2, <1>5, <1>6
<1>10. PICK t : t = SubSeq(s, 1, k)
  OBVIOUS
<1>11. t \in Seq(Bytes) /\ Len(t) = k
  BY <1>3, <1>9, <1>10
<1>12. PICK u : u = SubSeq(s, k + 1, n)
  OBVIOUS
<1>13. u \in Seq(Bytes)
  BY <1>3, <1>9, <1>12
<1>14. pipe' = [pipe EXCEPT ![pi] = Put(pipe[pi], t)]
  BY <1>8, <1>10
<1>15. CASE k = most /\ k < n
  <2>1. Wakes(p, pi, "rsleep", [op[p] EXCEPT !.at = "wsleep", !.rest = u])
    BY <1>8, <1>12, <1>15 DEF Wakes
  <2>2. Held(pi) + k = PIPESIZE
    BY <1>2, <1>6, <1>15
  <2>3. Held(pi) + k <= PIPESIZE
    BY <1>2, <1>9
  <2> QED
    BY <1>9, <1>11, <1>13, <1>14, <2>1, <2>2, <2>3 DEF WritesTo
<1>16. CASE ~(k = most /\ k < n)
  <2>1. Wakes(p, pi, "rsleep", Idle)
    BY <1>8, <1>16 DEF Wakes
  <2>3. Held(pi) + k <= PIPESIZE
    BY <1>2, <1>9
  <2> QED
    BY <1>9, <1>11, <1>14, <2>1, <2>3 DEF WritesTo
<1> QED
  BY <1>15, <1>16

LEMMA pipewriteInv ==
  ASSUME IInv, NEW p \in Procs, pipewrite(p)
  PROVE  IInv'
<1>1. op[p].at = "write" /\ alive[p] /\ UNCHANGED <<alive, killed, ofile, file, panicked>>
  BY DEF pipewrite, Is
<1>2. InPipe(op[p]) /\ op[p].pipe \in Pipes /\ op[p].todo = <<>> /\ op[p] \in OpType /\ Types
  BY <1>1, InPipeIs
<1>3. PICK pi \in Pipes : pi = op[p].pipe
  BY <1>2
<1>4. CASE ~pipe[pi].readopen \/ killed[p]
  <2>1. op' = [op EXCEPT ![p] = Idle] /\ pipe' = pipe
    BY <1>3, <1>4 DEF pipewrite, Return
  <2>2. /\ pipe' \in [Pipes -> PipeType]
        /\ \A x \in Pipes : /\ pipe'[x].readopen = pipe[x].readopen /\ pipe'[x].writeopen = pipe[x].writeopen
                            /\ pipe'[x].page = pipe[x].page /\ Held(x)' <= PIPESIZE
    BY <2>1, SamePipes
  <2>3. op' \in [Procs -> OpType] /\ op'[p] = Idle /\ \A q \in Procs : q # p => op'[q] = op[q] /\ Roused(op[q], op'[q])
    BY <2>1, IdleIs, OnlyP
  <2> QED
    BY <1>1, <1>2, <2>1, <2>2, <2>3, Returns
<1>5. CASE pipe[pi].readopen /\ ~killed[p]
  <2>1. PICK k \in Nat, t \in Seq(Bytes) : WritesTo(p, pi, k, t)
    BY <1>3, <1>5, WriteMost
  <2>2. PICK pn : pn = Put(pipe[pi], t)
    OBVIOUS
  <2>3. PICK h \in 0 .. PIPESIZE : h = Held(pi) /\ h = HeldBy(pipe[pi]) /\ pipe[pi] \in PipeType
    BY HeldIs
  <2>4. h + k <= PIPESIZE /\ k = Len(t) /\ PIPESIZE \in Nat
    BY <2>1, <2>3, PipeAssumption DEF WritesTo
  <2>5. pn \in PipeType /\ SameOpen(pipe[pi], pn) /\ HeldBy(pn) = h + k
    BY <2>2, <2>3, <2>4, WriteIs
  <2>6. pipe' = [pipe EXCEPT ![pi] = pn] /\ HeldBy(pn) <= PIPESIZE
    BY <2>1, <2>2, <2>4, <2>5 DEF WritesTo
  <2>7. /\ pipe' \in [Pipes -> PipeType] /\ pipe'[pi] = pn /\ \A x \in Pipes : x # pi => pipe'[x] = pipe[x]
        /\ \A x \in Pipes : /\ pipe'[x].readopen = pipe[x].readopen /\ pipe'[x].writeopen = pipe[x].writeopen
                            /\ pipe'[x].page = pipe[x].page /\ Held(x)' <= PIPESIZE
    BY <2>5, <2>6, OnePipe
  <2>8. ASSUME NEW o \in OpType, Wakes(p, pi, "rsleep", o)
        PROVE  /\ op' \in [Procs -> OpType] /\ op'[p] = o
               /\ \A q \in Procs : q # p => Roused(op[q], op'[q])
               /\ \A q \in Procs : q # p /\ op'[q].at \in {"rsleep", "wsleep"} => pipe'[op[q].pipe] = pipe[op[q].pipe]
    <3>2. /\ op' \in [Procs -> OpType] /\ op'[p] = o
          /\ \A q \in Procs : q # p => /\ Roused(op[q], op'[q])
                                       /\ op[q].pipe = pi => op'[q].at # "rsleep"
                                       /\ op'[q].at \in {"rsleep", "wsleep"} => op'[q] = op[q]
      <4>1. Types /\ Wakes(p, pi, "rsleep", o) /\ "rsleep" \in {"rsleep", "wsleep"}
        BY <1>2, <2>8
      <4> QED
        BY <4>1, WokenBut, Zenon
    <3>3. ASSUME NEW q \in Procs, q # p, op'[q].at \in {"rsleep", "wsleep"} PROVE pipe'[op[q].pipe] = pipe[op[q].pipe]
      <4>1. op'[q] = op[q] /\ op[q].at \in {"rsleep", "wsleep"} /\ (op[q].pipe = pi => op[q].at # "rsleep")
        BY <3>2, <3>3
      <4>2. op[q].pipe \in Pipes
        BY <4>1, InPipeIs
      <4>3. CASE op[q].pipe # pi
        BY <2>7, <4>2, <4>3
      <4>4. CASE op[q].pipe = pi
        <5>1. Waits(q)
          BY DEF IInv, Sleepers
        <5>2. Full(pi)
          BY <4>1, <4>4, <5>1 DEF Waits
        <5>3. h = PIPESIZE
          BY <2>3, <5>2, HeldIs
        <5>4. Len(t) = 0
          BY <2>4, <5>3
        <5>5. pn = pipe[pi]
          BY <2>2, <2>3, <5>4, WriteNone
        <5> QED
          BY <2>7, <4>4, <5>5
      <4> QED
        BY <4>3, <4>4
    <3> QED
      BY <3>2, <3>3
  <2>9. CASE Wakes(p, pi, "rsleep", Idle)
    <3>1. /\ op' \in [Procs -> OpType] /\ op'[p] = Idle
          /\ \A q \in Procs : q # p => Roused(op[q], op'[q])
          /\ \A q \in Procs : q # p /\ op'[q].at \in {"rsleep", "wsleep"} => pipe'[op[q].pipe] = pipe[op[q].pipe]
      BY <2>8, <2>9, IdleIs
    <3> QED
      BY <1>1, <1>2, <2>7, <3>1, Returns
  <2>10. CASE /\ h + k = PIPESIZE
              /\ \E u \in Seq(Bytes) : Wakes(p, pi, "rsleep", [op[p] EXCEPT !.at = "wsleep", !.rest = u])
    <3>1. PICK u \in Seq(Bytes) : Wakes(p, pi, "rsleep", [op[p] EXCEPT !.at = "wsleep", !.rest = u])
      BY <2>10
    <3>2. PICK o : o = [op[p] EXCEPT !.at = "wsleep", !.rest = u]
      OBVIOUS
    <3>3. o \in OpType /\ o.at = "wsleep" /\ o.todo = op[p].todo /\ o.pipe = op[p].pipe /\ o.exiting = op[p].exiting
      BY <1>2, <3>2 DEF OpType, Wheres
    <3>4. Wakes(p, pi, "rsleep", o)
      BY <3>1, <3>2
    <3>5. /\ op' \in [Procs -> OpType] /\ op'[p] = o
          /\ \A q \in Procs : q # p => Roused(op[q], op'[q])
          /\ \A q \in Procs : q # p /\ op'[q].at \in {"rsleep", "wsleep"} => pipe'[op[q].pipe] = pipe[op[q].pipe]
      BY <2>8, <3>3, <3>4
    <3>6. Linked(p)' /\ Shape(op'[p], ofile[p], alive[p])
      BY <1>1, <1>2, <3>3, <3>5, StaysLinked
    <3>7. Waits(p)'
      <4>1. HeldBy(pn) = PIPESIZE
        BY <2>5, <2>10
      <4>2. pn.nwrite = (pn.nread + PIPESIZE) % UINT
        BY <2>5, <4>1, HeldByIs
      <4>3. Full(pi)' /\ pipe'[pi].readopen /\ ~killed'[p] /\ op'[p].pipe = pi /\ op'[p].at = "wsleep"
        BY <1>1, <1>3, <1>5, <2>7, <3>3, <3>5, <4>2 DEF Full
      <4> QED
        BY <4>3 DEF Waits, Full
    <3>8. killed' \in [Procs -> BOOLEAN] /\ \A q \in Procs : killed'[q] => killed[q]
      BY <1>1, <1>2 DEF Types
    <3>9. op'[p].todo = op[p].todo /\ ~(op[p].at = "pipeclose" \/ op'[p].at \in {"pipeclose", "pipe1", "pipe2"})
      BY <1>1, <3>3, <3>5
    <3> QED
      BY <1>1, <2>7, <3>5, <3>6, <3>8, <3>7, <3>9, CallStep
  <2> QED
    BY <2>1, <2>3, <2>9, <2>10 DEF WritesTo
<1> QED
  BY <1>4, <1>5

-----------------------------------------------------------------------------
(* The invariant.                                                          *)

LEMMA IInvInit == Init => IInv
<1> SUFFICES ASSUME Init PROVE IInv
  OBVIOUS
<1>1. /\ alive = [p \in Procs |-> p = Init0] /\ killed = [p \in Procs |-> FALSE]
      /\ ofile = [p \in Procs |-> [fd \in Fds |-> None]] /\ file = [f \in Files |-> NoFile]
      /\ pipe = [pi \in Pipes |-> NoPipe] /\ op = [p \in Procs |-> Idle] /\ panicked = FALSE
  BY DEF Init
<1>2. NoFile \in FileType /\ NoFile.ref = 0 /\ NoFile.type = "none" /\ NoFile.pipe = None
  BY DEF NoFile, FileType
<1>3. \A p \in Procs : op[p] = Idle /\ op[p].at = "user" /\ op[p].todo = <<>>
  BY <1>1, IdleIs
<1>4. \A f \in Files : file[f] = NoFile
  BY <1>1
<1>5. \A pi \in Pipes : pipe[pi] = NoPipe
  BY <1>1
<1>6. \A p \in Procs : \A fd \in Fds : ofile[p][fd] = None
  BY <1>1
<1>7. Types
  BY <1>1, <1>2, IdleIs, NoPipeIs DEF Types
<1>8. Shapes
  <2>1. 0 <= NOFILE + 2 /\ Len(<<>>) = 0
    BY Nones
  <2> QED
    BY <1>3, <1>6, <2>1, IdleIs DEF Shapes, Shape, InPipe
<1>9. Refs(file, ofile, op)
  <2> SUFFICES ASSUME NEW f \in Files
               PROVE  file[f].ref = Cardinality(DescRefs(ofile, f)) + Cardinality(CallRefs(op, f))
    BY DEF Refs
  <2>1. DescRefs(ofile, f) = {}
    BY <1>6, Nones DEF DescRefs
  <2>2. CallRefs(op, f) = {}
    BY <1>3 DEF CallRefs
  <2>3. Cardinality({}) = 0
    BY FS_EmptySet
  <2> QED
    BY <1>2, <1>4, <2>1, <2>2, <2>3
<1>10. Fresh /\ FilesOK
  BY <1>2, <1>3, <1>4 DEF Fresh, FreshOf, FilesOK
<1>11. EndsOK
  <2> SUFFICES ASSUME NEW pi \in Pipes, NEW w \in BOOLEAN PROVE EndOK(pi, w)
    BY DEF EndsOK
  <2>1. (\A f \in Files : ~IsEnd(f, pi, w)) /\ (\A p \in Procs : ~IsClosing(p, pi, w))
    BY <1>2, <1>3, <1>4 DEF IsEnd, IsClosing
  <2>2. ~IsOpen(pi, w)
    BY <1>5, NoPipeIs DEF IsOpen
  <2> QED
    BY <2>1, <2>2 DEF EndOK
<1>12. Pages
  <2> SUFFICES ASSUME NEW pi \in Pipes
               PROVE  pipe[pi].page = (pipe[pi].readopen \/ pipe[pi].writeopen) /\ Held(pi) <= PIPESIZE
    BY DEF Pages
  <2>1. Held(pi) = 0
    BY <1>5, NoPipeIs DEF Held
  <2>2. pipe[pi].page = (pipe[pi].readopen \/ pipe[pi].writeopen)
    BY <1>5, NoPipeIs
  <2>3. 0 <= PIPESIZE
    BY NoPipeIs
  <2> QED
    BY <2>1, <2>2, <2>3
<1>13. Links /\ Sleepers
  BY <1>3 DEF Links, Linked, InPipe, Sleepers, Waits
<1> QED
  BY <1>7, <1>8, <1>9, <1>10, <1>11, <1>12, <1>13 DEF IInv

LEMMA IInvStutters ==
  ASSUME IInv, UNCHANGED vars
  PROVE  IInv'
<1>0. UNCHANGED <<alive, killed, ofile, file, pipe, op, panicked>>
  BY DEF vars
<1>1. Types' /\ Shapes'
  BY <1>0 DEF IInv, Types, Shapes
<1>2. Refs(file, ofile, op)' /\ Fresh' /\ FilesOK'
  BY <1>0 DEF IInv, Refs, Fresh, FreshOf, FilesOK
<1>3. EndsOK'
  BY <1>0 DEF IInv, EndsOK, EndOK, IsEnd, IsClosing, IsOpen
<1>4. Pages' /\ Links'
  BY <1>0 DEF IInv, Pages, Held, Links, Linked, IsEnd
<1>5. Sleepers'
  BY <1>0 DEF IInv, Sleepers, Waits, Empty, Full
<1> QED
  BY <1>1, <1>2, <1>3, <1>4, <1>5 DEF IInv

LEMMA IInvNext == IInv /\ [Next]_vars => IInv'
<1> SUFFICES ASSUME IInv, [Next]_vars PROVE IInv'
  OBVIOUS
<1>1. ASSUME NEW p \in Procs, Proceed(p) PROVE IInv'
  <2>1. CASE fileclose(p) \/ Closed(p) \/ pipeclose(p)
    BY <2>1, filecloseInv, ClosedInv, pipecloseInv
  <2>2. CASE PipeSecondFile(p) \/ PipeNoPage(p) \/ PipeMade(p)
    BY <2>2, PipeSecondFileInv, PipeNoPageInv, PipeMadeInv
  <2>3. CASE pipewrite(p) \/ piperead(p)
    BY <2>3, pipewriteInv, pipereadInv
  <2>4. CASE exit(p)
    BY <2>4, exitInv
  <2> QED
    BY <1>1, <2>1, <2>2, <2>3, <2>4 DEF Proceed
<1>2. ASSUME NEW p \in Procs, Call(p) PROVE IInv'
  <2>1. CASE sys_dup(p) \/ sys_close(p) \/ sys_pipe(p)
    BY <2>1, sys_dupInv, sys_closeInv, sys_pipeInv
  <2>2. CASE sys_read(p) \/ sys_write(p) \/ fork(p)
    BY <2>2, sys_readInv, sys_writeInv, forkInv
  <2>3. CASE exit(p)
    BY <2>3, exitInv
  <2> QED
    BY <1>2, <2>1, <2>2, <2>3 DEF Call
<1>3. ASSUME NEW p \in Procs, kill(p) PROVE IInv'
  BY <1>3, killInv
<1>4. CASE UNCHANGED vars
  BY <1>4, IInvStutters
<1> QED
  BY <1>1, <1>2, <1>3, <1>4 DEF Next

\* The inductive invariant of open files and pipes, for any number of processes,
\* descriptors, files and pages.
THEOREM IInvCorrect == Spec => []IInv
<1> QED
  BY IInvInit, IInvNext, PTL DEF Spec

\* fileclose() never finds a file without references: its panic cannot happen.
THEOREM NeverPanics == Spec => []~panicked
<1>1. IInv => ~panicked
  BY DEF IInv, Types
<1> QED
  BY <1>1, IInvCorrect, PTL

\* Nobody sleeps in piperead() or pipewrite() without a reason: a reader only while
\* the pipe is empty and has a writer, a writer only while it is full and has a
\* reader, and nobody who was killed.
THEOREM SleepersCorrect == Spec => []SleepersMustWait
<1>1. IInv => SleepersMustWait
  BY DEF IInv, Sleepers, Waits, SleepersMustWait
<1> QED
  BY <1>1, IInvCorrect, PTL

-----------------------------------------------------------------------------
(* FileInv follows.                                                        *)

LEMMA TypesOK ==
  ASSUME IInv
  PROVE  TypeOK
<1>1. Types /\ FilesOK
  BY DEF IInv
<1>2. /\ alive \in [Procs -> BOOLEAN] /\ killed \in [Procs -> BOOLEAN]
      /\ ofile \in [Procs -> [Fds -> Files \cup {None}]] /\ panicked \in BOOLEAN
  BY <1>1 DEF Types
<1>3. file \in [Files -> FileType] /\ \A f \in Files : file[f].ref = 0 => file[f].type = "none"
  BY <1>1 DEF Types, FilesOK
<1>4. pipe \in [Pipes -> PipeType]
  BY <1>1 DEF Types
<1>5. ASSUME NEW p \in Procs
      PROVE  /\ op[p].at \in Wheres /\ op[p].pipe \in Pipes \cup {None}
             /\ op[p].todo \in Seq(Files) /\ op[p].rest \in Seq(Bytes) /\ op[p].n \in Nat
             /\ op[p].writable \in BOOLEAN /\ op[p].exiting \in BOOLEAN
  BY <1>1, OpIs
<1> QED
  BY <1>2, <1>3, <1>4, <1>5 DEF TypeOK, FileType, PipeType

LEMMA AtMostOne ==
  ASSUME NEW S, NEW T, \A x, y \in S : x = y, \A x, y \in T : x = y, S = {} \/ T = {}
  PROVE  Cardinality(S) + Cardinality(T) = IF S = {} /\ T = {} THEN 0 ELSE 1
<1>1. ASSUME NEW U, \A x, y \in U : x = y PROVE Cardinality(U) = IF U = {} THEN 0 ELSE 1
  <2>1. CASE U = {}
    BY <2>1, FS_EmptySet
  <2>2. CASE U # {}
    <3>1. PICK x : U = {x}
      BY <1>1, <2>2
    <3>2. Cardinality({x}) = 1
      BY FS_Singleton
    <3> QED
      BY <2>2, <3>1, <3>2
  <2> QED
    BY <2>1, <2>2
<1>2. Cardinality(S) = IF S = {} THEN 0 ELSE 1
  BY <1>1
<1>3. Cardinality(T) = IF T = {} THEN 0 ELSE 1
  BY <1>1
<1> QED
  BY <1>2, <1>3

LEMMA EndCount ==
  ASSUME IInv, NEW pi \in Pipes, NEW w \in BOOLEAN,
         NEW S, S = {f \in Files : file[f].type = "pipe" /\ file[f].pipe = pi /\ file[f].writable = w},
         NEW T, T = {p \in Procs : op[p].at = "pipeclose" /\ op[p].pipe = pi /\ op[p].writable = w}
  PROVE  Cardinality(S) + Cardinality(T) = IF IsOpen(pi, w) THEN 1 ELSE 0
<1>1. EndOK(pi, w)
  BY DEF IInv, EndsOK
<1>2. \A f : f \in S <=> f \in Files /\ IsEnd(f, pi, w)
  BY DEF IsEnd
<1>3. \A p : p \in T <=> p \in Procs /\ IsClosing(p, pi, w)
  BY DEF IsClosing
<1>4. (\A f, g \in S : f = g) /\ (\A p, q \in T : p = q) /\ (S = {} \/ T = {})
  BY <1>1, <1>2, <1>3 DEF EndOK
<1>5. IsOpen(pi, w) <=> ~(S = {} /\ T = {})
  BY <1>1, <1>2, <1>3 DEF EndOK
<1>6. Cardinality(S) + Cardinality(T) = IF S = {} /\ T = {} THEN 0 ELSE 1
  BY <1>4, AtMostOne
<1> QED
  BY <1>5, <1>6

\* Whoever is in a call on a pipe keeps its page.
LEMMA InPage ==
  ASSUME IInv, NEW p \in Procs, NEW pi \in Pipes, op[p].pipe = pi
  PROVE  pipe[pi].page
<1>1. Shape(op[p], ofile[p], alive[p]) /\ op[p] \in OpType /\ op[p].at \in Wheres
  BY OpIs DEF IInv, Shapes
<1>2. pi # None
  BY Nones
<1>3. op[p].at # "user"
  BY <1>1, <1>2, IdleIs DEF Shape
<1>4. op[p].at \notin {"pipe1", "pipe2", "close"}
  BY <1>1, <1>2 DEF Shape
<1>5. CASE InPipe(op[p])
  <2>1. PICK w \in BOOLEAN : w <=> op[p].at \in {"write", "wsleep"}
    OBVIOUS
  <2> QED
    BY <1>5, <2>1, LinkedEnd
<1>6. CASE op[p].at = "pipeclose"
  <2>1. PICK w \in BOOLEAN : w = op[p].writable
    BY <1>1 DEF OpType
  <2>2. EndOK(pi, w) /\ IsClosing(p, pi, w)
    BY <1>6, <2>1 DEF IInv, EndsOK, IsClosing
  <2>3. IsOpen(pi, w)
    BY <2>2 DEF EndOK
  <2> QED
    BY <2>3 DEF IsOpen, IInv, Pages
<1> QED
  BY <1>1, <1>3, <1>4, <1>5, <1>6 DEF Wheres, InPipe

\* Files and pipes are accounted for: a file has as many references as descriptors
\* and calls hold of it, and a pipe's page is kept exactly as long as one of its
\* ends, through dup(), fork(), exit() and every failing return of sys_pipe().
THEOREM FileTableCorrect == Spec => []FileInv
<1>1. IInv => FileInv
  <2> SUFFICES ASSUME IInv PROVE FileInv
    OBVIOUS
  <2>1. TypeOK
    BY TypesOK
  <2>2. RefsExact
    BY DEF IInv, Refs, DescRefs, CallRefs, RefsExact
  <2>3. EndsMatch
    <3> SUFFICES ASSUME NEW pi \in Pipes
                 PROVE  LET Ends(w) == {f \in Files : file[f].type = "pipe" /\ file[f].pipe = pi /\ file[f].writable = w}
                            Closing(w) == {p \in Procs : op[p].at = "pipeclose" /\ op[p].pipe = pi /\ op[p].writable = w}
                        IN  /\ Cardinality(Ends(TRUE)) + Cardinality(Closing(TRUE)) = (IF pipe[pi].writeopen THEN 1 ELSE 0)
                            /\ Cardinality(Ends(FALSE)) + Cardinality(Closing(FALSE)) = (IF pipe[pi].readopen THEN 1 ELSE 0)
                            /\ pipe[pi].page = (pipe[pi].readopen \/ pipe[pi].writeopen)
                            /\ \A p \in Procs : op[p].pipe = pi => pipe[pi].page
      BY DEF EndsMatch
    <3> DEFINE Ends(w) == {f \in Files : file[f].type = "pipe" /\ file[f].pipe = pi /\ file[f].writable = w}
               Closing(w) == {p \in Procs : op[p].at = "pipeclose" /\ op[p].pipe = pi /\ op[p].writable = w}
    <3>1. ASSUME NEW w \in BOOLEAN
          PROVE  Cardinality(Ends(w)) + Cardinality(Closing(w)) = IF IsOpen(pi, w) THEN 1 ELSE 0
      BY EndCount
    <3>2. /\ Cardinality(Ends(TRUE)) + Cardinality(Closing(TRUE)) = IF IsOpen(pi, TRUE) THEN 1 ELSE 0
          /\ Cardinality(Ends(FALSE)) + Cardinality(Closing(FALSE)) = IF IsOpen(pi, FALSE) THEN 1 ELSE 0
      BY <3>1, Zenon
    <3>3. IsOpen(pi, TRUE) = pipe[pi].writeopen /\ IsOpen(pi, FALSE) = pipe[pi].readopen
      BY DEF IsOpen
    <3>4. pipe[pi].page = (pipe[pi].readopen \/ pipe[pi].writeopen)
      BY DEF IInv, Pages
    <3>5. \A p \in Procs : op[p].pipe = pi => pipe[pi].page
      BY InPage
    <3> QED
      BY <3>2, <3>3, <3>4, <3>5
  <2> QED
    BY <2>1, <2>2, <2>3 DEF FileInv
<1> QED
  BY <1>1, IInvCorrect, PTL

-----------------------------------------------------------------------------
(* What is inside the pipes, as Streams sees it.                           *)

Live == {pi \in Pipes : pipe[pi].page}
Inside == [pi \in Pipes |-> Contents(pi)]
InsideOf(pp) == Between(pp.data, PIPESIZE, UINT, pp.nread, pp.nwrite)

\* A page that is no pipe has no bytes inside.
Unused == \A pi \in Pipes : ~pipe[pi].page => Empty(pi)

\* PutSeq, with its sums and its result as one fact each.
Fits(d, v, size) == d + Len(v) <= size
Behind(x, y, v) == x = y \o v
AheadOf(w, v) == Ahead(w, Len(v), UINT)

LEMMA PutBehind ==
  ASSUME NEW b, Holds(b, PIPESIZE, Bytes), NEW r \in 0 .. UINT - 1, NEW w \in 0 .. UINT - 1, NEW v \in Seq(Bytes),
         NEW d, d = Distance(r, w, UINT), Fits(d, v, PIPESIZE),
         NEW bn, bn = Puts(b, PIPESIZE, w, v), NEW wn, wn = AheadOf(w, v)
  PROVE  Behind(Between(bn, PIPESIZE, UINT, r, wn), Between(b, PIPESIZE, UINT, r, w), v)
BY Rings, PutSeq DEF Fits, Behind, AheadOf

\* All that a step does to the pipes.
Makes(pi) == ~pipe[pi].page /\ pipe' = [pipe EXCEPT ![pi] = NewPipe(pipe[pi])]
Frees(pi) == pipe[pi].page /\ pipe' = [pipe EXCEPT ![pi] = NoPipe]
SameBytes(pp, pn) == pn.page = pp.page /\ pn.data = pp.data /\ pn.nread = pp.nread /\ pn.nwrite = pp.nwrite
ClosesEnd(pi) == pipe[pi].page /\ \E pn \in PipeType : SameBytes(pipe[pi], pn) /\ pipe' = [pipe EXCEPT ![pi] = pn]
Takes(pi, k) == pipe[pi].page /\ pipe' = [pipe EXCEPT ![pi] = Taken(pipe[pi], k)]
Gives(pi, t) == pipe[pi].page /\ Held(pi) + Len(t) <= PIPESIZE /\ pipe' = [pipe EXCEPT ![pi] = Put(pipe[pi], t)]

PipeStep ==
  \/ pipe' = pipe
  \/ \E pi \in Pipes : Makes(pi) \/ Frees(pi) \/ ClosesEnd(pi)
  \/ \E pi \in Pipes : \E k \in 0 .. Held(pi) : Takes(pi, k)
  \/ \E pi \in Pipes : \E t \in Seq(Bytes) : Gives(pi, t)

LEMMA MakesStep ==
  ASSUME NEW p \in Procs, PipeMade(p)
  PROVE  PipeStep
<1>1. PICK pi \in Pipes : ~pipe[pi].page /\ pipe' = [pipe EXCEPT ![pi] = NewPipe(pipe[pi])]
  BY DEF PipeMade
<1> QED
  BY <1>1 DEF PipeStep, Makes

LEMMA ClosesStep ==
  ASSUME IInv, NEW p \in Procs, pipeclose(p)
  PROVE  PipeStep
<1>1. op[p].at = "pipeclose" /\ Types
  BY DEF pipeclose, Is, IInv
<1>2. Shape(op[p], ofile[p], alive[p]) /\ op[p] \in OpType
  BY <1>1, OpIs DEF IInv, Shapes
<1>3. PICK pi \in Pipes : pi = op[p].pipe
  BY <1>1, <1>2 DEF Shape
<1>4. PICK w \in BOOLEAN : w = op[p].writable
  BY <1>2 DEF OpType
<1>5. PICK e : e = (IF w THEN [pipe[pi] EXCEPT !.writeopen = FALSE] ELSE [pipe[pi] EXCEPT !.readopen = FALSE])
  OBVIOUS
<1>6. pipe' = [pipe EXCEPT ![pi] = IF e.readopen \/ e.writeopen THEN e ELSE NoPipe]
  BY <1>3, <1>4, <1>5 DEF pipeclose
<1>7. pipe[pi].page
  BY <1>3, InPage
<1>8. PICK c \in PipeType : c = pipe[pi]
  BY <1>1 DEF Types
<1>9. e \in PipeType /\ e.page = c.page /\ e.data = c.data /\ e.nread = c.nread /\ e.nwrite = c.nwrite
  <2>1. CASE w
    <3>1. e = [c EXCEPT !.writeopen = FALSE]
      BY <1>5, <1>8, <2>1
    <3> QED
      BY <3>1 DEF PipeType
  <2>2. CASE ~w
    <3>1. e = [c EXCEPT !.readopen = FALSE]
      BY <1>5, <1>8, <2>2
    <3> QED
      BY <3>1 DEF PipeType
  <2> QED
    BY <2>1, <2>2
<1>10. CASE e.readopen \/ e.writeopen
  <2>1. pipe' = [pipe EXCEPT ![pi] = e] /\ SameBytes(pipe[pi], e)
    BY <1>6, <1>8, <1>9, <1>10 DEF SameBytes
  <2>2. ClosesEnd(pi)
    BY <1>7, <1>9, <2>1 DEF ClosesEnd
  <2> QED
    BY <2>2 DEF PipeStep
<1>11. CASE ~(e.readopen \/ e.writeopen)
  <2>1. Frees(pi)
    BY <1>6, <1>7, <1>11 DEF Frees
  <2> QED
    BY <2>1 DEF PipeStep
<1> QED
  BY <1>10, <1>11

LEMMA TakesStep ==
  ASSUME IInv, NEW p \in Procs, piperead(p)
  PROVE  PipeStep
<1>1. op[p].at = "read"
  BY DEF piperead, Is
<1>2. PICK pi \in Pipes : pi = op[p].pipe
  BY <1>1, InPipeIs
<1>3. pipe[pi].page
  BY <1>2, InPage
<1>4. CASE Empty(pi) /\ pipe[pi].writeopen
  <2>1. pipe' = pipe
    BY <1>2, <1>4 DEF piperead
  <2> QED
    BY <2>1 DEF PipeStep
<1>5. CASE ~(Empty(pi) /\ pipe[pi].writeopen)
  <2>1. PICK k \in Min({1, Min({op[p].n, Held(pi)})}) .. Min({op[p].n, Held(pi)}) :
          pipe' = [pipe EXCEPT ![pi].nread = (@ + k) % UINT]
    BY <1>2, <1>5 DEF piperead
  <2>2. k \in 0 .. Held(pi)
    BY ReadMost
  <2>3. Takes(pi, k)
    BY <1>3, <2>1 DEF Takes, Taken
  <2> QED
    BY <2>2, <2>3 DEF PipeStep
<1> QED
  BY <1>4, <1>5

LEMMA GivesStep ==
  ASSUME IInv, NEW p \in Procs, pipewrite(p)
  PROVE  PipeStep
<1>1. op[p].at = "write"
  BY DEF pipewrite, Is
<1>2. PICK pi \in Pipes : pi = op[p].pipe
  BY <1>1, InPipeIs
<1>3. pipe[pi].page
  BY <1>2, InPage
<1>4. CASE ~pipe[pi].readopen \/ killed[p]
  <2>1. pipe' = pipe
    BY <1>2, <1>4 DEF pipewrite
  <2> QED
    BY <2>1 DEF PipeStep
<1>5. CASE pipe[pi].readopen /\ ~killed[p]
  <2>1. PICK k \in Nat, t \in Seq(Bytes) : WritesTo(p, pi, k, t)
    BY <1>2, <1>5, WriteMost
  <2>2. Gives(pi, t)
    BY <1>3, <2>1 DEF WritesTo, Gives
  <2> QED
    BY <2>2 DEF PipeStep
<1> QED
  BY <1>4, <1>5

LEMMA NextPipes == IInv /\ [Next]_vars => PipeStep
<1> SUFFICES ASSUME IInv, [Next]_vars PROVE PipeStep
  OBVIOUS
<1>1. CASE pipe' = pipe
  BY <1>1 DEF PipeStep
<1>2. ASSUME NEW p \in Procs, Proceed(p) PROVE PipeStep
  <2>1. CASE fileclose(p) \/ Closed(p) \/ PipeSecondFile(p) \/ PipeNoPage(p) \/ exit(p)
    <3>1. pipe' = pipe
      BY <2>1 DEF fileclose, Closed, PipeSecondFile, PipeNoPage, exit
    <3> QED
      BY <1>1, <3>1
  <2>2. CASE pipeclose(p) \/ PipeMade(p)
    BY <2>2, ClosesStep, MakesStep
  <2>3. CASE pipewrite(p) \/ piperead(p)
    BY <2>3, GivesStep, TakesStep
  <2> QED
    BY <1>2, <2>1, <2>2, <2>3 DEF Proceed
<1>3. ASSUME NEW p \in Procs, Call(p) \/ kill(p) PROVE PipeStep
  <2>1. pipe' = pipe
    BY <1>3 DEF Call, kill, sys_dup, sys_close, sys_pipe, sys_read, sys_write, fork, exit
  <2> QED
    BY <1>1, <2>1
<1>4. CASE UNCHANGED vars
  BY <1>1, <1>4 DEF vars
<1> QED
  BY <1>2, <1>3, <1>4 DEF Next

LEMMA UnusedInit == Init => Unused
<1> SUFFICES ASSUME Init, NEW pi \in Pipes PROVE Empty(pi)
  BY DEF Unused
<1>1. pipe[pi] = NoPipe
  BY DEF Init
<1> QED
  BY <1>1 DEF Empty, NoPipe

LEMMA UnusedNext == IInv /\ Unused /\ [Next]_vars => Unused'
<1> SUFFICES ASSUME IInv, Unused, PipeStep PROVE Unused'
  BY NextPipes
<1>0. pipe \in [Pipes -> PipeType]
  BY DEF IInv, Types
<1>1. CASE pipe' = pipe
  BY <1>1 DEF Unused, Empty
<1>2. ASSUME NEW pi \in Pipes, NEW pn, pipe' = [pipe EXCEPT ![pi] = pn], pn.page \/ pn.nwrite = pn.nread PROVE Unused'
  BY <1>0, <1>2 DEF Unused, Empty
<1>3. ASSUME NEW pi \in Pipes, Makes(pi) PROVE Unused'
  <2>1. PICK pn : pn = NewPipe(pipe[pi])
    OBVIOUS
  <2>2. pn.page
    BY <1>0, <2>1, NewPipeIs
  <2> QED
    BY <1>2, <1>3, <2>1, <2>2 DEF Makes
<1>4. ASSUME NEW pi \in Pipes, Frees(pi) PROVE Unused'
  <2>1. NoPipe.nwrite = NoPipe.nread
    BY DEF NoPipe
  <2> QED
    BY <1>2, <1>4, <2>1 DEF Frees
<1>5. ASSUME NEW pi \in Pipes, ClosesEnd(pi) PROVE Unused'
  <2>1. PICK pn \in PipeType : SameBytes(pipe[pi], pn) /\ pipe' = [pipe EXCEPT ![pi] = pn] /\ pipe[pi].page
    BY <1>5 DEF ClosesEnd
  <2>2. pn.page
    BY <2>1 DEF SameBytes
  <2> QED
    BY <1>2, <2>1, <2>2
<1>6. ASSUME NEW pi \in Pipes, NEW k \in 0 .. Held(pi), Takes(pi, k) PROVE Unused'
  <2>1. PICK pn : pn = Taken(pipe[pi], k)
    OBVIOUS
  <2>2. pipe' = [pipe EXCEPT ![pi] = pn] /\ pipe[pi].page
    BY <1>6, <2>1 DEF Takes
  <2>3. pn.page
    BY <1>0, <2>1, <2>2 DEF PipeType, Taken
  <2> QED
    BY <1>2, <2>2, <2>3
<1>7. ASSUME NEW pi \in Pipes, NEW t \in Seq(Bytes), Gives(pi, t) PROVE Unused'
  <2>1. PICK pn : pn = Put(pipe[pi], t)
    OBVIOUS
  <2>2. pipe' = [pipe EXCEPT ![pi] = pn] /\ pipe[pi].page
    BY <1>7, <2>1 DEF Gives
  <2>3. pn.page
    BY <1>0, <2>1, <2>2 DEF PipeType, Put
  <2> QED
    BY <1>2, <2>2, <2>3
<1> QED
  BY <1>1, <1>3, <1>4, <1>5, <1>6, <1>7 DEF PipeStep

LEMMA InsideIs ==
  ASSUME IInv, NEW pi \in Pipes
  PROVE  /\ Inside[pi] = InsideOf(pipe[pi]) /\ Inside[pi] \in Seq(Bytes) /\ Len(Inside[pi]) = Held(pi)
         /\ DOMAIN Inside = Pipes
<1>1. PICK c \in PipeType : c = pipe[pi] /\ Held(pi) = HeldBy(c)
  BY HeldIs
<1>2. /\ c.data \in [0 .. PIPESIZE - 1 -> Bytes] /\ c.nread \in 0 .. UINT - 1 /\ c.nwrite \in 0 .. UINT - 1
      /\ UINT \in Nat \ {0} /\ Ring(PIPESIZE, UINT)
  BY Rings DEF PipeType
<1>3. Inside[pi] = InsideOf(c)
  BY <1>1 DEF Inside, Contents, InsideOf, Between, Held, Distance
<1>4. InsideOf(c) \in Seq(Bytes)
  BY <1>2, BetweenSeq DEF InsideOf
<1>5. Len(InsideOf(c)) = HeldBy(c)
  <2>1. PICK b, r, w : /\ b = c.data /\ r = c.nread /\ w = c.nwrite
                       /\ r \in 0 .. UINT - 1 /\ w \in 0 .. UINT - 1 /\ UINT \in Nat \ {0}
    BY <1>2
  <2>2. Len(Between(b, PIPESIZE, UINT, r, w)) = Distance(r, w, UINT)
    BY <2>1, BetweenLen
  <2> QED
    BY <2>1, <2>2 DEF InsideOf, HeldBy
<1> QED
  BY <1>1, <1>3, <1>4, <1>5 DEF Inside

LEMMA InsideNext ==
  ASSUME IInv, NEW pi \in Pipes, NEW pn, pipe' = [pipe EXCEPT ![pi] = pn], NEW v, v = InsideOf(pn)
  PROVE  /\ Inside' = [Inside EXCEPT ![pi] = v]
         /\ pn.page = pipe[pi].page => Live' = Live
<1>1. pipe'[pi] = pn /\ \A x \in Pipes : x # pi => pipe'[x] = pipe[x]
  BY DEF IInv, Types
<1>2. ASSUME NEW x \in Pipes PROVE Contents(x) = InsideOf(pipe[x]) /\ Contents(x)' = InsideOf(pipe'[x])
  BY DEF Contents, InsideOf, Between, Held, Distance
<1>3. ASSUME NEW x \in Pipes PROVE Inside'[x] = [Inside EXCEPT ![pi] = v][x]
  <2>1. Inside'[x] = InsideOf(pipe'[x]) /\ Inside[x] = InsideOf(pipe[x]) /\ DOMAIN Inside = Pipes
    BY <1>2 DEF Inside
  <2>2. CASE x = pi
    BY <1>1, <2>1, <2>2
  <2>3. CASE x # pi
    BY <1>1, <2>1, <2>3
  <2> QED
    BY <2>2, <2>3
<1>4. /\ DOMAIN Inside' = Pipes /\ Inside' = [x \in Pipes |-> Inside'[x]]
      /\ [Inside EXCEPT ![pi] = v] = [x \in Pipes |-> [Inside EXCEPT ![pi] = v][x]]
  BY DEF Inside
<1>5. Inside' = [Inside EXCEPT ![pi] = v]
  BY <1>3, <1>4
<1>6. pn.page = pipe[pi].page => Live' = Live
  BY <1>1 DEF Live
<1> QED
  BY <1>5, <1>6

\* A function whose value at one argument stays is the same.
LEMMA InsideSame ==
  ASSUME IInv, NEW pi \in Pipes, NEW v, v = Inside[pi], Inside' = [Inside EXCEPT ![pi] = v]
  PROVE  Inside' = Inside
BY DEF Inside

Streamed == [Abstract!Next]_<<Live, Inside>>

LEMMA AbstractWrite ==
  ASSUME NEW pi \in Pipes, NEW s \in Seq(Bytes), Len(s) # 0, pi \in Live, Live' = Live,
         Len(Inside[pi]) \in Nat, Len(Inside[pi]) + Len(s) <= PIPESIZE, Inside' = [Inside EXCEPT ![pi] = Inside[pi] \o s]
  PROVE  Streamed
<1>1. PICK n \in Nat : n = Len(s)
  OBVIOUS
<1>2. n \in 1 .. PIPESIZE /\ s \in [1 .. n -> Bytes]
  BY <1>1, NoPipeIs
<1>3. Abstract!Write(pi, s)
  BY DEF Abstract!Write, Live, Inside
<1>4. \E m \in 1 .. PIPESIZE : \E u \in [1 .. m -> Bytes] : Abstract!Write(pi, u)
  BY <1>2, <1>3
<1> QED
  BY <1>4 DEF Abstract!Next, Streamed

LEMMA AbstractRead ==
  ASSUME NEW pi \in Pipes, NEW k \in Nat \ {0}, pi \in Live, Live' = Live,
         Len(Inside[pi]) \in 0 .. PIPESIZE, k <= Len(Inside[pi]),
         Inside' = [Inside EXCEPT ![pi] = SubSeq(Inside[pi], k + 1, Len(Inside[pi]))]
  PROVE  Streamed
<1>1. k \in 1 .. PIPESIZE
  BY NoPipeIs
<1>2. Abstract!Read(pi, k)
  BY DEF Abstract!Read, Live, Inside
<1>3. \E n \in 1 .. PIPESIZE : Abstract!Read(pi, n)
  BY <1>1, <1>2
<1> QED
  BY <1>3 DEF Abstract!Next, Streamed

LEMMA AbstractCreate ==
  ASSUME NEW pi \in Pipes, pi \notin Live, Live' = Live \cup {pi}, Inside' = Inside
  PROVE  Streamed
<1>1. Abstract!Create(pi)
  BY DEF Abstract!Create, Live, Inside
<1> QED
  BY <1>1 DEF Abstract!Next, Streamed

LEMMA AbstractDestroy ==
  ASSUME NEW pi \in Pipes, pi \in Live, Live' = Live \ {pi}, Inside' = [Inside EXCEPT ![pi] = <<>>]
  PROVE  Streamed
<1>1. Abstract!Destroy(pi)
  BY DEF Abstract!Destroy, Live, Inside
<1> QED
  BY <1>1 DEF Abstract!Next, Streamed

LEMMA NothingInside ==
  ASSUME NEW pp, pp.nwrite = pp.nread, pp.nread \in 0 .. UINT - 1
  PROVE  InsideOf(pp) = <<>>
<1>1. pp.nwrite - pp.nread = 0 /\ 0 % UINT = 0
  BY NoPipeIs
<1>2. Distance(pp.nread, pp.nwrite, UINT) = 0
  BY <1>1 DEF Distance
<1> QED
  BY <1>2 DEF InsideOf, Between

LEMMA StepStreams ==
  ASSUME IInv, Unused, PipeStep
  PROVE  Streamed
<1>0. pipe \in [Pipes -> PipeType]
  BY DEF IInv, Types
<1>1. CASE pipe' = pipe
  BY <1>1 DEF Streamed, Live, Inside, Contents, Held
<1>2. ASSUME NEW pi \in Pipes, Makes(pi) PROVE Streamed
  <2>1. PICK pn : pn = NewPipe(pipe[pi])
    OBVIOUS
  <2>2. pn.page /\ pn.nread = 0 /\ pn.nwrite = 0 /\ pn \in PipeType
    BY <1>0, <2>1, NewPipeIs
  <2>3. ~pipe[pi].page /\ pipe' = [pipe EXCEPT ![pi] = pn]
    BY <1>2, <2>1 DEF Makes
  <2>4. 0 \in 0 .. UINT - 1
    BY NoPipeIs
  <2>5. InsideOf(pn) = <<>>
    BY <2>2, <2>4, NothingInside
  <2>6. Inside[pi] = <<>>
    <3>1. Empty(pi)
      BY <2>3 DEF Unused
    <3>2. pipe[pi].nwrite = pipe[pi].nread /\ pipe[pi].nread \in 0 .. UINT - 1
      BY <1>0, <3>1 DEF Empty, PipeType
    <3>3. InsideOf(pipe[pi]) = <<>>
      BY <3>2, NothingInside
    <3> QED
      BY <3>3, InsideIs
  <2>7. Inside' = [Inside EXCEPT ![pi] = <<>>]
    BY <2>3, <2>5, InsideNext
  <2>8. Inside' = Inside
    BY <2>6, <2>7, InsideSame
  <2>9. pi \notin Live /\ Live' = Live \cup {pi}
    BY <1>0, <2>2, <2>3 DEF Live
  <2> QED
    BY <2>8, <2>9, AbstractCreate
<1>3. ASSUME NEW pi \in Pipes, Frees(pi) PROVE Streamed
  <2>1. pipe[pi].page /\ pipe' = [pipe EXCEPT ![pi] = NoPipe]
    BY <1>3 DEF Frees
  <2>2. NoPipe.nwrite = NoPipe.nread /\ NoPipe.nread \in 0 .. UINT - 1 /\ ~NoPipe.page
    BY NoPipeIs DEF NoPipe
  <2>3. InsideOf(NoPipe) = <<>>
    BY <2>2, NothingInside
  <2>4. Inside' = [Inside EXCEPT ![pi] = <<>>]
    BY <2>1, <2>3, InsideNext
  <2>5. pi \in Live /\ Live' = Live \ {pi}
    BY <1>0, <2>1, <2>2 DEF Live
  <2> QED
    BY <2>4, <2>5, AbstractDestroy
<1>4. ASSUME NEW pi \in Pipes, ClosesEnd(pi) PROVE Streamed
  <2>1. PICK pn \in PipeType : SameBytes(pipe[pi], pn) /\ pipe' = [pipe EXCEPT ![pi] = pn]
    BY <1>4 DEF ClosesEnd
  <2>2. InsideOf(pn) = InsideOf(pipe[pi]) /\ pn.page = pipe[pi].page
    BY <2>1 DEF InsideOf, SameBytes
  <2>3. PICK v : v = InsideOf(pn)
    OBVIOUS
  <2>4. Inside' = [Inside EXCEPT ![pi] = v] /\ Live' = Live
    BY <2>1, <2>2, <2>3, InsideNext
  <2>5. v = Inside[pi]
    BY <2>2, <2>3, InsideIs
  <2>6. Inside' = Inside
    BY <2>4, <2>5, InsideSame
  <2> QED
    BY <2>4, <2>6 DEF Streamed
<1>5. ASSUME NEW pi \in Pipes, NEW k \in 0 .. Held(pi), Takes(pi, k) PROVE Streamed
  <2>1. PICK pn : pn = Taken(pipe[pi], k)
    OBVIOUS
  <2>2. pipe' = [pipe EXCEPT ![pi] = pn] /\ pipe[pi].page
    BY <1>5, <2>1 DEF Takes
  <2>3. PICK c \in PipeType, h \in 0 .. PIPESIZE : c = pipe[pi] /\ h = Held(pi) /\ h = HeldBy(c)
    BY HeldIs
  <2>4. k \in 0 .. h /\ h \in Nat
    BY <2>3, NoPipeIs
  <2>5. /\ SameOpen(c, pn) /\ pn.data = c.data /\ pn.nwrite = c.nwrite /\ pn.nread = Ahead(c.nread, k, UINT)
    <3>1. pn = Taken(c, k) /\ h = HeldBy(c) /\ k \in 0 .. h
      BY <2>1, <2>3, <2>4
    <3> QED
      BY <3>1, ReadIs
  <2>6. InsideOf(pn) = SubSeq(InsideOf(c), k + 1, h)
    <3>1. /\ Holds(c.data, PIPESIZE, Bytes) /\ c.nread \in 0 .. UINT - 1 /\ c.nwrite \in 0 .. UINT - 1
          /\ Ring(PIPESIZE, UINT)
      BY Rings DEF PipeType, Holds
    <3>2. PICK b, r, w, rn :
             /\ b = c.data /\ r = c.nread /\ w = c.nwrite /\ rn = pn.nread
             /\ r \in 0 .. UINT - 1 /\ w \in 0 .. UINT - 1
      BY <3>1
    <3>3. /\ Holds(b, PIPESIZE, Bytes) /\ k \in 0 .. Distance(r, w, UINT) /\ rn = Ahead(r, k, UINT) /\ Ring(PIPESIZE, UINT)
          /\ h = Distance(r, w, UINT)
      BY <2>3, <2>4, <2>5, <3>1, <3>2 DEF HeldBy
    <3>4. Between(b, PIPESIZE, UINT, rn, w) = SubSeq(Between(b, PIPESIZE, UINT, r, w), k + 1, Distance(r, w, UINT))
      BY <3>2, <3>3, DropSeq
    <3> QED
      BY <2>5, <3>2, <3>3, <3>4 DEF InsideOf
  <2>7. PICK v : v = InsideOf(pn)
    OBVIOUS
  <2>8. Inside' = [Inside EXCEPT ![pi] = v] /\ Live' = Live /\ pi \in Live
    <3>1. pn.page = pipe[pi].page /\ pi \in Live /\ pipe' = [pipe EXCEPT ![pi] = pn]
      BY <2>2, <2>3, <2>5 DEF SameOpen, Live
    <3> QED
      BY <2>7, <3>1, InsideNext
  <2>9. Inside[pi] = InsideOf(c) /\ Len(Inside[pi]) = h /\ Inside[pi] \in Seq(Bytes)
    BY <2>3, InsideIs
  <2>10. CASE k = 0
    <3>1. PICK s \in Seq(Bytes) : s = Inside[pi] /\ Len(s) = h
      BY <2>9
    <3>2. SubSeq(s, 1, Len(s)) = s
      OBVIOUS
    <3>3. v = Inside[pi]
      BY <2>6, <2>7, <2>9, <2>10, <3>1, <3>2
    <3>4. Inside' = Inside
      BY <2>8, <3>3, InsideSame
    <3> QED
      BY <2>8, <3>4 DEF Streamed
  <2>11. CASE k # 0
    <3>1. v = SubSeq(Inside[pi], k + 1, Len(Inside[pi]))
      BY <2>6, <2>7, <2>9
    <3>2. Inside' = [Inside EXCEPT ![pi] = SubSeq(Inside[pi], k + 1, Len(Inside[pi]))]
      BY <2>8, <3>1
    <3>3. k \in Nat \ {0} /\ k <= Len(Inside[pi]) /\ Len(Inside[pi]) \in 0 .. PIPESIZE
      BY <2>3, <2>4, <2>9, <2>11
    <3> QED
      BY <2>8, <3>2, <3>3, AbstractRead
  <2> QED
    BY <2>10, <2>11
<1>6. ASSUME NEW pi \in Pipes, NEW t \in Seq(Bytes), Gives(pi, t) PROVE Streamed
  <2>1. PICK pn : pn = Put(pipe[pi], t)
    OBVIOUS
  <2>2. pipe' = [pipe EXCEPT ![pi] = pn] /\ pipe[pi].page
    BY <1>6, <2>1 DEF Gives
  <2>3. PICK c \in PipeType, h \in 0 .. PIPESIZE : c = pipe[pi] /\ h = Held(pi) /\ h = HeldBy(c)
    BY HeldIs
  <2>4. PICK k \in Nat : k = Len(t)
    OBVIOUS
  <2>5. h + k <= PIPESIZE /\ h \in Nat
    BY <1>6, <2>3, <2>4, NoPipeIs DEF Gives
  <2>6. /\ SameOpen(c, pn) /\ pn.data = Puts(c.data, PIPESIZE, c.nwrite, t)
        /\ pn.nwrite = Ahead(c.nwrite, k, UINT) /\ pn.nread = c.nread
    BY <2>1, <2>3, <2>4, <2>5, WriteIs
  <2>7. InsideOf(pn) = InsideOf(c) \o t
    <3>1. /\ Holds(c.data, PIPESIZE, Bytes) /\ c.nread \in 0 .. UINT - 1 /\ c.nwrite \in 0 .. UINT - 1
          /\ Ring(PIPESIZE, UINT)
      BY Rings DEF PipeType, Holds
    <3>2. PICK b, bn, r, w, wn :
             /\ b = c.data /\ bn = pn.data /\ r = c.nread /\ w = c.nwrite /\ wn = pn.nwrite
             /\ r \in 0 .. UINT - 1 /\ w \in 0 .. UINT - 1
      BY <3>1
    <3>3. /\ Holds(b, PIPESIZE, Bytes) /\ wn = Ahead(w, Len(t), UINT) /\ Ring(PIPESIZE, UINT)
          /\ h = Distance(r, w, UINT) /\ h + Len(t) <= PIPESIZE /\ bn = Puts(b, PIPESIZE, w, t)
      BY <2>3, <2>4, <2>5, <2>6, <3>1, <3>2 DEF HeldBy
    <3>4. Fits(h, t, PIPESIZE) /\ wn = AheadOf(w, t)
      BY <3>3 DEF Fits, AheadOf
    <3>5. Behind(Between(bn, PIPESIZE, UINT, r, wn), Between(b, PIPESIZE, UINT, r, w), t)
      BY <3>2, <3>3, <3>4, PutBehind
    <3> QED
      BY <2>6, <3>2, <3>5 DEF InsideOf, Behind
  <2>8. PICK v : v = InsideOf(pn)
    OBVIOUS
  <2>9. Inside' = [Inside EXCEPT ![pi] = v] /\ Live' = Live /\ pi \in Live
    <3>1. pn.page = pipe[pi].page /\ pi \in Live /\ pipe' = [pipe EXCEPT ![pi] = pn]
      BY <2>2, <2>3, <2>6 DEF SameOpen, Live
    <3> QED
      BY <2>8, <3>1, InsideNext
  <2>10. Inside[pi] = InsideOf(c) /\ Len(Inside[pi]) = h /\ Inside[pi] \in Seq(Bytes)
    BY <2>3, InsideIs
  <2>11. CASE k = 0
    <3>1. pn = pipe[pi]
      BY <2>1, <2>3, <2>4, <2>11, WriteNone
    <3>2. v = Inside[pi]
      BY <2>3, <2>8, <2>10, <3>1
    <3>3. Inside' = Inside
      BY <2>9, <3>2, InsideSame
    <3> QED
      BY <2>9, <3>3 DEF Streamed
  <2>12. CASE k # 0
    <3>1. Inside' = [Inside EXCEPT ![pi] = Inside[pi] \o t]
      BY <2>7, <2>8, <2>9, <2>10
    <3>2. Len(t) # 0 /\ Len(Inside[pi]) \in Nat /\ Len(Inside[pi]) + Len(t) <= PIPESIZE
      BY <2>4, <2>5, <2>10, <2>12
    <3> QED
      BY <2>9, <3>1, <3>2, AbstractWrite
  <2> QED
    BY <2>11, <2>12
<1> QED
  BY <1>1, <1>2, <1>3, <1>4, <1>5, <1>6 DEF PipeStep

LEMMA InitStreams == Init => Abstract!Init
<1> SUFFICES ASSUME Init PROVE Abstract!Init
  OBVIOUS
<1>1. IInv
  BY IInvInit
<1>2. ASSUME NEW pi \in Pipes PROVE Inside[pi] = <<>>
  <2>1. pipe[pi] = NoPipe
    BY DEF Init
  <2>2. NoPipe.nwrite = NoPipe.nread /\ NoPipe.nread \in 0 .. UINT - 1
    BY NoPipeIs DEF NoPipe
  <2>3. InsideOf(NoPipe) = <<>>
    BY <2>2, NothingInside
  <2> QED
    BY <1>1, <2>1, <2>3, InsideIs
<1>3. Inside = [pi \in Pipes |-> <<>>]
  <2>1. Inside = [pi \in Pipes |-> Inside[pi]]
    BY DEF Inside
  <2> QED
    BY <1>2, <2>1
<1> QED
  BY <1>3 DEF Abstract!Init, Inside

\* Bytes leave a pipe in the order in which pipewrite() put them in, across the
\* wrap of the array and of the 32-bit counters, never more than PIPESIZE of them
\* are inside, and a page that was a pipe before starts empty.
THEOREM StreamsCorrect == Spec => ImplementsStreams
<1>1. IInv /\ Unused /\ [Next]_vars => Streamed
  BY NextPipes, StepStreams
<1>2. Streamed <=> [Abstract!Next]_<<{pi \in Pipes : pipe[pi].page}, [pi \in Pipes |-> Contents(pi)]>>
  BY DEF Streamed, Live, Inside
<1> QED
  BY <1>1, <1>2, InitStreams, UnusedInit, UnusedNext, IInvCorrect, PTL DEF Spec, ImplementsStreams, Abstract!Spec
=============================================================================
