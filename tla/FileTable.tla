----------------------------- MODULE FileTable ------------------------------
(***************************************************************************)
(* Open files and pipes: the descriptor tables of processes, the file      *)
(* table of file.c, the pipes of pipe.c, and the system calls that use     *)
(* them (sysfile.c; fork() and exit() of proc.c).                          *)
(*                                                                         *)
(* A step holds ftable.lock or the lock of a pipe.  fork() duplicates the  *)
(* descriptors under the child's p->lock, in one step.  All files here are *)
(* pipes; files on inodes are in module FileSystem.                        *)
(***************************************************************************)
EXTENDS Integers, Sequences, FiniteSets, FiniteSetsExt, SequencesExt

CONSTANTS
  Procs, Init0,  \* processes; the one that runs at the start
  NOFILE,        \* descriptors of a process (16)
  NFILE,         \* entries of the file table (100)
  Pipes,         \* pages kalloc() can give for pipes
  PIPESIZE,      \* bytes a pipe holds (512)
  UINT,          \* nread and nwrite count modulo UINT (2^32)
  Payloads,      \* what programs write at once
  ReadSizes,     \* how much programs read at once
  None

ASSUME PipeAssumption ==
  /\ PIPESIZE \in Nat \ {0} /\ UINT \in Nat
  /\ UINT % PIPESIZE = 0 /\ PIPESIZE < UINT
ASSUME TableAssumption == NOFILE \in Nat \ {0} /\ NFILE \in Nat \ {0}

VARIABLES
  alive, killed, \* processes
  ofile,         \* p->ofile
  file,          \* ftable.file
  pipe,          \* the pipes
  op,            \* where each process is in the kernel
  panicked

vars == <<alive, killed, ofile, file, pipe, op, panicked>>

Files == 1 .. NFILE
Fds == 0 .. NOFILE - 1
Bytes == UNION {ToSet(s) : s \in Payloads}

ASSUME ProgramAssumption ==
  /\ IsFiniteSet(Procs) /\ None \notin Files \cup Pipes
  /\ Bytes # {} /\ (\A s \in Payloads : s \in Seq(Bytes)) /\ ReadSizes \subseteq Nat

NoFile == [ref |-> 0, type |-> "none", pipe |-> None, writable |-> FALSE]
\* A page that is no pipe: kfree() and kalloc() fill pages with junk.
Junk == CHOOSE b \in Bytes : TRUE
NoPipe == [page |-> FALSE, data |-> [i \in 0 .. PIPESIZE - 1 |-> Junk],
           nread |-> UINT - 1, nwrite |-> UINT - 1, readopen |-> FALSE, writeopen |-> FALSE]
Idle == [at |-> "user", todo |-> <<>>, pipe |-> None, rest |-> <<>>, n |-> 0, writable |-> FALSE, exiting |-> FALSE]

Wheres == {"user", "pipe1", "pipe2", "close", "pipeclose", "read", "rsleep", "write", "wsleep"}

TypeOK ==
  /\ alive \in [Procs -> BOOLEAN] /\ killed \in [Procs -> BOOLEAN]
  /\ ofile \in [Procs -> [Fds -> Files \cup {None}]]
  /\ file \in [Files -> [ref : Nat, type : {"none", "pipe"},
                         pipe : Pipes \cup {None}, writable : BOOLEAN]]
  /\ \A f \in Files : file[f].ref = 0 => file[f].type = "none"
  /\ pipe \in [Pipes -> [page : BOOLEAN, data : [0 .. PIPESIZE - 1 -> Bytes],
                         nread : 0 .. UINT - 1, nwrite : 0 .. UINT - 1,
                         readopen : BOOLEAN, writeopen : BOOLEAN]]
  /\ \A p \in Procs :
       /\ op[p].at \in Wheres /\ op[p].pipe \in Pipes \cup {None}
       /\ op[p].todo \in Seq(Files) /\ op[p].rest \in Seq(Bytes) /\ op[p].n \in Nat
       /\ op[p].writable \in BOOLEAN /\ op[p].exiting \in BOOLEAN
  /\ panicked \in BOOLEAN

Init ==
  /\ alive = [p \in Procs |-> p = Init0]
  /\ killed = [p \in Procs |-> FALSE]
  /\ ofile = [p \in Procs |-> [fd \in Fds |-> None]]
  /\ file = [f \in Files |-> NoFile]
  /\ pipe = [pi \in Pipes |-> NoPipe]
  /\ op = [p \in Procs |-> Idle]
  /\ panicked = FALSE

Is(p, where) == ~panicked /\ alive[p] /\ op[p].at = where
\* A program that was not killed makes a system call.
Calls(p) == Is(p, "user") /\ ~killed[p]
Goto(p, where) == op' = [op EXCEPT ![p].at = where]
Return(p) == op' = [op EXCEPT ![p] = Idle]

Open(p) == {fd \in Fds : ofile[p][fd] # None}

-----------------------------------------------------------------------------
(* The file table.                                                         *)

\* filealloc() takes the first entry without references; None when all are used.
filealloc ==
  LET unused == {f \in Files : file[f].ref = 0} IN
  IF unused = {} THEN None ELSE Min(unused)

\* The how manieth of the descriptors S one is: loops over p->ofile go upwards.
Rank(S, fd) == Cardinality({x \in S : x <= fd})

\* fdalloc(): p's first free descriptors get the files fs; used when they fit.
fdalloc(p, fs) ==
  LET free == Fds \ Open(p) IN
  [fd \in Fds |-> IF fd \in free /\ Rank(free, fd) <= Len(fs) THEN fs[Rank(free, fd)] ELSE ofile[p][fd]]
FdsLeft(p) == NOFILE - Cardinality(Open(p))

\* p goes on to fileclose() each of fs.
CloseAll(p, fs) == op' = [op EXCEPT ![p] = [Idle EXCEPT !.at = "close", !.todo = fs]]

sys_dup(p) ==
  \E fd \in Open(p) :
    LET f == ofile[p][fd] IN
    /\ Calls(p) /\ FdsLeft(p) > 0
    /\ ofile' = [ofile EXCEPT ![p] = fdalloc(p, <<f>>)]
    /\ file' = [file EXCEPT ![f].ref = @ + 1]
    /\ UNCHANGED <<alive, killed, pipe, op, panicked>>

sys_close(p) ==
  \E fd \in Open(p) :
    /\ Calls(p)
    /\ ofile' = [ofile EXCEPT ![p][fd] = None]
    /\ CloseAll(p, <<ofile[p][fd]>>)
    /\ UNCHANGED <<alive, killed, file, pipe, panicked>>

\* Fault: the entry keeps its type, which the next filealloc() finds.
fileclose_KeepsType(p) ==
  LET f == Head(op[p].todo) IN
  /\ Is(p, "close") /\ op[p].todo # <<>>
  /\ file' = [file EXCEPT ![f].ref = @ - 1]
  /\ op' = [op EXCEPT ![p].todo = Tail(@),
                      ![p].at = IF file[f].ref = 1 /\ file[f].type = "pipe" THEN "pipeclose" ELSE @,
                      ![p].pipe = IF file[f].ref > 1 THEN @ ELSE file[f].pipe,
                      ![p].writable = file[f].writable]
  /\ UNCHANGED <<alive, killed, ofile, pipe, panicked>>

\* fileclose(), under ftable.lock; what the file stands for is closed next, from
\* the copy ff.  Only the type of an entry without references is ever read.
fileclose(p) ==
  LET f == Head(op[p].todo) IN
  /\ Is(p, "close") /\ op[p].todo # <<>>
  /\ IF file[f].ref < 1
     THEN panicked' = TRUE /\ UNCHANGED <<file, op>>
     ELSE IF file[f].ref > 1
     THEN /\ file' = [file EXCEPT ![f].ref = @ - 1]
          /\ op' = [op EXCEPT ![p].todo = Tail(@)]
          /\ UNCHANGED panicked
     ELSE /\ file' = [file EXCEPT ![f] = NoFile]
          /\ op' = [op EXCEPT ![p].todo = Tail(@), ![p].at = IF file[f].type = "pipe" THEN "pipeclose" ELSE @,
                              ![p].pipe = file[f].pipe, ![p].writable = file[f].writable]
          /\ UNCHANGED panicked
  /\ UNCHANGED <<alive, killed, ofile, pipe>>

\* The last file is closed; exit() is done with the process.
Closed(p) ==
  /\ Is(p, "close") /\ op[p].todo = <<>>
  /\ IF op[p].exiting
     THEN alive' = [alive EXCEPT ![p] = FALSE] /\ killed' = [killed EXCEPT ![p] = FALSE]
     ELSE UNCHANGED <<alive, killed>>
  /\ Return(p)
  /\ UNCHANGED <<ofile, file, pipe, panicked>>

-----------------------------------------------------------------------------
(* Making and closing a pipe.                                              *)

\* pipealloc() takes the two files one after the other ...
sys_pipe(p) ==
  /\ Calls(p)
  /\ filealloc # None
  /\ file' = [file EXCEPT ![filealloc].ref = 1]
  /\ op' = [op EXCEPT ![p].at = "pipe1", ![p].todo = <<filealloc>>]
  /\ UNCHANGED <<alive, killed, ofile, pipe, panicked>>

\* Fault: the first file is forgotten when there is no second.
PipeSecondFile_Leaks(p) ==
  LET f == filealloc IN
  /\ Is(p, "pipe1")
  /\ IF f = None
     THEN Return(p) /\ UNCHANGED file
     ELSE /\ file' = [file EXCEPT ![f].ref = 1]
          /\ op' = [op EXCEPT ![p].at = "pipe2", ![p].todo = Append(@, f)]
  /\ UNCHANGED <<alive, killed, ofile, pipe, panicked>>

\* ... and gives the first back when there is no second.
PipeSecondFile(p) ==
  LET f == filealloc IN
  /\ Is(p, "pipe1")
  /\ IF f = None
     THEN CloseAll(p, op[p].todo) /\ UNCHANGED file
     ELSE /\ file' = [file EXCEPT ![f].ref = 1]
          /\ op' = [op EXCEPT ![p].at = "pipe2", ![p].todo = Append(@, f)]
  /\ UNCHANGED <<alive, killed, ofile, pipe, panicked>>

\* Fault: the counters of a page that was a pipe before are not reset.
NewPipe_OldCounters(old) ==
  [old EXCEPT !.page = TRUE, !.readopen = TRUE, !.writeopen = TRUE, !.nread = 0]

NewPipe(old) ==
  [old EXCEPT !.page = TRUE, !.readopen = TRUE, !.writeopen = TRUE, !.nread = 0, !.nwrite = 0]

\* kalloc() has no page left, which the rest of the kernel may have used: the
\* bad path of pipealloc().
PipeNoPage(p) ==
  /\ Is(p, "pipe2")
  /\ CloseAll(p, op[p].todo)
  /\ UNCHANGED <<alive, killed, ofile, file, pipe, panicked>>

\* The pipe is made; sys_pipe() gives it two descriptors, or closes both files
\* when there are not two, or when copyout() fails.
PipeMade(p) ==
  \E pi \in Pipes :
    LET rf == op[p].todo[1]  wf == op[p].todo[2] IN
    /\ Is(p, "pipe2")
    /\ ~pipe[pi].page
    /\ pipe' = [pipe EXCEPT ![pi] = NewPipe(@)]
    /\ file' = [file EXCEPT ![rf] = [ref |-> 1, type |-> "pipe", pipe |-> pi, writable |-> FALSE],
                            ![wf] = [ref |-> 1, type |-> "pipe", pipe |-> pi, writable |-> TRUE]]
    /\ \/ /\ FdsLeft(p) >= 2
          /\ ofile' = [ofile EXCEPT ![p] = fdalloc(p, op[p].todo)]
          /\ Return(p)
       \/ CloseAll(p, op[p].todo) /\ UNCHANGED ofile
    /\ UNCHANGED <<alive, killed, panicked>>

\* wakeup() on a pipe's nread (rsleep) or nwrite (wsleep).
Woken(o, pi, chan) ==
  [q \in Procs |-> IF o[q].at = chan /\ o[q].pipe = pi
                   THEN [o[q] EXCEPT !.at = IF chan = "rsleep" THEN "read" ELSE "write"] ELSE o[q]]

\* Fault: a closed write end does not wake the readers.
pipeclose_NoWakeup(p) ==
  LET pi == op[p].pipe
      end == IF op[p].writable THEN [pipe[pi] EXCEPT !.writeopen = FALSE]
                            ELSE [pipe[pi] EXCEPT !.readopen = FALSE]
  IN
  /\ Is(p, "pipeclose")
  /\ pipe' = [pipe EXCEPT ![pi] = IF end.readopen \/ end.writeopen THEN end ELSE NoPipe]
  /\ op' = [op EXCEPT ![p].at = "close", ![p].pipe = None, ![p].writable = FALSE]
  /\ UNCHANGED <<alive, killed, ofile, file, panicked>>

\* Fault: the page goes with the first end.
pipeclose_Frees(p) ==
  LET pi == op[p].pipe IN
  /\ Is(p, "pipeclose")
  /\ pipe' = [pipe EXCEPT ![pi] = NoPipe]
  /\ op' = [Woken(op, pi, IF op[p].writable THEN "rsleep" ELSE "wsleep") EXCEPT
              ![p].at = "close", ![p].pipe = None, ![p].writable = FALSE]
  /\ UNCHANGED <<alive, killed, ofile, file, panicked>>

\* pipeclose(): the second end frees the page.
pipeclose(p) ==
  LET pi == op[p].pipe
      end == IF op[p].writable THEN [pipe[pi] EXCEPT !.writeopen = FALSE]
                            ELSE [pipe[pi] EXCEPT !.readopen = FALSE]
  IN
  /\ Is(p, "pipeclose")
  /\ pipe' = [pipe EXCEPT ![pi] = IF end.readopen \/ end.writeopen THEN end ELSE NoPipe]
  /\ op' = [Woken(op, pi, IF op[p].writable THEN "rsleep" ELSE "wsleep") EXCEPT
              ![p].at = "close", ![p].pipe = None, ![p].writable = FALSE]
  /\ UNCHANGED <<alive, killed, ofile, file, panicked>>

-----------------------------------------------------------------------------
(* Reading and writing.                                                    *)

\* sys_read() and sys_write() of a pipe's descriptor, which refuse the other
\* direction.
sys_read(p) ==
  \E fd \in Open(p), n \in ReadSizes :
    LET f == file[ofile[p][fd]] IN
    /\ Calls(p) /\ f.type = "pipe" /\ ~f.writable
    /\ op' = [op EXCEPT ![p].at = "read", ![p].pipe = f.pipe, ![p].n = n]
    /\ UNCHANGED <<alive, killed, ofile, file, pipe, panicked>>

sys_write(p) ==
  \E fd \in Open(p), s \in Payloads :
    LET f == file[ofile[p][fd]] IN
    /\ Calls(p) /\ f.type = "pipe" /\ f.writable
    /\ op' = [op EXCEPT ![p].at = "write", ![p].pipe = f.pipe, ![p].rest = s]
    /\ UNCHANGED <<alive, killed, ofile, file, pipe, panicked>>

\* nwrite == nread + PIPESIZE, in 32-bit arithmetic.
Full(pi) == pipe[pi].nwrite = (pipe[pi].nread + PIPESIZE) % UINT
Empty(pi) == pipe[pi].nwrite = pipe[pi].nread

\* Bytes in the pipe, and room for more.
Held(pi) == (pipe[pi].nwrite - pipe[pi].nread) % UINT

\* Fault: a pipe takes one byte more than it has.
Room_OneMore(pi) == PIPESIZE + 1 - Held(pi)

Room(pi) == PIPESIZE - Held(pi)

\* data[nwrite++ % PIPESIZE] = ch, for every byte of s.
Put(pp, s) ==
  [pp EXCEPT !.nwrite = (@ + Len(s)) % UINT,
             !.data = [i \in 0 .. PIPESIZE - 1 |->
                         IF \E j \in DOMAIN s : (pp.nwrite + j - 1) % PIPESIZE = i
                         THEN s[CHOOSE j \in DOMAIN s : (pp.nwrite + j - 1) % PIPESIZE = i]
                         ELSE @[i]]]

\* The loop of pipewrite() up to the point where it sleeps or returns: the
\* reader is gone or p was killed; or the bytes that fit go in and p sleeps
\* with some left, or returns with all written.  copyin() of a byte may fail
\* (k is smaller), which ends the call.
pipewrite(p) ==
  LET pi == op[p].pipe  s == op[p].rest  most == IF Len(s) <= Room(pi) THEN Len(s) ELSE Room(pi) IN
  /\ Is(p, "write")
  /\ IF ~pipe[pi].readopen \/ killed[p]
     THEN Return(p) /\ UNCHANGED pipe
     ELSE \E k \in 0 .. most :
            /\ pipe' = [pipe EXCEPT ![pi] = Put(@, SubSeq(s, 1, k))]
            /\ op' = [Woken(op, pi, "rsleep") EXCEPT
                        ![p] = IF k = most /\ k < Len(s)
                               THEN [op[p] EXCEPT !.at = "wsleep", !.rest = SubSeq(s, k + 1, Len(s))]
                               ELSE Idle]
  /\ UNCHANGED <<alive, killed, ofile, file, panicked>>

\* Fault: the reader does not wake writers that wait for room.
piperead_NoWakeup(p) ==
  LET pi == op[p].pipe IN
  /\ Is(p, "read")
  /\ IF Empty(pi) /\ pipe[pi].writeopen
     THEN IF killed[p] THEN Return(p) /\ UNCHANGED pipe
                       ELSE Goto(p, "rsleep") /\ UNCHANGED pipe
     ELSE /\ pipe' = [pipe EXCEPT ![pi].nread = (@ + Min({op[p].n, Held(pi)})) % UINT]
          /\ Return(p)
  /\ UNCHANGED <<alive, killed, ofile, file, panicked>>

\* piperead(): p waits for a byte or for the last writer to go, then takes what
\* there is; copyout() may fail after a byte was taken.
piperead(p) ==
  LET pi == op[p].pipe  most == Min({op[p].n, Held(pi)}) IN
  /\ Is(p, "read")
  /\ IF Empty(pi) /\ pipe[pi].writeopen
     THEN IF killed[p] THEN Return(p) /\ UNCHANGED pipe
                       ELSE Goto(p, "rsleep") /\ UNCHANGED pipe
     ELSE \E k \in Min({1, most}) .. most :
            /\ pipe' = [pipe EXCEPT ![pi].nread = (@ + k) % UINT]
            /\ op' = [Woken(op, pi, "wsleep") EXCEPT ![p] = Idle]
  /\ UNCHANGED <<alive, killed, ofile, file, panicked>>

-----------------------------------------------------------------------------
(* Processes.                                                              *)

fork(p) ==
  \E q \in Procs :
    /\ Calls(p) /\ ~alive[q]
    /\ alive' = [alive EXCEPT ![q] = TRUE]
    /\ ofile' = [ofile EXCEPT ![q] = ofile[p]]
    /\ file' = [f \in Files |->
                  [file[f] EXCEPT !.ref = @ + Cardinality({fd \in Fds : ofile[p][fd] = f})]]
    /\ UNCHANGED <<killed, pipe, op, panicked>>

\* kill() also wakes the process it marks.
kill(p) ==
  /\ ~panicked /\ alive[p] /\ ~killed[p] /\ p # Init0
  /\ killed' = [killed EXCEPT ![p] = TRUE]
  /\ op' = [op EXCEPT ![p].at = CASE @ = "rsleep" -> "read" [] @ = "wsleep" -> "write" [] OTHER -> @]
  /\ UNCHANGED <<alive, ofile, file, pipe, panicked>>

\* exit() closes every descriptor in turn.
exit(p) ==
  /\ Is(p, "user") /\ p # Init0
  /\ op' = [op EXCEPT ![p].at = "close", ![p].exiting = TRUE,
                      ![p].todo = [i \in 1 .. Cardinality(Open(p)) |->
                                     ofile[p][CHOOSE fd \in Open(p) : Rank(Open(p), fd) = i]]]
  /\ ofile' = [ofile EXCEPT ![p] = [fd \in Fds |-> None]]
  /\ UNCHANGED <<alive, killed, file, pipe, panicked>>

-----------------------------------------------------------------------------
\* The rest of a call; a killed program exits at its next trap.
Proceed(p) ==
  \/ fileclose(p) \/ Closed(p) \/ pipeclose(p)
  \/ PipeSecondFile(p) \/ PipeNoPage(p) \/ PipeMade(p)
  \/ pipewrite(p) \/ piperead(p)
  \/ killed[p] /\ exit(p)

Call(p) ==
  \/ sys_dup(p) \/ sys_close(p) \/ sys_pipe(p)
  \/ sys_read(p) \/ sys_write(p) \/ fork(p)
  \/ ~killed[p] /\ exit(p)

Next == \E p \in Procs : Proceed(p) \/ Call(p) \/ kill(p)

Spec == Init /\ [][Next]_vars

-----------------------------------------------------------------------------
(* Properties.                                                             *)

\* A file has as many references as descriptors and calls in progress hold of
\* it, through dup(), fork(), exit() and every failing return of sys_pipe().
RefsExact ==
  \A f \in Files :
       file[f].ref = Cardinality({x \in Procs \X Fds : ofile[x[1]][x[2]] = f})
                       + Cardinality({x \in Procs \X (1 .. NOFILE + 2) :
                                        x[2] \in DOMAIN op[x[1]].todo /\ op[x[1]].todo[x[2]] = f})

\* A pipe's page is kept exactly as long as one of its ends: an end is open as
\* long as a file stands for it or its close is on the way, so the page is
\* freed once and no file and no process in a call refers to a freed one.
EndsMatch ==
  \A pi \in Pipes :
    LET Ends(w) == {f \in Files : file[f].type = "pipe" /\ file[f].pipe = pi /\ file[f].writable = w}
        Closing(w) == {p \in Procs : op[p].at = "pipeclose" /\ op[p].pipe = pi /\ op[p].writable = w}
    IN
    /\ Cardinality(Ends(TRUE)) + Cardinality(Closing(TRUE)) = (IF pipe[pi].writeopen THEN 1 ELSE 0)
    /\ Cardinality(Ends(FALSE)) + Cardinality(Closing(FALSE)) = (IF pipe[pi].readopen THEN 1 ELSE 0)
    /\ pipe[pi].page = (pipe[pi].readopen \/ pipe[pi].writeopen)
    /\ \A p \in Procs : op[p].pipe = pi => pipe[pi].page

\* Files and pipes are accounted for: no entry of the table and no page of a pipe
\* is lost or given back early, whatever fails and whoever exits first.
FileInv == TypeOK /\ RefsExact /\ EndsMatch

\* Nobody sleeps on a pipe without a reason: a reader only while the pipe is
\* empty and has a writer, a writer only while it is full and has a reader,
\* and nobody who was killed.
SleepersMustWait ==
  \A p \in Procs :
    /\ op[p].at \in {"rsleep", "wsleep"} => ~killed[p]
    /\ op[p].at = "rsleep" => Empty(op[p].pipe) /\ pipe[op[p].pipe].writeopen
    /\ op[p].at = "wsleep" => Full(op[p].pipe) /\ pipe[op[p].pipe].readopen

\* Bytes inside each pipe, from nread to nwrite.
Contents(pi) ==
  [i \in 1 .. Held(pi) |-> pipe[pi].data[(pipe[pi].nread + i - 1) % PIPESIZE]]

Abstract == INSTANCE Streams WITH
  Size <- PIPESIZE, live <- {pi \in Pipes : pipe[pi].page}, stream <- [pi \in Pipes |-> Contents(pi)]

\* Bytes leave a pipe in the order they went in, across the wrap of the array
\* and of the 32-bit counters, and a page that was a pipe before starts empty.
ImplementsStreams == Abstract!Spec
=============================================================================
