----------------------------- MODULE FileSystem -----------------------------
(***************************************************************************)
(* Inodes, directories, path names and symbolic links: the inode table of  *)
(* fs.c and the system calls of sysfile.c on names.                        *)
(*                                                                         *)
(* A step is what a process does between one ilock() and the next lock it  *)
(* takes or drops for good; the parts of iput() hold itable.lock or the    *)
(* lock of the inode.  The inode and the directory entries on disk change  *)
(* only under the lock of the inode (ialloc(): of its buffer), and a copy  *)
(* in the table is written back in the step that changes it (iupdate()).   *)
(* The blocks behind them are in module BlockMap, transactions in Log,     *)
(* files that are pipes in FileTable.                                      *)
(***************************************************************************)
EXTENDS Integers, Sequences, FiniteSets, FiniteSetsExt

CONSTANTS
  Procs,
  NINODES,       \* inodes of the disk, number 1 the root (sb.ninodes - 1)
  Names,         \* names of directory entries
  Programs,      \* what programs do in one behaviour: the system calls they make, the
                 \* paths, [abs : BOOLEAN, elems : Seq(Names \cup Dots)], and how they
                 \* open files that exist
  FullIn,        \* the calls in which the disk may run out of blocks
  LINKS,         \* cnt of sys_open() (10)
  None

ASSUME DiskAssumption == NINODES \in Nat \ {0} /\ LINKS \in Nat \ {0}
ASSUME NoneAssumption ==
  /\ IsFiniteSet(Procs) /\ None \notin Procs /\ None \notin [ip : Nat, writable : BOOLEAN]
  /\ None \notin {"open", "link", "unlink", "mkdir", "mknod", "symlink", "chdir"}
ASSUME ChoiceAssumption ==
  /\ \A g \in Programs : g.calls \subseteq
       {"creat", "open", "close", "link", "unlink", "mkdir", "mknod", "symlink", "chdir"}
  /\ \A g \in Programs : g.modes \subseteq {"read", "write", "nofollow"}
  /\ \A g \in Programs : g.paths \subseteq [abs : BOOLEAN, elems : Seq(Names \cup {".", ".."})]

VARIABLES
  program,       \* what programs do in this behaviour
  dinode,        \* inodes on disk with their content
  icache,        \* itable
  cwd,           \* p->cwd
  ofile,         \* the open file of each process on an inode, at most one
  op             \* where each process is in the kernel

vars == <<program, dinode, icache, cwd, ofile, op>>

Inums == 1 .. NINODES
ROOTINO == 1
Dots == {".", ".."}
\* A device with a major number that the kernel knows is "dev", else "baddev".
Types == {"free", "dir", "file", "dev", "baddev", "symlink"}

\* No inode and no entry has number 0.
NoEnts == [n \in Names \cup Dots |-> 0]
FreeDinode == [type |-> "free", nlink |-> 0, ents |-> NoEnts, target |-> None]
NoInode == [ref |-> 0, valid |-> FALSE, lock |-> None, type |-> "free", nlink |-> 0]

\* A call: the walk of namex() at wp with rest to go, what it is for (parent,
\* then, else), and the references and locks the call holds on ip and dp.  The
\* references in puts are dropped, one iput() each, before the call goes on; path
\* is the buffer of sys_open().
Idle == [at |-> "user", call |-> None, arg |-> None, path |-> None, name |-> None, wp |-> 0, rest |-> <<>>,
         parent |-> FALSE, then |-> None, ip |-> 0, dp |-> 0, cnt |-> 0,
         puts |-> <<>>, iput |-> "check"]

TypeOK ==
  /\ dinode \in [Inums -> [type : Types, nlink : Nat, target : program.paths \cup {None},
                           ents : [Names \cup Dots -> Inums \cup {0}]]]
  /\ icache \in [Inums -> [ref : Nat, valid : BOOLEAN, lock : Procs \cup {None},
                           type : Types, nlink : Nat]]
  /\ cwd \in [Procs -> Inums]
  /\ \A p \in Procs : ofile[p] # None => ofile[p].ip \in Inums
  /\ \A p \in Procs : op[p].puts \in Seq(Inums) /\ Len(op[p].puts) <= 2 /\ op[p].iput \in {"check", "trunc", "drop"}

Init ==
  /\ program \in Programs
  /\ dinode = [i \in Inums |->
                 IF i = ROOTINO
                 THEN [FreeDinode EXCEPT !.type = "dir", !.nlink = 1, !.ents["."] = i, !.ents[".."] = i]
                 ELSE FreeDinode]
  /\ icache = [i \in Inums |-> [NoInode EXCEPT !.ref = IF i = ROOTINO THEN Cardinality(Procs) ELSE 0]]
  /\ cwd = [p \in Procs |-> ROOTINO]
  /\ ofile = [p \in Procs |-> None]
  /\ op = [p \in Procs |-> Idle]

-----------------------------------------------------------------------------
(* The inode table.                                                        *)

\* The process goes on from where it is; its iputs come first.
Is(p, where) == op[p].at = where /\ op[p].puts = <<>>

\* The inode that p locks next, 0 if none.
Wants(p) ==
  CASE op[p].at = "walk" -> op[p].wp
    [] op[p].at \in {"create", "unlink1", "link2"} -> op[p].dp
    [] op[p].at \in {"exists", "fill", "open", "follow2", "unlink2", "link1", "linkbad", "chdir"} -> op[p].ip
    [] OTHER -> 0

\* ilock() reads an inode that is not valid.
ilock(c, i, p) ==
  [c EXCEPT ![i] = IF @.valid THEN [@ EXCEPT !.lock = p]
                   ELSE [@ EXCEPT !.lock = p, !.valid = TRUE,
                                  !.type = dinode[i].type, !.nlink = dinode[i].nlink]]
iunlock(c, i) == [c EXCEPT ![i].lock = None]
\* A step that locks and unlocks.
Visit(c, i) == iunlock(ilock(c, i, None), i)

\* The copy of i that a process holding its lock reads.
Copy(i) == ilock(icache, i, None)[i]

\* p panics: ilock() finds a free inode, dirlookup() no directory, or unlink()
\* an entry for an inode without links.
Panics(p) ==
  /\ op[p].puts = <<>> /\ Wants(p) # 0 /\ icache[Wants(p)].lock = None
  /\ \/ ~icache[Wants(p)].valid /\ dinode[Wants(p)].type = "free"
     \/ Wants(p) = op[p].dp /\ Copy(Wants(p)).type # "dir"
     \/ op[p].at = "unlink2" /\ Copy(Wants(p)).nlink < 1

\* p gets the inode it waits for.
Locks(p, where) == Is(p, where) /\ Wants(p) # 0 /\ icache[Wants(p)].lock = None /\ ~Panics(p)

\* iget() and idup(): the first reference makes the copy invalid.  The table has
\* room for every inode of the instance.
iget(c, i) == [c EXCEPT ![i].ref = c[i].ref + 1, ![i].valid = c[i].valid /\ c[i].ref > 0]

\* Change of nlink with iupdate().
SetLinks(i, c, d, n) ==
  /\ icache' = [c EXCEPT ![i].nlink = n]
  /\ dinode' = [d EXCEPT ![i].nlink = n]

\* Fault: an inode without links is freed under those who use it.
LastRef_AnyRef(i) == icache[i].valid /\ icache[i].nlink = 0

LastRef(i) == icache[i].ref = 1 /\ icache[i].valid /\ icache[i].nlink = 0

\* iput(): the last reference to an inode without links frees it ...
iputLast(p) ==
  LET i == Head(op[p].puts) IN
  /\ op[p].puts # <<>> /\ op[p].iput = "check"
  /\ LastRef(i) /\ icache[i].lock = None
  /\ icache' = [icache EXCEPT ![i].lock = p]
  /\ op' = [op EXCEPT ![p].iput = "trunc"]
  /\ UNCHANGED <<program, dinode, cwd, ofile>>

\* Fault: the copy stays valid for the next one who gets the number.
iputTrunc_StaysValid(p) ==
  LET i == Head(op[p].puts) IN
  /\ op[p].puts # <<>> /\ op[p].iput = "trunc"
  /\ dinode' = [dinode EXCEPT ![i] = FreeDinode]
  /\ icache' = [icache EXCEPT ![i].type = "free", ![i].lock = None]
  /\ op' = [op EXCEPT ![p].iput = "drop"]
  /\ UNCHANGED <<program, cwd, ofile>>

\* ... with itable.lock released and the inode locked: itrunc(), type = 0 ...
iputTrunc(p) ==
  LET i == Head(op[p].puts) IN
  /\ op[p].puts # <<>> /\ op[p].iput = "trunc"
  /\ dinode' = [dinode EXCEPT ![i] = FreeDinode]
  /\ icache' = [icache EXCEPT ![i].type = "free", ![i].valid = FALSE, ![i].lock = None]
  /\ op' = [op EXCEPT ![p].iput = "drop"]
  /\ UNCHANGED <<program, cwd, ofile>>

\* ... and gives the reference back.
iput(p) ==
  LET i == Head(op[p].puts) IN
  /\ op[p].puts # <<>>
  /\ op[p].iput = "drop" \/ (op[p].iput = "check" /\ ~LastRef(i))
  /\ icache' = [icache EXCEPT ![i].ref = @ - 1]
  /\ op' = [op EXCEPT ![p].puts = Tail(@), ![p].iput = "check"]
  /\ UNCHANGED <<program, dinode, cwd, ofile>>

\* The call ends after these iputs, or goes on as next after them.
Return(p, puts) == op' = [op EXCEPT ![p] = [Idle EXCEPT !.puts = puts]]
Become(p, next) == op' = [op EXCEPT ![p] = next]

-----------------------------------------------------------------------------
(* Paths.                                                                  *)

\* namex() starts at the root or at the current directory.
Start(p, path) == IF path.abs THEN ROOTINO ELSE cwd[p]

\* namex() returns 0: the call fails, or link() undoes what it did.
NotFound(o, puts) ==
  IF o.call = "link" /\ o.ip # 0
  THEN [o EXCEPT !.at = "linkbad", !.wp = 0, !.rest = <<>>, !.puts = puts]
  ELSE [Idle EXCEPT !.puts = puts]

\* The path is used up: namei() has its inode, nameiparent() nothing.
Arrived(o) ==
  IF o.rest # <<>> THEN o
  ELSE IF o.parent THEN NotFound(o, <<o.wp>>)
  ELSE [o EXCEPT !.at = o.then, !.ip = o.wp, !.wp = 0]

\* op[p] as it walks path, for the inode itself or for its directory.
Walking(p, o, path, parent, then) ==
  Arrived([o EXCEPT !.at = "walk", !.wp = Start(p, path), !.rest = path.elems, !.parent = parent, !.then = then])

\* Fault: the directory is put before the entry's inode is referenced, by a
\* walk that does not keep it.
namex_NoRef(p) ==
  LET o == op[p]  i == o.wp  e == dinode[i].ents[Head(o.rest)] IN
  /\ Locks(p, "walk")
  /\ ~(o.parent /\ Len(o.rest) = 1) /\ Copy(i).type = "dir" /\ e # 0
  /\ icache' = Visit(icache, i)
  /\ Become(p, Arrived([o EXCEPT !.wp = e, !.rest = Tail(@)]))
  /\ UNCHANGED <<program, dinode, cwd, ofile>>

\* One element of the path: dirlookup() under the lock of the directory.
namex(p) ==
  LET o == op[p]  i == o.wp  e == dinode[i].ents[Head(o.rest)] IN
  /\ Locks(p, "walk")
  /\ ~(o.parent /\ Len(o.rest) = 1) /\ Copy(i).type = "dir" /\ e # 0
  /\ icache' = iget(Visit(icache, i), e)
  /\ Become(p, Arrived([o EXCEPT !.wp = e, !.rest = Tail(@), !.puts = <<i>>]))
  /\ UNCHANGED <<program, dinode, cwd, ofile>>

namexFails(p) ==
  LET o == op[p]  i == o.wp IN
  /\ Locks(p, "walk")
  /\ \/ Copy(i).type # "dir"
     \/ ~(o.parent /\ Len(o.rest) = 1) /\ dinode[i].ents[Head(o.rest)] = 0
  /\ icache' = Visit(icache, i)
  /\ Become(p, NotFound(o, <<i>>))
  /\ UNCHANGED <<program, dinode, cwd, ofile>>

\* nameiparent() stops one level early, unlocked.
nameiparent(p) ==
  LET o == op[p]  i == o.wp IN
  /\ Locks(p, "walk") /\ o.parent /\ Len(o.rest) = 1
  /\ Copy(i).type = "dir"
  /\ icache' = Visit(icache, i)
  /\ Become(p, [o EXCEPT !.at = o.then, !.wp = 0, !.dp = i, !.name = Head(o.rest), !.rest = <<>>])
  /\ UNCHANGED <<program, dinode, cwd, ofile>>

-----------------------------------------------------------------------------
(* link() and unlink().                                                    *)

\* Fault: the link is counted after the entry was made.
sys_link_CountsLate(p) ==
  LET o == op[p]  i == o.ip IN
  /\ Locks(p, "link1")
  /\ IF Copy(i).type = "dir"
     THEN Return(p, <<i>>) /\ icache' = Visit(icache, i)
     ELSE /\ icache' = iget(Visit(icache, i), Start(p, o.arg))
          /\ Become(p, Walking(p, o, o.arg, TRUE, "link2"))
  /\ UNCHANGED <<program, dinode, cwd, ofile>>

\* sys_link() counts the link first.
sys_link(p) ==
  LET o == op[p]  i == o.ip IN
  /\ Locks(p, "link1")
  /\ IF Copy(i).type = "dir"
     THEN Return(p, <<i>>) /\ icache' = Visit(icache, i) /\ UNCHANGED dinode
     ELSE /\ SetLinks(i, iget(Visit(icache, i), Start(p, o.arg)), dinode, Copy(i).nlink + 1)
          /\ Become(p, Walking(p, o, o.arg, TRUE, "link2"))
  /\ UNCHANGED <<program, cwd, ofile>>

\* Whether writei() finds the blocks it needs.
Room(p) == IF op[p].call \in FullIn THEN BOOLEAN ELSE {TRUE}

\* Then it makes the entry; dirlink() fails when there is one of this name,
\* whose inode it gets and puts, or when the disk is full.
LinkEntry(p) ==
  LET o == op[p]  d == o.dp  e == dinode[d].ents[o.name] IN
  /\ Locks(p, "link2")
  /\ IF e # 0
     THEN /\ icache' = iget(ilock(icache, d, p), e)
          /\ Become(p, [o EXCEPT !.at = "linkfail", !.puts = <<e>>])
          /\ UNCHANGED dinode
     ELSE /\ icache' = Visit(icache, d)
          /\ \E ok \in Room(p) :
               IF ok THEN dinode' = [dinode EXCEPT ![d].ents[o.name] = o.ip] /\ Return(p, <<d, o.ip>>)
                     ELSE Become(p, [o EXCEPT !.at = "linkbad", !.dp = 0, !.puts = <<d>>]) /\ UNCHANGED dinode
  /\ UNCHANGED <<program, cwd, ofile>>

LinkFails(p) ==
  LET o == op[p] IN
  /\ Is(p, "linkfail")
  /\ icache' = iunlock(icache, o.dp)
  /\ Become(p, [o EXCEPT !.at = "linkbad", !.dp = 0, !.puts = <<o.dp>>])
  /\ UNCHANGED <<program, dinode, cwd, ofile>>

\* bad: of sys_link() uncounts it.
LinkBad(p) ==
  LET i == op[p].ip IN
  /\ Locks(p, "linkbad")
  /\ SetLinks(i, Visit(icache, i), dinode, Copy(i).nlink - 1)
  /\ Return(p, <<i>>)
  /\ UNCHANGED <<program, cwd, ofile>>

isdirempty(i) == \A n \in Names : dinode[i].ents[n] = 0

\* Fault: the directory is unlocked between the lookup and the removal.
sys_unlink_Unlocks(p) ==
  LET o == op[p]  d == o.dp  e == dinode[d].ents[o.name] IN
  /\ Locks(p, "unlink1")
  /\ IF o.name \in Dots \/ e = 0
     THEN Return(p, <<d>>) /\ icache' = Visit(icache, d)
     ELSE /\ icache' = iget(Visit(icache, d), e)
          /\ Become(p, [o EXCEPT !.at = "unlink2", !.ip = e])
  /\ UNCHANGED <<program, dinode, cwd, ofile>>

\* sys_unlink() locks the directory, then the inode.
sys_unlink(p) ==
  LET o == op[p]  d == o.dp  e == dinode[d].ents[o.name] IN
  /\ Locks(p, "unlink1")
  /\ IF o.name \in Dots \/ e = 0
     THEN Return(p, <<d>>) /\ icache' = Visit(icache, d)
     ELSE /\ icache' = iget(ilock(icache, d, p), e)
          /\ Become(p, [o EXCEPT !.at = "unlink2", !.ip = e])
  /\ UNCHANGED <<program, dinode, cwd, ofile>>

UnlinkEntry(p) ==
  LET o == op[p]  i == o.ip  d == o.dp  less == IF Copy(i).type = "dir" THEN 1 ELSE 0 IN
  /\ Locks(p, "unlink2")
  /\ IF Copy(i).type = "dir" /\ ~isdirempty(i)
     THEN /\ icache' = Visit(icache, i)
          /\ Become(p, [o EXCEPT !.at = "failed", !.ip = 0, !.puts = <<i>>])
          /\ UNCHANGED dinode
     ELSE /\ icache' = [iunlock(ilock(icache, i, p), d) EXCEPT ![d].nlink = @ - less]
          /\ dinode' = [dinode EXCEPT ![d].ents[o.name] = 0, ![d].nlink = @ - less]
          /\ Become(p, [o EXCEPT !.at = "unlink3", !.dp = 0, !.puts = <<d>>])
  /\ UNCHANGED <<program, cwd, ofile>>

\* The entry and the directory are gone, the inode is still locked.
Unlinked(p) ==
  LET i == op[p].ip IN
  /\ Is(p, "unlink3")
  /\ SetLinks(i, iunlock(icache, i), dinode, icache[i].nlink - 1)
  /\ Return(p, <<i>>)
  /\ UNCHANGED <<program, cwd, ofile>>

\* The failing returns that still hold the directory.
Failed(p) ==
  /\ Is(p, "failed")
  /\ icache' = iunlock(icache, op[p].dp)
  /\ Return(p, <<op[p].dp>>)
  /\ UNCHANGED <<program, dinode, cwd, ofile>>

-----------------------------------------------------------------------------
(* create().                                                               *)

\* The type that each call creates.
TypeFor(o) ==
  CASE o.call = "open" -> "file" [] o.call = "mkdir" -> "dir" [] o.call = "mknod" -> o.arg [] o.call = "symlink" -> "symlink"

\* dirlookup() under the lock of the directory, which stays locked if the name
\* is new.
create(p) ==
  LET o == op[p]  d == o.dp  e == dinode[d].ents[o.name] IN
  /\ Locks(p, "create")
  /\ IF e # 0
     THEN /\ icache' = iget(Visit(icache, d), e)
          /\ Become(p, [o EXCEPT !.at = "exists", !.ip = e, !.dp = 0, !.puts = <<d>>])
     ELSE /\ icache' = ilock(icache, d, p)
          /\ Become(p, [o EXCEPT !.at = "ialloc"])
  /\ UNCHANGED <<program, dinode, cwd, ofile>>

\* An existing name is only good for open().
Exists(p) ==
  LET o == op[p]  i == o.ip IN
  /\ Locks(p, "exists")
  /\ IF o.call = "open" /\ Copy(i).type \in {"file", "dev", "baddev"}
     THEN icache' = ilock(icache, i, p) /\ Become(p, [o EXCEPT !.at = "opened"])
     ELSE icache' = Visit(icache, i) /\ Return(p, <<i>>)
  /\ UNCHANGED <<program, dinode, cwd, ofile>>

\* ialloc() takes the first free inode of the disk.
ialloc(p) ==
  LET o == op[p]  free == {i \in Inums : dinode[i].type = "free"}  i == Min(free) IN
  /\ Is(p, "ialloc")
  /\ IF free = {}
     THEN /\ icache' = iunlock(icache, o.dp) /\ Return(p, <<o.dp>>)
          /\ UNCHANGED dinode
     ELSE /\ dinode' = [dinode EXCEPT ![i] = [FreeDinode EXCEPT !.type = TypeFor(o)]]
          /\ icache' = iget(icache, i)
          /\ Become(p, [o EXCEPT !.at = "fill", !.ip = i])
  /\ UNCHANGED <<program, cwd, ofile>>

\* The new inode gets its link count, a directory its . and .., and the
\* directory its entry; fail: gives the inode up when one cannot be written.
Fill(p) ==
  LET o == op[p]  i == o.ip  d == o.dp  dir == Copy(i).type = "dir"  more == IF dir THEN 1 ELSE 0 IN
  /\ Locks(p, "fill")
  /\ \E ok \in Room(p) :
       IF ok
       THEN /\ icache' = [iunlock(ilock(icache, i, p), d) EXCEPT ![i].nlink = 1, ![d].nlink = @ + more]
            /\ dinode' = [dinode EXCEPT ![i].type = Copy(i).type, ![i].nlink = 1,
                                        ![i].ents["."] = IF dir THEN i ELSE 0,
                                        ![i].ents[".."] = IF dir THEN d ELSE 0,
                                        ![d].nlink = @ + more, ![d].ents[o.name] = i]
            /\ Become(p, [o EXCEPT !.at = IF o.call = "open" THEN "opened" ELSE "created", !.dp = 0, !.puts = <<d>>])
       ELSE /\ SetLinks(i, Visit(icache, i), dinode, 0)
            /\ Become(p, [o EXCEPT !.at = "failed", !.ip = 0, !.puts = <<i>>])
  /\ UNCHANGED <<program, cwd, ofile>>

\* mkdir() and mknod() are done; symlink() writes its target, and gives the
\* inode up, which has a name by now, when it cannot.
Created(p) ==
  LET o == op[p]  i == o.ip IN
  /\ Is(p, "created")
  /\ Return(p, <<i>>)
  /\ IF o.call # "symlink"
     THEN icache' = iunlock(icache, i) /\ UNCHANGED dinode
     ELSE \E ok \in Room(p) :
            IF ok THEN icache' = iunlock(icache, i) /\ dinode' = [dinode EXCEPT ![i].target = o.arg]
                  ELSE SetLinks(i, iunlock(icache, i), dinode, 0)
  /\ UNCHANGED <<program, cwd, ofile>>

-----------------------------------------------------------------------------
(* open(), close() and chdir().                                            *)

\* sys_open() without O_CREATE refuses to write a directory.
sys_open(p) ==
  LET o == op[p]  i == o.ip IN
  /\ Locks(p, "open")
  /\ IF Copy(i).type = "dir" /\ o.arg # "read"
     THEN icache' = Visit(icache, i) /\ Return(p, <<i>>)
     ELSE icache' = ilock(icache, i, p) /\ Become(p, [o EXCEPT !.at = "opened"])
  /\ UNCHANGED <<program, dinode, cwd, ofile>>

Follows(p) == op[p].arg # "nofollow" /\ icache[op[p].ip].type = "symlink"

\* readi() of a link without a target leaves the buffer as it was.
ReadTarget(i, path) == IF dinode[i].target = None THEN path ELSE dinode[i].target

\* Fault: the links followed are not counted.
FollowLink_NoCount(p) ==
  LET o == op[p]  i == o.ip IN
  /\ Is(p, "opened") /\ Follows(p)
  /\ icache' = iunlock(icache, i)
  /\ Become(p, [o EXCEPT !.at = "follow", !.ip = 0, !.path = ReadTarget(i, @), !.puts = <<i>>])
  /\ UNCHANGED <<program, dinode, cwd, ofile>>

\* The loop of sys_open() over symbolic links: --cnt, then the target replaces
\* the path, and its inode the link.
FollowLink(p) ==
  LET o == op[p]  i == o.ip IN
  /\ Is(p, "opened") /\ Follows(p)
  /\ icache' = iunlock(icache, i)
  /\ IF o.cnt = 1
     THEN Return(p, <<i>>)
     ELSE Become(p, [o EXCEPT !.at = "follow", !.ip = 0, !.cnt = @ - 1, !.path = ReadTarget(i, @), !.puts = <<i>>])
  /\ UNCHANGED <<program, dinode, cwd, ofile>>

FollowTarget(p) ==
  LET o == op[p] IN
  /\ Is(p, "follow")
  /\ icache' = iget(icache, Start(p, o.path))
  /\ Become(p, Walking(p, o, o.path, FALSE, "follow2"))
  /\ UNCHANGED <<program, dinode, cwd, ofile>>

Followed(p) ==
  /\ Locks(p, "follow2")
  /\ icache' = ilock(icache, op[p].ip, p)
  /\ Become(p, [op[p] EXCEPT !.at = "opened"])
  /\ UNCHANGED <<program, dinode, cwd, ofile>>

\* The file takes over the reference, if the process has a descriptor left.
Opened(p) ==
  LET o == op[p]  i == o.ip IN
  /\ Is(p, "opened") /\ ~Follows(p)
  /\ icache' = iunlock(icache, i)
  /\ IF icache[i].type = "baddev" \/ ofile[p] # None
     THEN Return(p, <<i>>) /\ UNCHANGED ofile
     ELSE /\ ofile' = [ofile EXCEPT ![p] = [ip |-> i, writable |-> o.arg \in {"write", "create"}]]
          /\ Return(p, <<>>)
  /\ UNCHANGED <<program, dinode, cwd>>

sys_close(p) ==
  /\ "close" \in program.calls /\ Is(p, "user") /\ ofile[p] # None
  /\ Return(p, <<ofile[p].ip>>)
  /\ ofile' = [ofile EXCEPT ![p] = None]
  /\ UNCHANGED <<program, dinode, icache, cwd>>

\* Fault: the new current directory takes over a reference that was put.
sys_chdir_PutsNew(p) ==
  LET o == op[p]  i == o.ip IN
  /\ Locks(p, "chdir")
  /\ icache' = Visit(icache, i)
  /\ IF Copy(i).type # "dir" THEN Return(p, <<i>>)
                             ELSE Become(p, [o EXCEPT !.at = "chdir2", !.puts = <<i>>])
  /\ UNCHANGED <<program, dinode, cwd, ofile>>

\* sys_chdir() puts the old directory, then changes p->cwd.
sys_chdir(p) ==
  LET o == op[p]  i == o.ip IN
  /\ Locks(p, "chdir")
  /\ icache' = Visit(icache, i)
  /\ IF Copy(i).type # "dir" THEN Return(p, <<i>>)
                             ELSE Become(p, [o EXCEPT !.at = "chdir2", !.puts = <<cwd[p]>>])
  /\ UNCHANGED <<program, dinode, cwd, ofile>>

Changed(p) ==
  /\ Is(p, "chdir2")
  /\ cwd' = [cwd EXCEPT ![p] = op[p].ip]
  /\ Return(p, <<>>)
  /\ UNCHANGED <<program, dinode, icache, ofile>>

-----------------------------------------------------------------------------
\* A program enters a call with a path; arg is its other argument.
Enter(p, call, path, arg, parent, then) ==
  /\ Is(p, "user")
  /\ icache' = iget(icache, Start(p, path))
  /\ Become(p, Walking(p, [Idle EXCEPT !.call = call, !.arg = arg, !.path = IF call = "open" THEN path ELSE None,
                                    !.cnt = IF call = "open" THEN LINKS ELSE 0], path, parent, then))
  /\ UNCHANGED <<program, dinode, cwd, ofile>>

Call(p) ==
  \/ \E path \in program.paths :
       \/ "unlink" \in program.calls /\ Enter(p, "unlink", path, None, TRUE, "unlink1")
       \/ "mkdir" \in program.calls /\ Enter(p, "mkdir", path, None, TRUE, "create")
       \/ "mknod" \in program.calls /\ \E t \in {"dev", "baddev"} : Enter(p, "mknod", path, t, TRUE, "create")
       \/ "chdir" \in program.calls /\ Enter(p, "chdir", path, None, FALSE, "chdir")
       \/ "link" \in program.calls /\ \E new \in program.paths : Enter(p, "link", path, new, FALSE, "link1")
       \/ "symlink" \in program.calls /\ \E target \in program.paths : Enter(p, "symlink", path, target, TRUE, "create")
       \/ "creat" \in program.calls /\ Enter(p, "open", path, "create", TRUE, "create")
       \/ "open" \in program.calls /\ \E m \in program.modes : Enter(p, "open", path, m, FALSE, "open")
  \/ sys_close(p)

Proceed(p) ==
  \/ iputLast(p) \/ iputTrunc(p) \/ iput(p)
  \/ namex(p) \/ namexFails(p) \/ nameiparent(p)
  \/ sys_link(p) \/ LinkEntry(p) \/ LinkFails(p) \/ LinkBad(p)
  \/ sys_unlink(p) \/ UnlinkEntry(p) \/ Unlinked(p) \/ Failed(p)
  \/ create(p) \/ Exists(p) \/ ialloc(p) \/ Fill(p) \/ Created(p)
  \/ sys_open(p) \/ FollowLink(p) \/ FollowTarget(p) \/ Followed(p) \/ Opened(p)
  \/ sys_chdir(p) \/ Changed(p)

Next == \E p \in Procs : Call(p) \/ Proceed(p)

Spec == Init /\ [][Next]_vars

\* The scheduler runs every process that can run, and one that finds the lock of
\* an inode free again and again gets it: releasesleep() wakes all who wait.
Fairness == \A p \in Procs : SF_vars(Proceed(p))

FairSpec == Spec /\ Fairness

-----------------------------------------------------------------------------
(* Properties.                                                             *)

\* The references of p, by the places that keep them.
Places == {"wp", "ip", "dp", "cwd", "file", "put", "put2"}
Held(p) ==
  LET o == op[p]  n == Len(o.puts) IN
  [wp |-> o.wp, ip |-> o.ip, dp |-> o.dp,
   cwd |-> IF o.at = "chdir2" THEN 0 ELSE cwd[p],
   file |-> IF ofile[p] = None THEN 0 ELSE ofile[p].ip,
   put |-> IF n >= 1 THEN o.puts[n] ELSE 0, put2 |-> IF n >= 2 THEN o.puts[n - 1] ELSE 0]
Refs(i) == {x \in Procs \X Places : Held(x[1])[x[2]] = i}

\* An inode of the table has as many references as processes hold of it, in
\* their current directories, their files and their calls, on every return.
RefsExact == \A i \in Inums : icache[i].ref = Cardinality(Refs(i))

\* The inodes that p has locked, by where it is.
LocksDp == {"linkfail", "unlink2", "failed", "ialloc", "fill"}
LocksIp == {"unlink3", "opened", "created"}
HasLocked(p, i) ==
  \/ op[p].at \in LocksDp /\ op[p].dp = i
  \/ op[p].at \in LocksIp /\ op[p].ip = i
  \/ op[p].iput = "trunc" /\ Head(op[p].puts) = i

\* A process has the locks of the inodes that its call works on and no others:
\* every return unlocks, and nobody unlocks what another has locked.
LocksExact == \A i \in Inums, p \in Procs : icache[i].lock = p <=> HasLocked(p, i)

\* A copy in use is the inode on disk, which is not free.
CopiesExact ==
  \A i \in Inums : icache[i].valid /\ icache[i].ref > 0 =>
    /\ icache[i].type = dinode[i].type /\ icache[i].nlink = dinode[i].nlink
    /\ icache[i].type # "free"

\* The inode table is exact: its inodes are counted as often as they are held,
\* locked by those who work on them, and copied as they are on disk.
TableInv == RefsExact /\ LocksExact /\ CopiesExact

Allocated(i) == dinode[i].type # "free"
Entries(i) == {x \in Inums \X Names : dinode[x[1]].ents[x[2]] = i}
Subdirs(i) == {n \in Names : dinode[i].ents[n] # 0 /\ dinode[dinode[i].ents[n]].type = "dir"}
\* Calls between the count of a link and its entry.
Between(i) == {p \in Procs : op[p].ip = i /\ (op[p].at = "unlink3" \/ (op[p].call = "link" /\ op[p].at # "link1"))}

\* Every entry is covered by the count of links of the inode it names, and so
\* is the .. of every subdirectory: no interleaving of link(), unlink() and
\* create() leaves a name for an inode that is free or that can be freed.
LinksCovered ==
  \A i \in Inums :
    dinode[i].nlink >= Cardinality(Entries(i)) + Cardinality(Subdirs(i)) + Cardinality(Between(i))
                         + (IF i = ROOTINO THEN 1 ELSE 0)

\* An inode without links is kept only as long as somebody refers to it.
NoOrphans == \A i \in Inums : Allocated(i) /\ dinode[i].nlink = 0 => icache[i].ref > 0

\* "ip->ref == 1 means no other process can have ip locked, so this
\* acquiresleep() won't block (or deadlock)": iput() takes it under the spin-lock itable.lock.
IputNeverBlocks ==
  \A p \in Procs :
    op[p].puts # <<>> /\ op[p].iput = "check" /\ LastRef(Head(op[p].puts)) =>
      icache[Head(op[p].puts)].lock = None

\* Current directories and open files are inodes that exist.
InUseAllocated ==
  \A p \in Procs :
    /\ op[p].at = "chdir2" \/ dinode[cwd[p]].type = "dir"
    /\ ofile[p] # None => Allocated(ofile[p].ip)

\* Inodes and calls have their types, what is held exists, and so does what is named.
InodeInv == TypeOK /\ InUseAllocated /\ LinksCovered

\* No path leads to a free inode or to a file where a directory is expected.
NoPanic == \A p \in Procs : ~Panics(p)

\* Every call returns: no two calls wait for each other's inodes, and symbolic
\* links that name each other are not followed forever.
CallsEnd == \A p \in Procs : (op[p].at # "user") ~> (op[p].at = "user")
=============================================================================
