------------------------------ MODULE BlockMap ------------------------------
(***************************************************************************)
(* The blocks of files: the free map, the direct, indirect and doubly      *)
(* indirect blocks of an inode, readi() and writei() over them, and        *)
(* fileread() and filewrite() (fs.c, file.c).                              *)
(*                                                                         *)
(* A block is NINDIRECT words, each of them a block number or data: nothing*)
(* on the disk tells which.  A step is one round of the loop of writei(),  *)
(* or a whole readi() or itrunc(); all of them hold the lock of the inode. *)
(* The blocks go through the buffer cache (module BufferCache), whose      *)
(* locks matter here only where one is never released.                     *)
(***************************************************************************)
EXTENDS Integers, Sequences, FiniteSets, FiniteSetsExt, SequencesExt

CONSTANTS
  Procs, Inodes,
  NBLOCKS,       \* blocks of the disk that files can use
  NDIRECT,       \* direct blocks of an inode (11)
  NINDIRECT,     \* words of a block (256)
  BPB,           \* bits of a block of the free map (8192)
  MAXOPBLOCKS,   \* blocks that an operation may write (10)
  Starts,        \* the inode of each process, the word it writes and how often
                 \* at once, and the blocks of other files
  None

ASSUME BlockAssumption ==
  /\ NDIRECT \in Nat \ {0} /\ NINDIRECT \in Nat \ {0} /\ BPB \in Nat \ {0}
  /\ MAXOPBLOCKS \in Nat /\ MAXOPBLOCKS >= 6
  /\ \A s \in Starts : s.val \in [Procs -> Nat \ {0}] /\ s.size \in [Procs -> Nat \ {0}] /\ s.ip \in [Procs -> Inodes]

VARIABLES
  start,         \* what this behaviour started from
  used,          \* blocks marked in the free map
  disk,          \* the words of every block
  inode,         \* size and addrs of the inodes
  locked,        \* blocks whose buffer was never released
  fd,            \* the file of each process: its inode and offset
  op             \* the write each process is in

vars == <<start, used, disk, inode, locked, fd, op>>

Blocks == 1 .. NBLOCKS
Slots == 0 .. NINDIRECT - 1
MAXFILE == NDIRECT + NINDIRECT + NINDIRECT * NINDIRECT
MAXWORDS == MAXFILE * NINDIRECT
Val(p) == start.val[p]
Zeros == [k \in Slots |-> 0]
\* What a free block holds is left over from its last use: any number, here 1.
Junk == [k \in Slots |-> 1]

\* left: words of the write; n: words of this writei(); done: words of these
\* that are written; logged: blocks of this transaction.
Idle == [at |-> "user", left |-> 0, n |-> 0, done |-> 0, logged |-> {}]

TypeOK ==
  /\ used \subseteq Blocks /\ locked \subseteq Blocks
  /\ disk \in [Blocks -> [Slots -> Nat]]
  /\ inode \in [Inodes -> [size : 0 .. MAXWORDS, addrs : [0 .. NDIRECT + 1 -> Blocks \cup {0}]]]
  /\ \A p \in Procs :
       /\ fd[p].ip \in Inodes /\ fd[p].off \in 0 .. MAXWORDS
       /\ op[p].done <= op[p].n /\ op[p].n <= op[p].left

Init ==
  /\ start \in Starts
  /\ used = start.taken
  /\ fd = [p \in Procs |-> [ip |-> start.ip[p], off |-> 0]]
  /\ locked = {}
  /\ disk = [b \in Blocks |-> Junk]
  /\ inode = [i \in Inodes |-> [size |-> 0, addrs |-> [k \in 0 .. NDIRECT + 1 |-> 0]]]
  /\ op = [p \in Procs |-> Idle]

-----------------------------------------------------------------------------
(* Blocks.  The operators take and return what they change: the free map,  *)
(* the disk, the addrs of one inode, the blocks logged, and the buffers    *)
(* left locked.                                                            *)

State(i, p) ==
  [used |-> used, disk |-> disk, addrs |-> inode[i].addrs, logged |-> op[p].logged, locked |-> locked]

\* What log_write() absorbs: blocks, blocks of the free map, and the inode.
Bitmap(b) == <<"bitmap", b \div BPB>>
Block(b) == <<"block", b>>

\* Fault: the block keeps what it held when it was freed.
balloc_NoZero(s) ==
  LET free == Blocks \ s.used  b == Min(free) IN
  IF free = {} THEN [addr |-> 0, s |-> s]
  ELSE [addr |-> b, s |-> [s EXCEPT !.used = @ \cup {b}, !.logged = @ \cup {Bitmap(b), Block(b)}]]

\* balloc() takes the first free block and zeroes it (bzero()); 0 if none.
balloc(s) ==
  LET free == Blocks \ s.used  b == Min(free) IN
  IF free = {} THEN [addr |-> 0, s |-> s]
  ELSE [addr |-> b, s |-> [s EXCEPT !.used = @ \cup {b}, !.disk[b] = Zeros,
                                    !.logged = @ \cup {Bitmap(b), Block(b)}]]

\* The block in slot k of the inode, or of table t; allocated if there is none.
InodeSlot(s, k) ==
  LET r == balloc(s) IN
  IF s.addrs[k] # 0 THEN [addr |-> s.addrs[k], s |-> s]
  ELSE [r EXCEPT !.s.addrs[k] = r.addr]

TableSlot(s, t, k) ==
  LET r == balloc(s) IN
  IF s.disk[t][k] # 0 THEN [addr |-> s.disk[t][k], s |-> s]
  ELSE IF r.addr = 0 THEN r
  ELSE [r EXCEPT !.s.disk[t][k] = r.addr, !.s.logged = @ \cup {Block(t)}]

\* Fault: both levels are indexed alike.
DoublySlot_OneIndex(s, t, bn) ==
  LET r == TableSlot(s, t, bn \div NINDIRECT) IN
  IF r.addr = 0 THEN [r EXCEPT !.s.locked = @ \cup {t}]
  ELSE TableSlot(r.s, r.addr, bn \div NINDIRECT)

\* The two levels of the doubly indirect block t.  The return without a block
\* for the first level skips brelse().
DoublySlot(s, t, bn) ==
  LET r == TableSlot(s, t, bn \div NINDIRECT) IN
  IF r.addr = 0 THEN [r EXCEPT !.s.locked = @ \cup {t}]
  ELSE TableSlot(r.s, r.addr, bn % NINDIRECT)

bmap(s, bn) ==
  IF bn < NDIRECT THEN InodeSlot(s, bn)
  ELSE IF bn - NDIRECT < NINDIRECT
  THEN LET r == InodeSlot(s, NDIRECT) IN
       IF r.addr = 0 THEN r ELSE TableSlot(r.s, r.addr, bn - NDIRECT)
  ELSE LET r == InodeSlot(s, NDIRECT + 1) IN
       IF r.addr = 0 THEN r ELSE DoublySlot(r.s, r.addr, bn - NDIRECT - NINDIRECT)

\* bread() of the doubly indirect block waits for its buffer.
Stuck(i, bn) == bn >= NDIRECT + NINDIRECT /\ inode[i].addrs[NDIRECT + 1] \in locked

Entries(t) == {disk[t][k] : k \in Slots} \ {0}

\* Fault: the tables below the doubly indirect block are not freed.
Freed_LosesTables(a) ==
  LET Table(t) == IF t = 0 THEN {} ELSE {t} \cup Entries(t)  dt == a[NDIRECT + 1] IN
  ({a[k] : k \in 0 .. NDIRECT - 1} \ {0}) \cup Table(a[NDIRECT])
     \cup (IF dt = 0 THEN {} ELSE {dt} \cup UNION {Entries(t) : t \in Entries(dt)})

\* The blocks that itrunc() passes to bfree().
Freed(a) ==
  LET Table(t) == IF t = 0 THEN {} ELSE {t} \cup Entries(t)  dt == a[NDIRECT + 1] IN
  ({a[k] : k \in 0 .. NDIRECT - 1} \ {0}) \cup Table(a[NDIRECT])
     \cup (IF dt = 0 THEN {} ELSE {dt} \cup UNION {Table(t) : t \in Entries(dt)})

-----------------------------------------------------------------------------
(* Files.                                                                  *)

Unlocked(i) == \A q \in Procs : op[q].at # "write" \/ fd[q].ip # i

\* A program opens its file again.
Open(p) ==
  /\ op[p].at = "user" /\ fd[p].off # 0
  /\ fd' = [fd EXCEPT ![p].off = 0]
  /\ UNCHANGED <<start, used, disk, inode, locked, op>>

\* itrunc(), of open() with O_TRUNC or of the last iput().
itrunc(p) ==
  LET i == fd[p].ip IN
  /\ op[p].at = "user" /\ fd[p].off = 0 /\ Unlocked(i)
  /\ inode[i].addrs[NDIRECT + 1] \notin locked
  /\ used' = used \ Freed(inode[i].addrs)
  /\ disk' = [b \in Blocks |-> IF b \in Freed(inode[i].addrs) THEN Junk ELSE disk[b]]
  /\ inode' = [inode EXCEPT ![i] = [size |-> 0, addrs |-> [k \in 0 .. NDIRECT + 1 |-> 0]]]
  /\ UNCHANGED <<start, locked, fd, op>>

\* fileread(): readi() of up to size words from the offset.
fileread(p) ==
  LET i == fd[p].ip  off == fd[p].off  end == Min({off + start.size[p], inode[i].size}) IN
  /\ op[p].at = "user" /\ Unlocked(i)
  /\ off < inode[i].size
  /\ ~Stuck(i, (end - 1) \div NINDIRECT)
  /\ fd' = [fd EXCEPT ![p].off = end]
  /\ UNCHANGED <<start, used, disk, inode, locked, op>>

\* Fault: half the blocks of a transaction are not kept for what comes with the
\* data.
MaxChunk_NoHalf == (MAXOPBLOCKS - 1 - 1 - 2) * NINDIRECT

MaxChunk == ((MAXOPBLOCKS - 1 - 1 - 2) \div 2) * NINDIRECT

\* The words that the write call of p has left, a new one's size if it is in none.
Left(p) == IF op[p].at = "user" THEN start.size[p] ELSE op[p].left

\* Fault: the last chunk is as long as the others.
filewrite_WholeChunks(p) ==
  LET i == fd[p].ip  n == MaxChunk IN
  /\ op[p].at \in {"user", "chunk"} /\ Unlocked(i)
  /\ IF fd[p].off > inode[i].size \/ fd[p].off + n > MAXWORDS
     THEN op' = [op EXCEPT ![p] = Idle]
     ELSE op' = [op EXCEPT ![p] = [at |-> "write", left |-> Left(p), n |-> n, done |-> 0,
                                     logged |-> {<<"inode", i>>}]]
  /\ UNCHANGED <<start, used, disk, inode, locked, fd>>

\* filewrite() writes a chunk at a time, each in a transaction and under the
\* lock of the inode; writei() refuses offsets beyond the end and sizes beyond
\* the largest file.
filewrite(p) ==
  LET i == fd[p].ip  n == Min({Left(p), MaxChunk}) IN
  /\ op[p].at \in {"user", "chunk"} /\ Unlocked(i)
  /\ IF fd[p].off > inode[i].size \/ fd[p].off + n > MAXWORDS
     THEN op' = [op EXCEPT ![p] = Idle]
     ELSE op' = [op EXCEPT ![p] = [at |-> "write", left |-> Left(p), n |-> n, done |-> 0,
                                     logged |-> {<<"inode", i>>}]]
  /\ UNCHANGED <<start, used, disk, inode, locked, fd>>

\* Fault: the size follows the request, not what was written.
EndWrite_WholeSize(i, p, s, done) ==
  LET off == fd[p].off + op[p].n IN
  /\ inode' = [inode EXCEPT ![i].addrs = s.addrs, ![i].size = IF off > @ THEN off ELSE @]
  /\ fd' = [fd EXCEPT ![p].off = @ + done]
  /\ op' = [op EXCEPT ![p] = [@ EXCEPT !.at = "end", !.done = done, !.logged = s.logged]]

\* The end of writei(): the size grows, iupdate(), iunlock().
EndWrite(i, p, s, done) ==
  LET off == fd[p].off + done IN
  /\ inode' = [inode EXCEPT ![i].addrs = s.addrs, ![i].size = IF off > @ THEN off ELSE @]
  /\ fd' = [fd EXCEPT ![p].off = off]
  /\ op' = [op EXCEPT ![p] = [@ EXCEPT !.at = "end", !.done = done, !.logged = s.logged]]

\* One round of writei(): the rest of a block, or what is left.
writei(p) ==
  LET i == fd[p].ip  off == fd[p].off + op[p].done
      bn == off \div NINDIRECT  k == off % NINDIRECT
      m == Min({op[p].n - op[p].done, NINDIRECT - k})
      r == bmap(State(i, p), bn)
      s == [r.s EXCEPT !.logged = @ \cup {Block(r.addr)},
                       !.disk[r.addr] = [j \in Slots |-> IF k <= j /\ j < k + m THEN Val(p) ELSE @[j]]]
  IN
  /\ op[p].at = "write" /\ ~Stuck(i, bn)
  /\ UNCHANGED start
  /\ IF r.addr = 0
     THEN /\ used' = r.s.used /\ disk' = r.s.disk /\ locked' = r.s.locked
          /\ EndWrite(i, p, r.s, op[p].done)
     ELSE /\ used' = s.used /\ disk' = s.disk /\ locked' = s.locked
          /\ IF op[p].done + m = op[p].n THEN EndWrite(i, p, s, op[p].n)
             ELSE /\ inode' = [inode EXCEPT ![i].addrs = s.addrs]
                  /\ op' = [op EXCEPT ![p].done = @ + m, ![p].logged = s.logged]
                  /\ UNCHANGED fd

\* copyin() fails after bmap(): the block is the file's, beyond its end.
CopyinFails(p) ==
  LET i == fd[p].ip  bn == (fd[p].off + op[p].done) \div NINDIRECT  r == bmap(State(i, p), bn) IN
  /\ op[p].at = "write" /\ ~Stuck(i, bn) /\ r.addr # 0
  /\ UNCHANGED start
  /\ used' = r.s.used /\ disk' = r.s.disk /\ locked' = r.s.locked
  /\ EndWrite(i, p, r.s, op[p].done)

\* end_op(); filewrite() goes on to the next chunk if this one was written.
end_op(p) ==
  /\ op[p].at = "end"
  /\ op' = [op EXCEPT ![p] = IF @.done = @.n /\ @.n < @.left
                             THEN [Idle EXCEPT !.at = "chunk", !.left = op[p].left - op[p].n]
                             ELSE Idle]
  /\ UNCHANGED <<start, used, disk, inode, locked, fd>>

-----------------------------------------------------------------------------
Next == \E p \in Procs :
  \/ Open(p) \/ itrunc(p) \/ fileread(p)
  \/ filewrite(p) \/ writei(p) \/ CopyinFails(p) \/ end_op(p)

Spec == Init /\ [][Next]_vars

-----------------------------------------------------------------------------
(* Properties.                                                             *)

\* The block that bmap() finds, 0 if none.
Lookup(i, bn) ==
  LET a == inode[i].addrs  t == a[NDIRECT]  d == a[NDIRECT + 1]  j == bn - NDIRECT - NINDIRECT IN
  IF bn < NDIRECT THEN a[bn]
  ELSE IF bn < NDIRECT + NINDIRECT THEN (IF t = 0 THEN 0 ELSE disk[t][bn - NDIRECT])
  ELSE IF d = 0 THEN 0
  ELSE IF disk[d][j \div NINDIRECT] = 0 THEN 0 ELSE disk[disk[d][j \div NINDIRECT]][j % NINDIRECT]

\* How often block b is a direct block, a table or an entry of a table.
Uses(b) ==
  LET In(t) == Cardinality({k \in Slots : t # 0 /\ disk[t][k] = b}) IN
  MapThenSumSet(LAMBDA i :
    LET a == inode[i].addrs IN
    Cardinality({k \in DOMAIN a : a[k] = b}) + In(a[NDIRECT]) + In(a[NDIRECT + 1])
      + (IF a[NDIRECT + 1] = 0 THEN 0 ELSE MapThenSumSet(In, Entries(a[NDIRECT + 1]))), Inodes)

\* The free map marks the blocks of the files and their tables, each of which
\* is used in one place: truncation loses none and frees none twice.
FreeMapExact == start.taken \subseteq used /\ \A b \in Blocks : Uses(b) = (IF b \in used \ start.taken THEN 1 ELSE 0)

\* Every word up to the size has a block, so that readi() never allocates, even
\* after a write that ended early.
NoHoles == \A i \in Inodes : \A w \in 0 .. inode[i].size - 1 : Lookup(i, w \div NINDIRECT) # 0

\* The blocks are accounted for: each has one place in one file or is free, and
\* every word of a file has one, after writes that ended early too.
BlockInv == TypeOK /\ FreeMapExact /\ NoHoles

\* A chunk of filewrite() writes no more blocks than begin_op() reserved: the
\* data, the tables on the way and the free map among them.
WritesFitLog == \A p \in Procs : Cardinality(op[p].logged) <= MAXOPBLOCKS

Word(i, w) ==
  LET b == Lookup(i, w \div NINDIRECT) IN IF b = 0 THEN 0 ELSE disk[b][w % NINDIRECT]

Content(i) == [j \in 1 .. inode[i].size |-> Word(i, j - 1)]

Abstract == INSTANCE FileContents WITH
  Files <- Inodes, Writers <- Procs, Most <- MaxChunk, val <- start.val,
  file <- [i \in Inodes |-> Content(i)],
  write <- [p \in Procs |-> IF op[p].at # "write" THEN None
                            ELSE [f |-> fd[p].ip, off |-> fd[p].off, n |-> op[p].n]]

\* Files behave as sequences: what is written is at its offset through all
\* levels of tables, and no write changes another file.
ImplementsFiles == Abstract!Spec
=============================================================================
