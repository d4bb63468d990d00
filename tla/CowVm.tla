------------------------------- MODULE CowVm --------------------------------
(***************************************************************************)
(* User memory with copy-on-write fork, of src/virtual memory & file       *)
(* system/kernel: paull04_vm.c (reference counts, page faults), vm.c,      *)
(* kalloc.c, and the callers in proc.c, exec.c and trap.c.                 *)
(*                                                                         *)
(* A step is one critical section of pgref_lock or kmem.lock, or one copy  *)
(* of a page, with the accesses to private data next to it: between two    *)
(* steps of a process the others may run (the kernel is preemptible, and   *)
(* so are the CPUs among themselves).  A table is private to the process   *)
(* that works on it.  Page-table pages are not counted as frames; mappages *)
(* may fail at any time for want of one.                                   *)
(***************************************************************************)
EXTENDS Integers, FiniteSets

CONSTANTS
  Procs,       \* slots of the process table
  initproc,    \* the first one
  NPages,      \* bound: pages of an address space
  Frames,      \* physical pages for user memory
  Vals,        \* contents a program can give to a page
  Zero,        \* content of a fresh page, and of a program's pages after exec()
  Junk,        \* content of a page on the free list
  NoPage,      \* no page-table entry; also: no value, no frame, no process
  Loads        \* bounds and programs: slots in use at a time, pages of an address
               \* space, pages of a program started by exec() (image), and those
               \* among them that are loaded without PTE_W (text)

Pages  == 0 .. NPages - 1
Own(p) == <<p, "own">>              \* p->pagetable
New(p) == <<p, "new">>              \* exec()'s pagetable, then oldpagetable
Tables == Procs \X {"own", "new"}

ASSUME SlotsAssumption == initproc \in Procs /\ IsFiniteSet(Procs)
ASSUME PagesAssumption == NPages \in Nat \ {0}
ASSUME LoadAssumption ==
  \A l \in Loads : l.slots \in Nat \ {0} /\ l.pages \in 1 .. NPages /\ l.image \in 1 .. l.pages
                   /\ l.text \subseteq 0 .. l.image - 1
ASSUME ContentsAssumption ==
  /\ NoPage \notin Vals \cup Frames \cup Procs \cup {Zero, Junk} /\ Junk \notin Vals \cup {Zero}
  /\ NoPage \notin [pa : Frames, w : BOOLEAN, cow : BOOLEAN]

VARIABLES
  load,      \* the element of Loads this behaviour is about
  pt,        \* pt[t][va]: page-table entry or NoPage
  ref,       \* pgref[]
  free,      \* the frames on kmem.freelist
  content,   \* what each frame holds
  op,        \* op[p]: where p is in the kernel, with its local variables
  panicked   \* the argument of panic(), or "none"

vars == <<load, pt, ref, free, content, op, panicked>>

\* PTE2PA, PTE_W and PTE_COW.
PTEs == {e \in [pa : Frames, w : BOOLEAN, cow : BOOLEAN] : ~ (e.w /\ e.cow)}

\* pc, the table worked on, the page i of a loop with its first and last page,
\* the frame in hand, the value copyout() writes, the child made or freed.
Idle == [pc |-> "user", t |-> Own(initproc), i |-> 0, from |-> 0, end |-> 0,
         pa |-> NoPage, v |-> NoPage, kid |-> NoPage]
At(pc) == [Idle EXCEPT !.pc = pc]

\* p is about to execute pc; after a panic nothing is executed.
Is(p, pc) == panicked = "none" /\ op[p].pc = pc

Goto(p, o) == op' = [op EXCEPT ![p] = o]

Mapped(t, va) == pt[t][va] # NoPage

\* The entries of t below its size.  Pages are mapped from 0 up.
Size(t) == Cardinality({va \in Pages : Mapped(t, va)})

-----------------------------------------------------------------------------
(* kalloc.c.                                                               *)

\* kalloc() of f.
kalloc(f) ==
  /\ f \in free
  /\ free' = free \ {f}

kfree(f) ==
  /\ free' = free \cup {f}
  /\ content' = [content EXCEPT ![f] = Junk]

-----------------------------------------------------------------------------
(* paull04_vm.c: page_change().                                            *)

\* setkilled() and exit() on the way to user space: init cannot exit.
Die(p) ==
  IF p = initproc THEN panicked' = "init exiting" /\ UNCHANGED op
                  ELSE Goto(p, At("zombie")) /\ UNCHANGED panicked

\* The entry page_change() leaves behind.
Writable(e, f) == [e EXCEPT !.pa = f, !.w = TRUE, !.cow = FALSE]

\* After page_change(): copyout() goes on with its memmove(), a store is
\* executed again by the program.
Resume(v) == IF v = NoPage THEN Idle ELSE [At("write") EXCEPT !.v = v]

\* Fault: one sharer is not seen.
Shared_OffByOne(f) == ref[f] > 2

\* get_ref(oldpa) > 1.
Shared(f) == ref[f] > 1

\* page_change() as far as get_ref().  v is the value copyout() writes, or
\* NoPage for a page fault.
page_change(p, va, v) ==
  LET e == pt[Own(p)][va]
  IN  IF Shared(e.pa)
      THEN /\ Goto(p, [At("kalloc") EXCEPT !.i = va, !.v = v])
           /\ UNCHANGED pt
      ELSE /\ pt' = [pt EXCEPT ![Own(p)][va] = Writable(e, e.pa)]
           /\ Goto(p, [Resume(v) EXCEPT !.i = IF v = NoPage THEN 0 ELSE va])

PageKalloc(p) ==
  /\ Is(p, "kalloc")
  /\ \E f \in free :
       /\ kalloc(f)
       /\ content' = [content EXCEPT ![f] = Junk]
       /\ Goto(p, [op[p] EXCEPT !.pc = "copy", !.pa = f])
  /\ UNCHANGED <<load, pt, ref, panicked>>

\* Out of memory: copyout() returns -1, a page fault kills the process.
PageKallocFails(p) ==
  /\ Is(p, "kalloc")
  /\ free = {}
  /\ IF op[p].v = NoPage THEN Die(p) ELSE Goto(p, Idle) /\ UNCHANGED panicked
  /\ UNCHANGED <<load, pt, ref, free, content>>

OldFrame(p) == pt[Own(p)][op[p].i].pa

PageCopy(p) ==
  /\ Is(p, "copy")
  /\ content' = [content EXCEPT ![op[p].pa] = content[OldFrame(p)]]
  /\ Goto(p, [op[p] EXCEPT !.pc = "dec"])
  /\ UNCHANGED <<load, pt, ref, free, panicked>>

\* Fault: the frame is freed while one mapping is left.
LastRef_TooSoon(f) == ref[f] <= 2

\* decrement_ref()'s r == 0.
LastRef(f) == ref[f] = 1

PageDecrement(p) ==
  /\ Is(p, "dec")
  /\ ref' = [ref EXCEPT ![OldFrame(p)] = @ - 1]
  /\ Goto(p, [op[p] EXCEPT !.pc = IF LastRef(OldFrame(p)) THEN "kfreeold" ELSE "set"])
  /\ UNCHANGED <<load, pt, free, content, panicked>>

\* decrement_ref() was the last one: the others copied too, meanwhile.
PageKfree(p) ==
  /\ Is(p, "kfreeold")
  /\ kfree(OldFrame(p))
  /\ Goto(p, [op[p] EXCEPT !.pc = "set"])
  /\ UNCHANGED <<load, pt, ref, panicked>>

\* increment_ref() and the new entry.
PageSet(p) ==
  LET e == pt[Own(p)][op[p].i]
  IN  /\ Is(p, "set")
      /\ ref' = [ref EXCEPT ![op[p].pa] = @ + 1]
      /\ pt' = [pt EXCEPT ![Own(p)][op[p].i] = Writable(e, op[p].pa)]
      /\ Goto(p, [Resume(op[p].v) EXCEPT !.i = IF op[p].v = NoPage THEN 0 ELSE op[p].i])
      /\ UNCHANGED <<load, free, content, panicked>>

-----------------------------------------------------------------------------
(* Stores of programs and of the kernel into user memory.                  *)

InUser(p) == Is(p, "user")

\* A store by the program itself, or copyout(), to a page with PTE_W.
Store(p, va, v) ==
  /\ InUser(p)
  /\ Mapped(Own(p), va)
  /\ pt[Own(p)][va].w
  /\ content' = [content EXCEPT ![pt[Own(p)][va].pa] = v]
  /\ UNCHANGED <<load, pt, ref, free, op, panicked>>

\* usertrap() with scause 15, and pagefault_handler() on a PTE_COW page.
PageFault(p, va) ==
  /\ InUser(p)
  /\ Mapped(Own(p), va)
  /\ pt[Own(p)][va].cow
  /\ page_change(p, va, NoPage)
  /\ UNCHANGED <<load, ref, free, content, panicked>>

\* pagefault_handler() returns -1.
BadFault(p, va) ==
  /\ InUser(p)
  /\ Mapped(Own(p), va) => ~ pt[Own(p)][va].w /\ ~ pt[Own(p)][va].cow
  /\ Die(p)
  /\ UNCHANGED <<load, pt, ref, free, content>>

\* A store at or above MAXVA: pagefault_handler() calls walk() with it.
StoreBeyondMAXVA(p) ==
  /\ InUser(p)
  /\ panicked' = "walk"
  /\ UNCHANGED <<load, pt, ref, free, content, op>>

\* copyout() to a page without PTE_W but with PTE_COW: re_page().
copyout(p, va, v) ==
  /\ InUser(p)
  /\ Mapped(Own(p), va)
  /\ pt[Own(p)][va].cow
  /\ page_change(p, va, v)
  /\ UNCHANGED <<load, ref, free, content, panicked>>

\* The memmove() of copyout().
CopyoutWrite(p) ==
  /\ Is(p, "write")
  /\ content' = [content EXCEPT ![OldFrame(p)] = op[p].v]
  /\ Goto(p, Idle)
  /\ UNCHANGED <<load, pt, ref, free, panicked>>

-----------------------------------------------------------------------------
(* uvmunmap() with do_free, for sbrk(-n), freeproc(), exec() and failures.  *)

Unmap(p, t, from, end, kid) ==
  Goto(p, [At("unmap") EXCEPT !.t = t, !.i = from, !.end = end, !.kid = kid])

\* One page: decrement_ref() and, if there are other references, *pte = 0.
uvmunmap(p) ==
  LET f == pt[op[p].t][op[p].i].pa
  IN  /\ Is(p, "unmap")
      /\ op[p].i < op[p].end
      /\ ref' = [ref EXCEPT ![f] = @ - 1]
      /\ IF LastRef(f)
         THEN Goto(p, [op[p] EXCEPT !.pc = "kfree"]) /\ UNCHANGED pt
         ELSE /\ pt' = [pt EXCEPT ![op[p].t][op[p].i] = NoPage]
              /\ Goto(p, [op[p] EXCEPT !.i = @ + 1])
      /\ UNCHANGED <<load, free, content, panicked>>

UnmapKfree(p) ==
  /\ Is(p, "kfree")
  /\ kfree(pt[op[p].t][op[p].i].pa)
  /\ pt' = [pt EXCEPT ![op[p].t][op[p].i] = NoPage]
  /\ Goto(p, [op[p] EXCEPT !.pc = "unmap", !.i = @ + 1])
  /\ UNCHANGED <<load, ref, panicked>>

\* The loop ends; freeproc() has then freed the slot of the child.
UnmapDone(p) ==
  /\ Is(p, "unmap")
  /\ op[p].i = op[p].end
  /\ op' = [q \in Procs |-> IF q = p THEN Idle
                            ELSE IF q = op[p].kid THEN At("unused") ELSE op[q]]
  /\ UNCHANGED <<load, pt, ref, free, content, panicked>>

-----------------------------------------------------------------------------
(* fork().                                                                 *)

fork(p, np) ==
  /\ InUser(p)
  /\ op[np].pc = "unused"
  /\ Cardinality({q \in Procs : op[q].pc # "unused"}) < load.slots
  /\ op' = [op EXCEPT ![np] = At("used"),
                      ![p] = [At("uvmcopy") EXCEPT !.kid = np, !.end = Size(Own(p))]]
  /\ UNCHANGED <<load, pt, ref, free, content, panicked>>

\* Fault: the parent's mapping stays writable.
CowEntry_KeepW(e) == [e EXCEPT !.cow = TRUE]

\* *pte &= ~PTE_W; *pte |= PTE_COW: every page, read-only ones too.
CowEntry(e) == [e EXCEPT !.w = FALSE, !.cow = TRUE]

\* One page of uvmcopy(), up to mappages().
uvmcopy(p) ==
  LET e == CowEntry(pt[Own(p)][op[p].i])
  IN  /\ Is(p, "uvmcopy")
      /\ op[p].i < op[p].end
      /\ pt' = [pt EXCEPT ![Own(p)][op[p].i] = e, ![Own(op[p].kid)][op[p].i] = e]
      /\ Goto(p, [op[p] EXCEPT !.pc = "incref"])
      /\ UNCHANGED <<load, ref, free, content, panicked>>

\* mappages() fails: the pages shared so far are unmapped, freeproc(np).
UvmcopyFails(p) ==
  /\ Is(p, "uvmcopy")
  /\ op[p].i < op[p].end
  /\ pt' = [pt EXCEPT ![Own(p)][op[p].i] = CowEntry(@)]
  /\ Unmap(p, Own(op[p].kid), 0, op[p].i, op[p].kid)
  /\ UNCHANGED <<load, ref, free, content, panicked>>

\* Fault: the child's reference is not counted.
Referenced_Not(f) == ref

\* ++pgref[pa >> PGSHIFT].
Referenced(f) == [ref EXCEPT ![f] = @ + 1]

UvmcopyIncref(p) ==
  /\ Is(p, "incref")
  /\ ref' = Referenced(pt[Own(p)][op[p].i].pa)
  /\ Goto(p, [op[p] EXCEPT !.pc = "uvmcopy", !.i = @ + 1])
  /\ UNCHANGED <<load, pt, free, content, panicked>>

\* The rest of fork(): the child is RUNNABLE.
ForkDone(p) ==
  /\ Is(p, "uvmcopy")
  /\ op[p].i = op[p].end
  /\ op' = [op EXCEPT ![p] = Idle, ![op[p].kid] = Idle]
  /\ UNCHANGED <<load, pt, ref, free, content, panicked>>

-----------------------------------------------------------------------------
(* sbrk(), exec(), exit() and wait().                                      *)

\* growproc(n), n > 0.
sbrk(p, n) ==
  /\ InUser(p)
  /\ Size(Own(p)) < n /\ n <= load.pages
  /\ Goto(p, [At("uvmalloc") EXCEPT !.t = Own(p), !.i = Size(Own(p)),
                                  !.from = Size(Own(p)), !.end = n])
  /\ UNCHANGED <<load, pt, ref, free, content, panicked>>

\* growproc(n), n < 0: uvmdealloc().
Shrink(p, n) ==
  /\ InUser(p)
  /\ n < Size(Own(p))
  /\ Unmap(p, Own(p), n, Size(Own(p)), NoPage)
  /\ UNCHANGED <<load, pt, ref, free, content, panicked>>

\* exec(): the new table.
exec(p) ==
  /\ InUser(p)
  /\ Goto(p, [At("uvmalloc") EXCEPT !.t = New(p), !.i = 0, !.end = load.image])
  /\ UNCHANGED <<load, pt, ref, free, content, panicked>>

\* The kalloc() of uvmalloc() for one page.
uvmalloc(p) ==
  /\ Is(p, "uvmalloc")
  /\ op[p].i < op[p].end
  /\ \E f \in free :
       /\ kalloc(f)
       /\ content' = [content EXCEPT ![f] = Zero]
       /\ Goto(p, [op[p] EXCEPT !.pc = "map", !.pa = f])
  /\ UNCHANGED <<load, pt, ref, panicked>>

\* No frame: uvmdealloc() of what this call added; exec() frees its table.
UvmallocFails(p) ==
  /\ Is(p, "uvmalloc")
  /\ op[p].i < op[p].end
  /\ free = {}
  /\ Unmap(p, op[p].t, op[p].from, op[p].i, NoPage)
  /\ UNCHANGED <<load, pt, ref, free, content, panicked>>

\* mappages() and increment_ref(); PTE_W unless exec() loads a text segment.
UvmallocMap(p) ==
  LET text == op[p].t = New(p) /\ op[p].i \in load.text
  IN  /\ Is(p, "map")
      /\ pt' = [pt EXCEPT ![op[p].t][op[p].i] =
                  [pa |-> op[p].pa, w |-> ~text, cow |-> FALSE]]
      /\ ref' = [ref EXCEPT ![op[p].pa] = @ + 1]
      /\ Goto(p, [op[p] EXCEPT !.pc = "uvmalloc", !.i = @ + 1, !.pa = NoPage])
      /\ UNCHANGED <<load, free, content, panicked>>

\* Fault: the frame in hand is forgotten.
GiveBack_Not(f) == UNCHANGED <<free, content>>

\* kfree(mem) when it cannot be mapped.
GiveBack(f) == kfree(f)

\* mappages() fails.
UvmallocMapFails(p) ==
  /\ Is(p, "map")
  /\ GiveBack(op[p].pa)
  /\ Unmap(p, op[p].t, op[p].from, op[p].i, NoPage)
  /\ UNCHANGED <<load, pt, ref, panicked>>

\* growproc() stores the new size; exec() commits to the new table and frees
\* the old one.
UvmallocDone(p) ==
  /\ Is(p, "uvmalloc")
  /\ op[p].i = op[p].end
  /\ IF op[p].t = Own(p)
     THEN Goto(p, Idle) /\ UNCHANGED pt
     ELSE /\ pt' = [pt EXCEPT ![Own(p)] = pt[New(p)], ![New(p)] = pt[Own(p)]]
          /\ Unmap(p, New(p), 0, Size(Own(p)), NoPage)
  /\ UNCHANGED <<load, ref, free, content, panicked>>

\* exit(); the memory stays until wait().
exit(p) ==
  /\ InUser(p)
  /\ Die(p)
  /\ UNCHANGED <<load, pt, ref, free, content>>

\* wait() and freeproc() of an exited child (whose it is plays no part here).
wait(p, q) ==
  /\ InUser(p)
  /\ op[q].pc = "zombie"
  /\ op' = [op EXCEPT ![q] = At("used"),
                      ![p] = [At("unmap") EXCEPT !.t = Own(q), !.end = Size(Own(q)), !.kid = q]]
  /\ UNCHANGED <<load, pt, ref, free, content, panicked>>

-----------------------------------------------------------------------------
NoTable == [va \in Pages |-> NoPage]

\* kinit() and userinit(): uvmfirst() maps one page.
Init ==
  \E f \in Frames :
    /\ load \in Loads
    /\ pt = [t \in Tables |->
               IF t = Own(initproc)
               THEN [NoTable EXCEPT ![0] = [pa |-> f, w |-> TRUE, cow |-> FALSE]]
               ELSE NoTable]
    /\ ref = [g \in Frames |-> IF g = f THEN 1 ELSE 0]
    /\ free = Frames \ {f}
    /\ content = [g \in Frames |-> IF g = f THEN Zero ELSE Junk]
    /\ op = [p \in Procs |-> IF p = initproc THEN Idle ELSE At("unused")]
    /\ panicked = "none"

Step(p) ==
  \/ PageKalloc(p)
  \/ PageKallocFails(p)
  \/ PageCopy(p)
  \/ PageDecrement(p)
  \/ PageKfree(p)
  \/ PageSet(p)
  \/ \E va \in Pages, v \in Vals : Store(p, va, v)
  \/ \E va \in Pages, v \in Vals : copyout(p, va, v)
  \/ \E va \in Pages : PageFault(p, va)
  \/ \E va \in Pages : BadFault(p, va)
  \/ StoreBeyondMAXVA(p)
  \/ CopyoutWrite(p)
  \/ uvmunmap(p)
  \/ UnmapKfree(p)
  \/ UnmapDone(p)
  \/ \E np \in Procs : fork(p, np)
  \/ uvmcopy(p)
  \/ UvmcopyFails(p)
  \/ UvmcopyIncref(p)
  \/ ForkDone(p)
  \/ \E n \in Pages : sbrk(p, n + 1)
  \/ \E n \in Pages : Shrink(p, n)
  \/ exec(p)
  \/ uvmalloc(p)
  \/ UvmallocFails(p)
  \/ UvmallocMap(p)
  \/ UvmallocMapFails(p)
  \/ UvmallocDone(p)
  \/ exit(p)
  \/ \E q \in Procs : wait(p, q)

Halted == panicked # "none" /\ UNCHANGED vars

Next == (\E p \in Procs : Step(p)) \/ Halted

Spec == Init /\ [][Next]_vars

-----------------------------------------------------------------------------
(* Properties.                                                             *)

PCs == {"unused", "used", "user", "zombie", "kalloc", "copy", "dec", "kfreeold", "set",
        "write", "unmap", "kfree", "uvmcopy", "incref", "uvmalloc", "map"}

\* Every variable has its type; no entry is both writable and copy-on-write.
TypeOK ==
  /\ pt \in [Tables -> [Pages -> PTEs \cup {NoPage}]]
  /\ ref \in [Frames -> Nat]
  /\ free \subseteq Frames
  /\ content \in [Frames -> Vals \cup {Zero, Junk}]
  /\ op \in [Procs -> [pc : PCs, t : Tables, i : 0 .. NPages, from : 0 .. NPages,
                       end : 0 .. NPages, pa : Frames \cup {NoPage},
                       v : Vals \cup {NoPage}, kid : Procs \cup {NoPage}]]
  /\ panicked \in {"none", "init exiting", "walk"}

\* The entries that map f.
Mappings(f) == {m \in Tables \X Pages : Mapped(m[1], m[2]) /\ pt[m[1]][m[2]].pa = f}

\* The entries of f that a process is adding or has given up, and that pgref[]
\* therefore does not count.
Uncounted(f) ==
  {p \in Procs :
     \/ op[p].pc = "incref" /\ OldFrame(p) = f
     \/ op[p].pc \in {"kfreeold", "set"} /\ OldFrame(p) = f
     \/ op[p].pc = "kfree" /\ pt[op[p].t][op[p].i].pa = f}

\* The reference count of a frame is the number of page-table entries that map
\* it, up to the entry a process is working on, in every interleaving of forks,
\* faults, exits and failures half-way.
RefsExact ==
  \A f \in Frames : ref[f] = Cardinality(Mappings(f)) - Cardinality(Uncounted(f))

\* The process that holds f in hand, on its way to a table or to the free list.
InHand(f) ==
  {p \in Procs :
     \/ op[p].pc \in {"copy", "dec", "kfreeold", "set", "map"} /\ op[p].pa = f
     \/ op[p].pc = "kfreeold" /\ OldFrame(p) = f
     \/ op[p].pc = "kfree" /\ pt[op[p].t][op[p].i].pa = f}

\* Each frame is in one place: on the free list, counted as referenced, or in
\* the hands of one process.  None is lost when a fork, an exec or an sbrk runs
\* out of memory, none is freed twice, none is freed while it is in use.
FramesAccounted ==
  \A f \in Frames :
    LET places == {x \in {"free", "mapped"} : IF x = "free" THEN f \in free ELSE ref[f] > 0}
    IN  Cardinality(places) + Cardinality(InHand(f)) = 1

\* Frames are accounted for: each is on the free list, mapped as often as its
\* count in pgref says, or in the hand of one process, through every failure of
\* fork(), exec() and sbrk() half-way.
FrameInv == TypeOK /\ RefsExact /\ FramesAccounted

\* The entries whose reference page_change() has already dropped: the process is
\* in the kernel and replaces them before it uses them again.
Dropped == {<<Own(p), op[p].i>> : p \in {q \in Procs : op[q].pc \in {"kfreeold", "set"}}}

\* A frame that one entry can write is in no other table, also while its old
\* sharers are still copying it.
WriteExclusive ==
  \A m \in Tables \X Pages :
    Mapped(m[1], m[2]) /\ pt[m[1]][m[2]].w =>
      Mappings(pt[m[1]][m[2]].pa) \ Dropped = {m}

Alive(p) == op[p].pc \notin {"unused", "used", "zombie"}

\* What p finds at address va: after the copy in page_change() the new frame.
View(p, va) ==
  IF ~Alive(p) \/ ~Mapped(Own(p), va) THEN NoPage
  ELSE IF op[p].pc \in {"kfreeold", "set"} /\ op[p].i = va THEN content[op[p].pa]
  ELSE content[pt[Own(p)][va].pa]

PM == INSTANCE PrivateMemory WITH mem <- [p \in Procs |-> [va \in Pages |-> View(p, va)]]

\* Copy-on-write cannot be told from copying: what a program reads is what it
\* wrote or inherited, whatever the others do.
ImplementsPrivateMemory == PM!Spec
=============================================================================
