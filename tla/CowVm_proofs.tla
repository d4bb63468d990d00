---------------------------- MODULE CowVm_proofs ----------------------------
(***************************************************************************)
(* Proofs about CowVm, for any number of slots, pages and frames: the      *)
(* reference counts are exact and no frame is lost or used twice, a page   *)
(* that can be written is in one table, and copy-on-write memory           *)
(* implements private memory.                                              *)
(***************************************************************************)
EXTENDS CowVm, FiniteSetTheorems, TLAPS

-----------------------------------------------------------------------------
(* The inductive invariant.                                                *)

\* The first n pages of t are mapped.
Dense(t, n) == \A va \in Pages : Mapped(t, va) <=> va < n

Sized(t) == \E n \in 0 .. NPages : Dense(t, n)

\* The tables that p may work on.
Mine(p) == {Own(p), New(p)} \cup {Own(q) : q \in {r \in Procs : r = op[p].kid}}

\* A child that is being made or freed belongs to one process, and its own
\* program does not run.
Kids ==
  \A p \in Procs :
    /\ op[p].pc \in {"uvmcopy", "incref"} => op[p].kid # NoPage
    /\ op[p].kid # NoPage => /\ op[p].pc \in {"uvmcopy", "incref", "unmap", "kfree"}
                             /\ op[op[p].kid].pc = "used"
    /\ \A q \in Procs : op[p].kid # NoPage /\ op[q].kid = op[p].kid => q = p
    /\ op[p].pc \in {"unmap", "kfree"} =>
         IF op[p].kid = NoPage THEN op[p].t \in {Own(p), New(p)} ELSE op[p].t = Own(op[p].kid)
    /\ op[p].pc \in {"uvmalloc", "map"} => op[p].t \in {Own(p), New(p)}

Faulting == {"kalloc", "copy", "dec", "kfreeold", "set"}

\* What the tables of p hold at each point of the system calls.
Layout(p) ==
  LET o == op[p] IN
  /\ o.pc = "unused" => Dense(Own(p), 0)
  /\ o.pc \in {"user", "zombie", "write"} \cup Faulting => Sized(Own(p))
  /\ o.pc \in {"write"} \cup Faulting => o.i \in Pages /\ Mapped(Own(p), o.i)
  /\ o.pc \in Faulting => pt[Own(p)][o.i].cow
  /\ o.pc = "write" => pt[Own(p)][o.i].w /\ o.v # NoPage
  /\ o.pc \in {"uvmcopy", "incref"} =>
       /\ Dense(Own(p), o.end)
       /\ Dense(Own(o.kid), IF o.pc = "incref" THEN o.i + 1 ELSE o.i)
       /\ \A va \in Pages : Mapped(Own(o.kid), va) =>
            pt[Own(o.kid)][va] = pt[Own(p)][va] /\ pt[Own(p)][va].cow
  /\ o.pc \in {"unmap", "kfree"} =>
       /\ \E n \in 0 .. o.i : \A va \in Pages :
            Mapped(o.t, va) <=> (va < n /\ o.t = Own(p)) \/ (o.i <= va /\ va < o.end)
       /\ o.t # Own(p) => Sized(Own(p))
  /\ o.pc \in {"uvmalloc", "map"} =>
       /\ Dense(o.t, o.i) /\ o.from <= o.i
       /\ o.t # Own(p) => Sized(Own(p)) /\ o.from = 0 /\ 1 <= o.end
  /\ o.pc \in {"uvmcopy", "unmap", "uvmalloc"} => o.i <= o.end
  /\ o.pc \in {"incref", "kfree", "map"} => o.i < o.end
  /\ ~(o.pc \in {"unmap", "kfree", "uvmalloc", "map"} /\ o.t = New(p)) => Dense(New(p), 0)

\* The entry that p is working on and that pgref[] does not count.
Limbo(p, t, va) ==
  /\ va = op[p].i
  /\ \/ op[p].pc = "incref" /\ t = Own(op[p].kid)
     \/ op[p].pc \in {"kfreeold", "set"} /\ t = Own(p)
     \/ op[p].pc = "kfree" /\ t = op[p].t

Counts(t, va, f) ==
  /\ Mapped(t, va) /\ pt[t][va].pa = f
  /\ \A p \in Procs : ~Limbo(p, t, va)

Counted(f) == {m \in Tables \X Pages : Counts(m[1], m[2], f)}

RefsInv == \A f \in Frames : ref[f] = Cardinality(Counted(f))

\* p has f in its hand.
Holds(p, f) ==
  \/ op[p].pc \in {"copy", "dec", "kfreeold", "set", "map"} /\ op[p].pa = f
  \/ op[p].pc = "kfreeold" /\ OldFrame(p) = f
  \/ op[p].pc = "kfree" /\ pt[op[p].t][op[p].i].pa = f

\* Each frame is on the free list, referenced, or in one hand.
HandsInv ==
  /\ \A f \in Frames :
       /\ f \in free => ref[f] = 0
       /\ f \notin free /\ ref[f] = 0 => \E p \in Procs : Holds(p, f)
       /\ \A p \in Procs : Holds(p, f) => f \notin free /\ ref[f] = 0
       /\ \A p, q \in Procs : Holds(p, f) /\ Holds(q, f) => p = q
  /\ \A p \in Procs :
       /\ op[p].pc \in {"copy", "dec", "kfreeold", "set", "map"} => op[p].pa # NoPage
       /\ op[p].pc = "kfreeold" => op[p].pa # OldFrame(p)

DroppedAt(t, va) == \E p \in Procs : op[p].pc \in {"kfreeold", "set"} /\ t = Own(p) /\ va = op[p].i

\* A frame in an entry that is not copy-on-write is in no other entry, but those
\* whose reference has been dropped.
Exclusive ==
  \A s, t \in Tables : \A va, wa \in Pages :
    /\ Mapped(t, va) /\ ~pt[t][va].cow
    /\ Mapped(s, wa) /\ pt[s][wa].pa = pt[t][va].pa /\ ~DroppedAt(s, wa)
    => s = t /\ wa = va

\* The copies made by page_change() and uvmalloc() are complete when they are
\* mapped.
CopiesOf(p) ==
  /\ op[p].pc = "dec" => content[op[p].pa] = content[OldFrame(p)]
  /\ op[p].pc = "map" => content[op[p].pa] = Zero
  /\ op[p].pc \in {"uvmalloc", "map"} /\ op[p].t = New(p) =>
       \A va \in Pages : Mapped(New(p), va) =>
         content[pt[New(p)][va].pa] = Zero /\ ~pt[New(p)][va].cow

Copies == \A p \in Procs : CopiesOf(p)

LayoutInv == \A p \in Procs : Layout(p)

IInv == TypeOK /\ load \in Loads /\ Kids /\ LayoutInv /\ RefsInv /\ HandsInv /\ Exclusive /\ Copies

-----------------------------------------------------------------------------
(* Tables, entries and frames.                                             *)

\* Every table has one name.
LEMMA Names ==
  /\ \A p \in Procs : Own(p) \in Tables /\ New(p) \in Tables
  /\ \A p, q : Own(p) = Own(q) => p = q
  /\ \A p, q : New(p) = New(q) => p = q
  /\ \A p, q : Own(p) # New(q)
BY DEF Own, New, Tables

\* What TypeOK says of a process, of a table entry and of a frame.
LEMMA Types ==
  ASSUME TypeOK
  PROVE  /\ \A p \in Procs :
              /\ op[p].pc \in PCs /\ op[p].t \in Tables
              /\ op[p].i \in 0 .. NPages /\ op[p].from \in 0 .. NPages /\ op[p].end \in 0 .. NPages
              /\ op[p].pa \in Frames \cup {NoPage} /\ op[p].v \in Vals \cup {NoPage}
              /\ op[p].kid \in Procs \cup {NoPage}
         /\ \A t \in Tables, va \in Pages : Mapped(t, va) =>
              /\ pt[t][va] \in PTEs /\ pt[t][va].pa \in Frames
              /\ pt[t][va].w => ~pt[t][va].cow
         /\ \A f \in Frames : ref[f] \in Nat
<1>1. \A p \in Procs :
        op[p] \in [pc : PCs, t : Tables, i : 0 .. NPages, from : 0 .. NPages,
                    end : 0 .. NPages, pa : Frames \cup {NoPage},
                    v : Vals \cup {NoPage}, kid : Procs \cup {NoPage}]
  BY DEF TypeOK
<1>2. \A t \in Tables, va \in Pages : Mapped(t, va) => pt[t][va] \in PTEs
  <2>1. \A t \in Tables : pt[t] \in [Pages -> PTEs \cup {NoPage}]
    BY DEF TypeOK
  <2>2. \A t \in Tables, va \in Pages : pt[t][va] \in PTEs \cup {NoPage}
    BY <2>1
  <2> QED
    BY <2>2 DEF Mapped
<1>3. \A e \in PTEs : e.pa \in Frames /\ (e.w => ~e.cow)
  BY DEF PTEs
<1>4. \A f \in Frames : ref[f] \in Nat
  BY DEF TypeOK
<1>5. \A p \in Procs :
        /\ op[p].pc \in PCs /\ op[p].t \in Tables
        /\ op[p].i \in 0 .. NPages /\ op[p].from \in 0 .. NPages /\ op[p].end \in 0 .. NPages
        /\ op[p].pa \in Frames \cup {NoPage} /\ op[p].v \in Vals \cup {NoPage}
        /\ op[p].kid \in Procs \cup {NoPage}
  BY <1>1
<1>6. \A t \in Tables, va \in Pages : Mapped(t, va) =>
        /\ pt[t][va] \in PTEs /\ pt[t][va].pa \in Frames
        /\ pt[t][va].w => ~pt[t][va].cow
  BY <1>2, <1>3, Zenon
<1> QED
  BY <1>4, <1>5, <1>6

\* There are finitely many entries.
LEMMA FiniteEntries == IsFiniteSet(Tables \X Pages) /\ \A f : IsFiniteSet(Counted(f)) /\ IsFiniteSet(Mappings(f))
<1>1. IsFiniteSet({"own", "new"})
  <2>1. IsFiniteSet({"own"})
    BY FS_Singleton
  <2>2. IsFiniteSet({"own"} \cup {"new"})
    BY <2>1, FS_AddElement
  <2> QED
    BY <2>2
<1>2. IsFiniteSet(Tables)
  BY <1>1, SlotsAssumption, FS_Product DEF Tables
<1>3. IsFiniteSet(Pages)
  BY PagesAssumption, FS_Interval DEF Pages
<1>4. IsFiniteSet(Tables \X Pages)
  BY <1>2, <1>3, FS_Product
<1> QED
  BY <1>4, FS_Subset DEF Counted, Mappings

\* A table whose first n pages are mapped has size n.
LEMMA DenseSize ==
  ASSUME NEW t, NEW n \in 0 .. NPages, Dense(t, n)
  PROVE  Size(t) = n
<1>1. {va \in Pages : Mapped(t, va)} = 0 .. n - 1
  BY PagesAssumption DEF Dense, Pages
<1>2. Cardinality(0 .. n - 1) = n
  <2>1. 0 \in Int /\ n - 1 \in Int /\ (0 > n - 1 <=> n = 0) /\ n - 1 - 0 + 1 = n
    BY PagesAssumption
  <2> QED
    BY <2>1, FS_Interval
<1> QED
  BY <1>1, <1>2 DEF Size

\* What processes may work on at a time is disjoint, up to the table of a child
\* that is being made or freed.
LEMMA Separate ==
  ASSUME TypeOK, Kids, NEW p \in Procs, NEW q \in Procs, p # q, Alive(p)
  PROVE  /\ New(q) \notin Mine(p)
         /\ op[q].pc # "used" => Own(q) \notin Mine(p)
         /\ op[q].kid # NoPage => Own(op[q].kid) \notin Mine(p)
         /\ op[q].kid # p
         /\ Alive(q) => Mine(p) \cap Mine(q) = {}
<1>1. \A r \in Procs : op[r].kid # NoPage => op[r].kid \in Procs /\ op[op[r].kid].pc = "used"
  <2>1. \A r \in Procs : op[r].kid \in Procs \cup {NoPage}
    BY DEF TypeOK
  <2> QED
    BY <2>1 DEF Kids
<1>2. op[q].kid # NoPage => op[p].kid # op[q].kid
  BY DEF Kids
<1>3. New(q) \notin Mine(p)
  BY Names DEF Mine
<1>4. op[q].pc # "used" => Own(q) \notin Mine(p)
  <2>1. op[q].pc # "used" => op[p].kid # q
    BY <1>1, ContentsAssumption
  <2> QED
    BY <2>1, Names DEF Mine
<1>5. op[q].kid # NoPage => Own(op[q].kid) \notin Mine(p)
  <2>1. op[q].kid # NoPage => op[q].kid # p
    BY <1>1 DEF Alive
  <2> QED
    BY <1>2, <2>1, Names DEF Mine
<1>6. op[q].kid # p
  BY <1>1, ContentsAssumption DEF Alive
<1>7. ASSUME Alive(q) PROVE Mine(p) \cap Mine(q) = {}
  <2>1. Own(q) \notin Mine(p)
    BY <1>4, <1>7 DEF Alive
  <2>2. \A r \in Procs : r = op[q].kid => Own(r) \notin Mine(p)
    BY <1>5, ContentsAssumption
  <2> QED
    BY <1>3, <2>1, <2>2 DEF Mine
<1> QED
  BY <1>3, <1>4, <1>5, <1>6, <1>7

\* The tables that a process works on are its own.
LEMMA MineOp ==
  ASSUME TypeOK, Kids, NEW p \in Procs
  PROVE  /\ Own(p) \in Mine(p) /\ New(p) \in Mine(p)
         /\ op[p].kid # NoPage => op[p].kid \in Procs /\ Own(op[p].kid) \in Mine(p)
         /\ op[p].pc \in {"unmap", "kfree", "uvmalloc", "map"} => op[p].t \in Mine(p)
         /\ \A t, va : Limbo(p, t, va) => t \in Mine(p) /\ Alive(p)
<1>1. op[p].kid \in Procs \cup {NoPage}
  BY DEF TypeOK
<1>2. /\ Own(p) \in Mine(p) /\ New(p) \in Mine(p)
      /\ op[p].kid # NoPage => op[p].kid \in Procs /\ Own(op[p].kid) \in Mine(p)
  BY <1>1 DEF Mine
<1>3. op[p].pc \in {"unmap", "kfree", "uvmalloc", "map"} => op[p].t \in Mine(p)
  BY <1>2 DEF Kids
<1> QED
  BY <1>2, <1>3 DEF Limbo, Alive, Kids

\* So only p itself has an entry of its tables in limbo.
LEMMA OwnLimbo ==
  ASSUME TypeOK, Kids, NEW p \in Procs, Alive(p), NEW t \in Mine(p), NEW va,
         ~Limbo(p, t, va)
  PROVE  \A q \in Procs : ~Limbo(q, t, va)
<1> SUFFICES ASSUME NEW q \in Procs, Limbo(q, t, va), q # p PROVE FALSE
  OBVIOUS
<1>1. t \in Mine(q) /\ Alive(q)
  BY MineOp
<1> QED
  BY <1>1, Separate

\* A counted entry makes the count positive, and two of them more than one.
LEMMA RefCounts ==
  ASSUME TypeOK, RefsInv, NEW t \in Tables, NEW va \in Pages, NEW f \in Frames, Counts(t, va, f)
  PROVE  /\ ref[f] # 0
         /\ ref[f] <= 1 => \A s \in Tables, wa \in Pages : Counts(s, wa, f) => s = t /\ wa = va
<1>1. <<t, va>> \in Counted(f) /\ IsFiniteSet(Counted(f)) /\ ref[f] = Cardinality(Counted(f))
  BY FiniteEntries DEF Counted, RefsInv
<1>2. ref[f] # 0
  BY <1>1, FS_EmptySet
<1>3. ASSUME ref[f] <= 1, NEW s \in Tables, NEW wa \in Pages, Counts(s, wa, f)
      PROVE  s = t /\ wa = va
  <2>1. <<s, wa>> \in Counted(f)
    BY <1>3 DEF Counted
  <2>2. Cardinality(Counted(f)) = 1
    <3>1. ref[f] \in Nat
      BY DEF TypeOK
    <3> QED
      BY <1>1, <1>2, <1>3, <3>1
  <2>3. PICK x : Counted(f) = {x}
    BY <1>1, <2>2, FS_Singleton
  <2> QED
    BY <1>1, <2>1, <2>3
<1> QED
  BY <1>2, <1>3

-----------------------------------------------------------------------------
(* How the parts of the invariant change.                                  *)

\* No entry starts or ceases to be counted.
LEMMA CountsSame ==
  ASSUME RefsInv, ref' = ref,
         \A t \in Tables, va \in Pages, f \in Frames : Counts(t, va, f)' <=> Counts(t, va, f)
  PROVE  RefsInv'
<1>1. \A f \in Frames : Counted(f)' = Counted(f)
  BY DEF Counted
<1> QED
  BY <1>1 DEF RefsInv

\* One more entry of g is counted.
LEMMA CountsMore ==
  ASSUME TypeOK, RefsInv, NEW g \in Frames, NEW s \in Tables, NEW wa \in Pages,
         ref'[g] = ref[g] + 1, \A f \in Frames : f # g => ref'[f] = ref[f], ~Counts(s, wa, g),
         \A t \in Tables, va \in Pages, f \in Frames :
           Counts(t, va, f)' <=> Counts(t, va, f) \/ (t = s /\ va = wa /\ f = g)
  PROVE  RefsInv'
<1>1. \A f \in Frames : f # g => Counted(f)' = Counted(f)
  BY DEF Counted
<1>2. Counted(g)' = Counted(g) \cup {<<s, wa>>} /\ <<s, wa>> \notin Counted(g)
  BY DEF Counted
<1>3. Cardinality(Counted(g)') = Cardinality(Counted(g)) + 1
  BY <1>2, FiniteEntries, FS_AddElement
<1> QED
  BY <1>1, <1>3 DEF RefsInv

\* One entry of g less is counted.
LEMMA CountsLess ==
  ASSUME TypeOK, RefsInv, NEW g \in Frames, NEW s \in Tables, NEW wa \in Pages,
         ref'[g] = ref[g] - 1, \A f \in Frames : f # g => ref'[f] = ref[f], Counts(s, wa, g),
         \A t \in Tables, va \in Pages, f \in Frames :
           Counts(t, va, f)' <=> Counts(t, va, f) /\ ~(t = s /\ va = wa)
  PROVE  RefsInv'
<1>1. \A f \in Frames : f # g => Counted(f)' = Counted(f)
  BY DEF Counted, Counts
<1>2. Counted(g)' = Counted(g) \ {<<s, wa>>} /\ <<s, wa>> \in Counted(g)
  BY DEF Counted
<1>3. Cardinality(Counted(g)') = Cardinality(Counted(g)) - 1
  BY <1>2, FiniteEntries, FS_RemoveElement
<1> QED
  BY <1>1, <1>3 DEF RefsInv

\* A step of p in its own tables leaves the others alone.
LEMMA OthersKept ==
  ASSUME TypeOK, Kids, LayoutInv, NEW p \in Procs, Alive(p), NEW q \in Procs, q # p, op'[q] = op[q],
         \A t \in Tables : t \notin Mine(p) => pt'[t] = pt[t]
  PROVE  /\ Layout(q)'
         /\ \A t, va : Limbo(q, t, va)' <=> Limbo(q, t, va)
         /\ \A f : Holds(q, f)' <=> Holds(q, f)
         /\ op[q].pc = "kfreeold" => OldFrame(q)' = OldFrame(q)
<1>1. /\ pt'[New(q)] = pt[New(q)]
      /\ op[q].pc # "used" => pt'[Own(q)] = pt[Own(q)]
      /\ op[q].kid # NoPage => pt'[Own(op[q].kid)] = pt[Own(op[q].kid)]
  BY Separate, Names DEF TypeOK
<1>2. op[q].pc \in {"unmap", "kfree", "uvmalloc", "map"} => pt'[op[q].t] = pt[op[q].t]
  <2>1. Alive(q) => op[q].t \in {Own(q), New(q)} \/ (op[q].kid # NoPage /\ op[q].t = Own(op[q].kid))
                    \/ op[q].pc \notin {"unmap", "kfree", "uvmalloc", "map"}
    BY DEF Kids
  <2> QED
    BY <1>1, <2>1 DEF Alive
<1>3. op[q].pc \in {"uvmcopy", "incref"} => op[q].kid # NoPage
  BY DEF Kids
<1>4. Layout(q)'
  <2>1. Layout(q)
    BY DEF LayoutInv
  <2> QED
    BY <1>1, <1>2, <1>3, <2>1 DEF Layout, Dense, Sized, Mapped, Faulting
<1>5. \A t, va : Limbo(q, t, va)' <=> Limbo(q, t, va)
  BY DEF Limbo
<1>6. op[q].pc = "kfreeold" => OldFrame(q)' = OldFrame(q)
  BY <1>1 DEF OldFrame
<1>7. \A f : Holds(q, f)' <=> Holds(q, f)
  BY <1>2, <1>6 DEF Holds
<1> QED
  BY <1>4, <1>5, <1>6, <1>7

\* The frames p may write or has taken from the free list.
Overwritten(p, g) ==
  \/ g \in free
  \/ Holds(p, g)
  \/ /\ op[p].pc \in {"user", "write"}
     /\ \E va \in Pages : Mapped(Own(p), va) /\ pt[Own(p)][va].w /\ pt[Own(p)][va].pa = g

\* They are not those that the others use.
LEMMA NotOverwritten ==
  ASSUME IInv, NEW p \in Procs, NEW g \in Frames, Overwritten(p, g), Alive(p)
  PROVE  /\ \A t \in Tables, va \in Pages : Counts(t, va, g) => t = Own(p)
         /\ \A q \in Procs : q # p => ~Holds(q, g)
<1>1. TypeOK /\ Kids /\ RefsInv /\ HandsInv /\ Exclusive
  BY DEF IInv
<1>2. CASE g \in free \/ Holds(p, g)
  <2>1. ref[g] = 0
    BY <1>1, <1>2 DEF HandsInv
  <2>2. \A t \in Tables, va \in Pages : ~Counts(t, va, g)
    BY <1>1, <2>1, RefCounts
  <2> QED
    BY <1>1, <1>2, <2>2 DEF HandsInv
<1>3. CASE ~(g \in free \/ Holds(p, g))
  <2>1. PICK wa \in Pages : Mapped(Own(p), wa) /\ pt[Own(p)][wa].w /\ pt[Own(p)][wa].pa = g
    BY <1>3 DEF Overwritten
  <2>2. op[p].pc \in {"user", "write"}
    BY <1>3 DEF Overwritten
  <2>3. Counts(Own(p), wa, g)
    <3>1. ~Limbo(p, Own(p), wa)
      BY <2>2 DEF Limbo
    <3>2. \A q \in Procs : ~Limbo(q, Own(p), wa)
      BY <1>1, <3>1, OwnLimbo, MineOp
    <3> QED
      BY <2>1, <3>2 DEF Counts
  <2>4. ref[g] # 0
    BY <1>1, <2>3, RefCounts, Names
  <2>5. ~pt[Own(p)][wa].cow
    BY <1>1, <2>1, Types, Names
  <2>6. ASSUME NEW t \in Tables, NEW va \in Pages, Counts(t, va, g) PROVE t = Own(p)
    <3>1. ~DroppedAt(t, va)
      BY <2>6 DEF Counts, Limbo, DroppedAt
    <3> QED
      BY <1>1, <2>1, <2>5, <2>6, <3>1, Names DEF Exclusive, Counts
  <2> QED
    BY <1>1, <2>4, <2>6 DEF HandsInv
<1> QED
  BY <1>2, <1>3

\* So the copies of the others stay as they are.
LEMMA CopiesOther ==
  ASSUME IInv, NEW p \in Procs, Alive(p), NEW q \in Procs, q # p, op'[q] = op[q],
         \A t \in Tables : t \notin Mine(p) => pt'[t] = pt[t],
         \A f \in Frames : content'[f] = content[f] \/ Overwritten(p, f)
  PROVE  CopiesOf(q)'
<1>1. TypeOK /\ Kids /\ LayoutInv /\ CopiesOf(q)
  BY DEF IInv, Copies
<1>2. pt'[New(q)] = pt[New(q)] /\ New(q) \in Tables /\ Own(q) \in Tables
  BY <1>1, Separate, Names
<1>3. ASSUME NEW f \in Frames, Holds(q, f) PROVE content'[f] = content[f]
  BY <1>3, NotOverwritten
<1>4. ASSUME NEW t \in Tables, t # Own(p), NEW va \in Pages, NEW f \in Frames, Counts(t, va, f)
      PROVE  content'[f] = content[f]
  BY <1>4, NotOverwritten
<1>5. CASE op[q].pc = "dec"
  <2>1. Alive(q) /\ op[q].i \in Pages /\ Mapped(Own(q), op[q].i)
    BY <1>1, <1>5 DEF Alive, LayoutInv, Layout, Faulting
  <2>2. pt'[Own(q)] = pt[Own(q)] /\ Own(q) # Own(p)
    BY <1>1, <1>2, <1>5, Separate, Names
  <2>3. OldFrame(q) \in Frames /\ Counts(Own(q), op[q].i, OldFrame(q))
    <3>1. ~Limbo(q, Own(q), op[q].i)
      BY <1>5 DEF Limbo
    <3>2. \A r \in Procs : ~Limbo(r, Own(q), op[q].i)
      BY <1>1, <2>1, <3>1, OwnLimbo, MineOp
    <3> QED
      BY <1>1, <1>2, <2>1, <3>2, Types DEF Counts, OldFrame
  <2>4. op[q].pa \in Frames /\ Holds(q, op[q].pa)
    BY <1>1, <1>5, Types DEF IInv, HandsInv, Holds
  <2>5. OldFrame(q)' = OldFrame(q)
    BY <2>2 DEF OldFrame
  <2> QED
    BY <1>1, <1>2, <1>3, <1>4, <1>5, <2>1, <2>2, <2>3, <2>4, <2>5 DEF CopiesOf
<1>6. CASE op[q].pc \in {"uvmalloc", "map"}
  <2>1. op[q].pc = "map" => op[q].pa \in Frames /\ Holds(q, op[q].pa)
    BY <1>1, Types DEF IInv, HandsInv, Holds
  <2>2. ASSUME op[q].t = New(q), NEW va \in Pages, Mapped(New(q), va)
        PROVE  content'[pt[New(q)][va].pa] = content[pt[New(q)][va].pa]
    <3>1. ~Limbo(q, New(q), va)
      BY <1>6 DEF Limbo
    <3>2. \A r \in Procs : ~Limbo(r, New(q), va)
      BY <1>1, <1>6, <3>1, OwnLimbo, MineOp DEF Alive
    <3>3. pt[New(q)][va].pa \in Frames /\ Counts(New(q), va, pt[New(q)][va].pa)
      BY <1>1, <1>2, <2>2, <3>2, Types DEF Counts
    <3> QED
      BY <1>2, <1>4, <3>3, Names
  <2> QED
    BY <1>1, <1>2, <1>3, <1>6, <2>1, <2>2 DEF CopiesOf, Mapped
<1>7. CASE op[q].pc \notin {"dec", "uvmalloc", "map"}
  BY <1>7 DEF CopiesOf
<1> QED
  BY <1>5, <1>6, <1>7

\* What p itself must keep of Kids.
KidsOf(p) ==
  /\ op[p].pc \in {"uvmcopy", "incref"} => op[p].kid # NoPage
  /\ op[p].kid # NoPage => op[p].pc \in {"uvmcopy", "incref", "unmap", "kfree"}
  /\ op[p].pc \in {"unmap", "kfree"} =>
       IF op[p].kid = NoPage THEN op[p].t \in {Own(p), New(p)} ELSE op[p].t = Own(op[p].kid)
  /\ op[p].pc \in {"uvmalloc", "map"} => op[p].t \in {Own(p), New(p)}

\* The step of one process that makes or frees no child: what is left to show.
LEMMA StepKept ==
  ASSUME IInv, NEW p \in Procs, Alive(p), \A q \in Procs : q # p => op'[q] = op[q],
         op'[p].kid \in {op[p].kid, NoPage}, KidsOf(p)', Layout(p)', CopiesOf(p)',
         \A t \in Tables : t \notin Mine(p) => pt'[t] = pt[t],
         \A f \in Frames : content'[f] = content[f] \/ Overwritten(p, f)
  PROVE  Kids' /\ LayoutInv' /\ Copies'
<1>0. TypeOK /\ Kids /\ LayoutInv
  BY DEF IInv
<1>1. LayoutInv'
  BY <1>0, OthersKept DEF LayoutInv
<1>2. Copies'
  BY CopiesOther DEF Copies
<1>3. \A q \in Procs : op[q].kid # p
  <2>1. op[p].kid # p
    <3>1. op[p].kid # NoPage => op[op[p].kid].pc = "used"
      BY <1>0 DEF Kids
    <3> QED
      BY <3>1, ContentsAssumption DEF Alive
  <2> QED
    BY <1>0, <2>1, Separate
<1>4. \A q \in Procs : op[q].kid \in Procs \cup {NoPage}
  BY <1>0, Types
<1>5. ASSUME NEW q \in Procs, q # p
      PROVE  /\ op'[q].pc \in {"uvmcopy", "incref"} => op'[q].kid # NoPage
             /\ op'[q].kid # NoPage => /\ op'[q].pc \in {"uvmcopy", "incref", "unmap", "kfree"}
                                       /\ op'[op'[q].kid].pc = "used"
             /\ op'[q].pc \in {"unmap", "kfree"} =>
                  IF op'[q].kid = NoPage THEN op'[q].t \in {Own(q), New(q)} ELSE op'[q].t = Own(op'[q].kid)
             /\ op'[q].pc \in {"uvmalloc", "map"} => op'[q].t \in {Own(q), New(q)}
  BY <1>0, <1>3, <1>4, <1>5 DEF Kids
<1>6. op'[p].kid # NoPage => op'[op'[p].kid].pc = "used"
  BY <1>0, <1>3, <1>4 DEF Kids
<1>7. \A q, r \in Procs : op'[q].kid # NoPage /\ op'[r].kid = op'[q].kid => r = q
  BY <1>0 DEF Kids
<1>8. Kids'
  BY <1>5, <1>6, <1>7 DEF Kids, KidsOf
<1> QED
  BY <1>1, <1>2, <1>8

\* The points of the system calls where p holds no frame and has no entry in
\* limbo.
Calm == {"user", "zombie", "kalloc", "write", "unmap", "uvmcopy", "uvmalloc"}

\* A step between two such points, that changes no table.
LEMMA CalmStep ==
  ASSUME IInv, TypeOK', NEW p \in Procs, Alive(p), \A q \in Procs : q # p => op'[q] = op[q],
         op[p].pc \in Calm, op'[p].pc \in Calm,
         op'[p].kid \in {op[p].kid, NoPage}, KidsOf(p)', Layout(p)', CopiesOf(p)',
         UNCHANGED <<load, pt, ref, free>>,
         \A f \in Frames : content'[f] = content[f] \/ Overwritten(p, f)
  PROVE  IInv'
<1>0. TypeOK /\ Kids /\ LayoutInv /\ RefsInv /\ HandsInv /\ Exclusive /\ load \in Loads
  BY DEF IInv
<1>1. Kids' /\ LayoutInv' /\ Copies'
  BY StepKept
<1>2. \A q \in Procs : \A t, va : Limbo(q, t, va)' <=> Limbo(q, t, va)
  BY DEF Limbo, Calm
<1>3. RefsInv'
  <2>1. \A t \in Tables, va \in Pages, f \in Frames : Counts(t, va, f)' <=> Counts(t, va, f)
    BY <1>2 DEF Counts, Mapped
  <2> QED
    BY <1>0, <2>1, CountsSame
<1>4. \A q \in Procs : \A f : Holds(q, f)' <=> Holds(q, f)
  BY DEF Holds, Calm, OldFrame
<1>5. HandsInv'
  <2>1. \A q \in Procs : op'[q].pc \in {"copy", "dec", "kfreeold", "set", "map"} => op'[q] = op[q]
    BY DEF Calm
  <2> QED
    BY <1>0, <1>4, <2>1 DEF HandsInv, OldFrame
<1>6. Exclusive'
  <2>1. \A t, va : DroppedAt(t, va)' <=> DroppedAt(t, va)
    BY DEF DroppedAt, Calm
  <2> QED
    BY <1>0, <2>1 DEF Exclusive, Mapped
<1> QED
  BY <1>0, <1>1, <1>3, <1>5, <1>6 DEF IInv

-----------------------------------------------------------------------------
(* Every action keeps the invariant: system calls begin and end.           *)

OpSet == [pc : PCs, t : Tables, i : 0 .. NPages, from : 0 .. NPages,
          end : 0 .. NPages, pa : Frames \cup {NoPage},
          v : Vals \cup {NoPage}, kid : Procs \cup {NoPage}]

\* The fields of a process that enters or leaves the kernel.
LEMMA AtFields ==
  /\ Idle = At("user")
  /\ \A pc \in PCs : At(pc) \in OpSet
  /\ \A pc : At(pc) = [pc |-> pc, t |-> Own(initproc), i |-> 0, from |-> 0, end |-> 0,
                       pa |-> NoPage, v |-> NoPage, kid |-> NoPage]
<1>1. \A pc : At(pc) = [pc |-> pc, t |-> Own(initproc), i |-> 0, from |-> 0, end |-> 0,
                        pa |-> NoPage, v |-> NoPage, kid |-> NoPage]
  BY DEF At, Idle
<1>2. Own(initproc) \in Tables /\ 0 \in 0 .. NPages
  BY SlotsAssumption, PagesAssumption, Names
<1>3. Idle = At("user")
  BY <1>1 DEF Idle
<1>4. \A pc \in PCs : At(pc) \in OpSet
  BY <1>1, <1>2 DEF OpSet
<1> QED
  BY <1>1, <1>3, <1>4

\* Only p moves.
LEMMA OpMove ==
  ASSUME TypeOK, NEW p \in Procs, NEW o, op' = [op EXCEPT ![p] = o]
  PROVE  /\ op'[p] = o /\ \A q \in Procs : q # p => op'[q] = op[q]
         /\ o \in OpSet => op' \in [Procs -> OpSet]
BY DEF TypeOK, OpSet

\* Before a fault the tables of a process in user space are in order.
LEMMA InUserFacts ==
  ASSUME IInv, NEW p \in Procs, InUser(p)
  PROVE  /\ TypeOK /\ Alive(p) /\ op[p].pc = "user" /\ op[p].kid = NoPage
         /\ Sized(Own(p)) /\ Dense(New(p), 0) /\ Dense(Own(p), Size(Own(p))) /\ Size(Own(p)) \in 0 .. NPages
<1>1. TypeOK /\ Alive(p) /\ op[p].pc = "user" /\ op[p].kid = NoPage /\ Layout(p)
  BY DEF IInv, LayoutInv, InUser, Is, Alive, Kids
<1>2. Sized(Own(p)) /\ Dense(New(p), 0)
  BY <1>1 DEF Layout
<1>3. PICK n \in 0 .. NPages : Dense(Own(p), n)
  BY <1>2 DEF Sized
<1>4. Size(Own(p)) = n
  BY <1>3, DenseSize
<1> QED
  BY <1>1, <1>2, <1>3, <1>4

\* exit(), or a page fault that cannot be served.
LEMMA DieIInv ==
  ASSUME IInv, NEW p \in Procs, op[p].pc \in {"user", "kalloc"}, Die(p),
         UNCHANGED <<load, pt, ref, free, content>>
  PROVE  IInv'
<1>0. TypeOK /\ Kids /\ Layout(p) /\ Alive(p) /\ op[p].kid = NoPage
  BY DEF IInv, LayoutInv, Alive, Kids
<1>1. CASE p = initproc
  <2>1. op' = op /\ panicked' = "init exiting"
    BY <1>1 DEF Die
  <2>2. TypeOK'
    BY <1>0, <2>1 DEF TypeOK
  <2>3. KidsOf(p)' /\ Layout(p)' /\ CopiesOf(p)'
    BY <1>0, <2>1 DEF KidsOf, Layout, CopiesOf, Dense, Sized, Mapped, Faulting
  <2> QED
    BY <1>0, <2>1, <2>2, <2>3, CalmStep DEF Calm
<1>2. CASE p # initproc
  <2>1. op' = [op EXCEPT ![p] = At("zombie")] /\ panicked' = panicked
    BY <1>2 DEF Die, Goto
  <2>2. /\ op'[p].pc = "zombie" /\ op'[p].kid = NoPage
        /\ \A q \in Procs : q # p => op'[q] = op[q]
        /\ op' \in [Procs -> OpSet]
    BY <1>0, <2>1, OpMove, AtFields, ZenonT(60) DEF PCs
  <2>3. TypeOK'
    BY <1>0, <2>1, <2>2 DEF TypeOK, OpSet
  <2>4. KidsOf(p)' /\ Layout(p)' /\ CopiesOf(p)'
    BY <1>0, <2>2 DEF KidsOf, Layout, CopiesOf, Dense, Sized, Mapped, Faulting
  <2> QED
    BY <1>0, <2>2, <2>3, <2>4, CalmStep DEF Calm
<1> QED
  BY <1>1, <1>2

\* Stores to a page with PTE_W, by the program and by copyout().
LEMMA StoreIInv ==
  ASSUME IInv, NEW p \in Procs, NEW va \in Pages, NEW v \in Vals, Store(p, va, v)
  PROVE  IInv'
<1>0. /\ InUser(p) /\ Mapped(Own(p), va) /\ pt[Own(p)][va].w
      /\ content' = [content EXCEPT ![pt[Own(p)][va].pa] = v]
      /\ UNCHANGED <<load, pt, ref, free, op, panicked>>
  BY DEF Store
<1>1. TypeOK /\ Alive(p) /\ op[p].pc = "user" /\ Layout(p) /\ op[p].kid = NoPage
  BY <1>0, InUserFacts DEF IInv, LayoutInv
<1>2. TypeOK'
  BY <1>0, <1>1 DEF TypeOK
<1>3. \A f \in Frames : content'[f] = content[f] \/ Overwritten(p, f)
  BY <1>0, <1>1 DEF TypeOK, Overwritten
<1>4. KidsOf(p)' /\ Layout(p)' /\ CopiesOf(p)'
  BY <1>0, <1>1 DEF KidsOf, Layout, CopiesOf, Dense, Sized, Mapped, Faulting
<1> QED
  BY <1>0, <1>1, <1>2, <1>3, <1>4, CalmStep DEF Calm

\* The memmove() of copyout().
LEMMA CopyoutWriteIInv ==
  ASSUME IInv, NEW p \in Procs, CopyoutWrite(p)
  PROVE  IInv'
<1>0. /\ op[p].pc = "write"
      /\ content' = [content EXCEPT ![OldFrame(p)] = op[p].v]
      /\ op' = [op EXCEPT ![p] = Idle]
      /\ UNCHANGED <<load, pt, ref, free, panicked>>
  BY DEF CopyoutWrite, Is, Goto
<1>1. TypeOK /\ Kids /\ Alive(p) /\ Layout(p) /\ op[p].kid = NoPage
  BY <1>0 DEF IInv, LayoutInv, Kids, Alive
<1>2. /\ op'[p].pc = "user" /\ op'[p].kid = NoPage
      /\ \A q \in Procs : q # p => op'[q] = op[q]
      /\ op' \in [Procs -> OpSet]
  BY <1>0, <1>1, OpMove, AtFields, ZenonT(60) DEF PCs
<1>3. op[p].i \in Pages /\ Mapped(Own(p), op[p].i) /\ pt[Own(p)][op[p].i].w /\ op[p].v \in Vals
  BY <1>0, <1>1, Types DEF Layout
<1>4. TypeOK'
  BY <1>0, <1>1, <1>2, <1>3 DEF TypeOK, OpSet
<1>5. \A f \in Frames : content'[f] = content[f] \/ Overwritten(p, f)
  BY <1>0, <1>1, <1>3 DEF TypeOK, Overwritten, OldFrame
<1>6. KidsOf(p)' /\ Layout(p)' /\ CopiesOf(p)'
  BY <1>0, <1>1, <1>2 DEF KidsOf, Layout, CopiesOf, Dense, Sized, Mapped, Faulting
<1> QED
  BY <1>0, <1>1, <1>2, <1>4, <1>5, <1>6, CalmStep DEF Calm

\* growproc() and exec() begin, and uvmdealloc().
LEMMA ResizeIInv ==
  ASSUME IInv, NEW p \in Procs,
         \/ \E n \in Pages : sbrk(p, n + 1) \/ Shrink(p, n)
         \/ exec(p)
  PROVE  IInv'
<1>0. InUser(p) /\ UNCHANGED <<load, pt, ref, free, content, panicked>>
  BY DEF sbrk, Shrink, exec
<1>1. /\ TypeOK /\ Alive(p) /\ op[p].pc = "user" /\ op[p].kid = NoPage /\ Kids
      /\ Sized(Own(p)) /\ Dense(New(p), 0) /\ Dense(Own(p), Size(Own(p))) /\ Size(Own(p)) \in 0 .. NPages
  BY <1>0, InUserFacts DEF IInv
<1>2. Own(p) \in Tables /\ New(p) \in Tables /\ Own(p) # New(p)
  BY Names
<1>3. load.image \in 1 .. NPages /\ load.pages \in 1 .. NPages
  BY LoadAssumption, PagesAssumption DEF IInv
<1>4. ASSUME NEW n \in Pages, sbrk(p, n + 1) PROVE IInv'
  <2> DEFINE o == [At("uvmalloc") EXCEPT !.t = Own(p), !.i = Size(Own(p)),
                                  !.from = Size(Own(p)), !.end = n + 1]
  <2>0. op' = [op EXCEPT ![p] = o] /\ Size(Own(p)) < n + 1
    BY <1>4 DEF sbrk, Goto
  <2>1. op' = [op EXCEPT ![p] = o] /\ Size(Own(p)) < n + 1 /\ n + 1 \in 0 .. NPages
    <3>1. n + 1 \in 0 .. NPages
      BY PagesAssumption DEF Pages
    <3> QED
      BY <2>0, <3>1
  <2>2. /\ o.pc = "uvmalloc" /\ o.t = Own(p) /\ o.i = Size(Own(p)) /\ o.from = Size(Own(p))
        /\ o.end = n + 1 /\ o.pa = NoPage /\ o.v = NoPage /\ o.kid = NoPage
    BY DEF At, Idle
  <2>3. o \in OpSet
    <3>1. At("uvmalloc") \in OpSet /\ At("unmap") \in OpSet
      BY AtFields DEF PCs
    <3> QED
      BY <3>1, <1>1, <1>2, <2>1 DEF OpSet
  <2> HIDE DEF o
  <2>4. /\ op'[p] = o /\ op' \in [Procs -> OpSet] /\ \A q \in Procs : q # p => op'[q] = op[q]
    BY <1>1, <2>1, <2>3, OpMove
  <2>5. TypeOK'
    BY <1>0, <1>1, <2>4 DEF TypeOK, OpSet
  <2>6. /\ op'[p].pc = "uvmalloc" /\ op'[p].t = Own(p) /\ op'[p].i = Size(Own(p))
        /\ op'[p].from = Size(Own(p)) /\ op'[p].end = n + 1 /\ op'[p].kid = NoPage
    BY <2>2, <2>4
  <2>7. KidsOf(p)' /\ CopiesOf(p)'
    BY <1>2, <2>6 DEF KidsOf, CopiesOf
  <2>8. Layout(p)'
    BY <1>0, <1>1, <1>2, <2>1, <2>6, PagesAssumption DEF Layout, Dense, Sized, Mapped, Faulting
  <2> QED
    BY <1>0, <1>1, <2>4, <2>5, <2>6, <2>7, <2>8, CalmStep DEF Calm
<1>5. ASSUME NEW n \in Pages, Shrink(p, n) PROVE IInv'
  <2> DEFINE o == [At("unmap") EXCEPT !.t = Own(p), !.i = n, !.end = Size(Own(p)), !.kid = NoPage]
  <2>0. op' = [op EXCEPT ![p] = o] /\ n < Size(Own(p))
    BY <1>5 DEF Shrink, Unmap, Goto
  <2>1. op' = [op EXCEPT ![p] = o] /\ n < Size(Own(p)) /\ n \in 0 .. NPages
    <3>1. n \in 0 .. NPages
      BY PagesAssumption DEF Pages
    <3> QED
      BY <2>0, <3>1
  <2>2. /\ o.pc = "unmap" /\ o.t = Own(p) /\ o.i = n /\ o.from = 0
        /\ o.end = Size(Own(p)) /\ o.pa = NoPage /\ o.v = NoPage /\ o.kid = NoPage
    BY DEF At, Idle
  <2>3. o \in OpSet
    <3>1. At("uvmalloc") \in OpSet /\ At("unmap") \in OpSet
      BY AtFields DEF PCs
    <3> QED
      BY <3>1, <1>1, <1>2, <2>1 DEF OpSet
  <2> HIDE DEF o
  <2>4. /\ op'[p] = o /\ op' \in [Procs -> OpSet] /\ \A q \in Procs : q # p => op'[q] = op[q]
    BY <1>1, <2>1, <2>3, OpMove
  <2>5. TypeOK'
    BY <1>0, <1>1, <2>4 DEF TypeOK, OpSet
  <2>6. /\ op'[p].pc = "unmap" /\ op'[p].t = Own(p) /\ op'[p].i = n
        /\ op'[p].end = Size(Own(p)) /\ op'[p].kid = NoPage
    BY <2>2, <2>4
  <2>7. KidsOf(p)' /\ CopiesOf(p)'
    BY <1>2, <2>6 DEF KidsOf, CopiesOf
  <2>8. \E m \in 0 .. n : \A va \in Pages :
          Mapped(Own(p), va)' <=> (va < m /\ Own(p) = Own(p)) \/ (n <= va /\ va < Size(Own(p)))
    <3>1. n \in 0 .. n
      BY <2>1, PagesAssumption
    <3>2. \A va \in Pages : Mapped(Own(p), va)' <=> (va < n) \/ (n <= va /\ va < Size(Own(p)))
      BY <1>0, <1>1, <2>1, PagesAssumption DEF Dense, Mapped, Pages
    <3> QED
      BY <3>1, <3>2
  <2>9. Layout(p)'
    BY <1>0, <1>1, <1>2, <2>1, <2>6, <2>8, PagesAssumption DEF Layout, Dense, Mapped, Faulting
  <2> QED
    BY <1>0, <1>1, <2>4, <2>5, <2>6, <2>7, <2>9, CalmStep DEF Calm
<1>6. ASSUME exec(p) PROVE IInv'
  <2> DEFINE o == [At("uvmalloc") EXCEPT !.t = New(p), !.i = 0, !.end = load.image]
  <2>1. op' = [op EXCEPT ![p] = o]
    BY <1>6 DEF exec, Goto
  <2>2. /\ o.pc = "uvmalloc" /\ o.t = New(p) /\ o.i = 0 /\ o.from = 0
        /\ o.end = load.image /\ o.pa = NoPage /\ o.v = NoPage /\ o.kid = NoPage
    BY DEF At, Idle
  <2>3. o \in OpSet
    <3>1. At("uvmalloc") \in OpSet /\ At("unmap") \in OpSet
      BY AtFields DEF PCs
    <3>2. 0 \in 0 .. NPages /\ load.image \in 0 .. NPages
      BY <1>3, PagesAssumption
    <3> QED
      BY <1>2, <3>1, <3>2 DEF OpSet
  <2> HIDE DEF o
  <2>4. /\ op'[p] = o /\ op' \in [Procs -> OpSet] /\ \A q \in Procs : q # p => op'[q] = op[q]
    BY <1>1, <2>1, <2>3, OpMove
  <2>5. TypeOK'
    BY <1>0, <1>1, <2>4 DEF TypeOK, OpSet
  <2>6. /\ op'[p].pc = "uvmalloc" /\ op'[p].t = New(p) /\ op'[p].i = 0 /\ op'[p].from = 0
        /\ op'[p].end = load.image /\ op'[p].kid = NoPage
    BY <2>2, <2>4
  <2>7. KidsOf(p)' /\ CopiesOf(p)'
    BY <1>0, <1>1, <1>2, <2>6 DEF KidsOf, CopiesOf, Dense, Mapped, Pages
  <2>8. Layout(p)'
    BY <1>0, <1>1, <1>2, <1>3, <2>6, PagesAssumption DEF Layout, Dense, Sized, Mapped, Faulting
  <2> QED
    BY <1>0, <1>1, <2>4, <2>5, <2>6, <2>7, <2>8, CalmStep DEF Calm
<1> QED
  BY <1>4, <1>5, <1>6

\* uvmalloc() gives up: the pages added so far will be unmapped.
LEMMA UvmallocUndo ==
  ASSUME IInv, NEW p \in Procs, op[p].pc \in {"uvmalloc", "map"},
         Unmap(p, op[p].t, op[p].from, op[p].i, NoPage), pt' = pt
  PROVE  /\ TypeOK /\ Kids /\ Alive(p) /\ op[p].kid = NoPage
         /\ op' \in [Procs -> OpSet] /\ \A q \in Procs : q # p => op'[q] = op[q]
         /\ op'[p].pc = "unmap" /\ op'[p].kid = NoPage
         /\ KidsOf(p)' /\ CopiesOf(p)' /\ Layout(p)'
<1> DEFINE o == [At("unmap") EXCEPT !.t = op[p].t, !.i = op[p].from, !.end = op[p].i, !.kid = NoPage]
<1>0. op' = [op EXCEPT ![p] = o]
  BY DEF Unmap, Goto
<1>1. /\ TypeOK /\ Kids /\ Alive(p) /\ Layout(p) /\ op[p].kid = NoPage
      /\ op[p].t \in Tables /\ op[p].i \in 0 .. NPages /\ op[p].from \in 0 .. NPages
  BY <1>0, Types DEF IInv, LayoutInv, Kids, Alive
<1>2. o.pc = "unmap" /\ o.t = op[p].t /\ o.i = op[p].from /\ o.end = op[p].i /\ o.kid = NoPage
  BY DEF At, Idle
<1>3. o \in OpSet
  <2>1. At("unmap") \in OpSet
    BY AtFields DEF PCs
  <2> QED
    BY <1>1, <2>1 DEF OpSet
<1> HIDE DEF o
<1>4. op'[p] = o /\ op' \in [Procs -> OpSet] /\ \A q \in Procs : q # p => op'[q] = op[q]
  BY <1>0, <1>1, <1>3, OpMove
<1>6. /\ Dense(op[p].t, op[p].i) /\ op[p].from <= op[p].i
      /\ op[p].t # Own(p) => Sized(Own(p)) /\ op[p].from = 0
      /\ op[p].t # New(p) => Dense(New(p), 0)
      /\ op[p].t \in {Own(p), New(p)}
  BY <1>0, <1>1 DEF Layout, Kids
<1>7. KidsOf(p)' /\ CopiesOf(p)'
  BY <1>2, <1>4, <1>6 DEF KidsOf, CopiesOf
<1>8. \E m \in 0 .. op[p].from : \A va \in Pages :
        pt[op[p].t][va] # NoPage <=>
          (va < m /\ op[p].t = Own(p)) \/ (op[p].from <= va /\ va < op[p].i)
  <2>1. op[p].from \in 0 .. op[p].from
    BY <1>1, PagesAssumption
  <2>2. \A va \in Pages : pt[op[p].t][va] # NoPage <=>
          (va < op[p].from /\ op[p].t = Own(p)) \/ (op[p].from <= va /\ va < op[p].i)
    BY <1>1, <1>6, PagesAssumption DEF Dense, Mapped, Pages
  <2> QED
    BY <2>1, <2>2
<1>9. Layout(p)'
  <2>1. o.t # Own(p) => Sized(Own(p))'
    BY <1>0, <1>2, <1>6 DEF Sized, Dense, Mapped
  <2>2. o.t # New(p) => Dense(New(p), 0)'
    BY <1>0, <1>2, <1>6 DEF Dense, Mapped
  <2> QED
    BY <1>0, <1>2, <1>4, <1>6, <1>8, <2>1, <2>2 DEF Layout, Faulting, Mapped
<1> QED
  BY <1>1, <1>2, <1>4, <1>7, <1>9

\* Out of memory in uvmalloc().
LEMMA UvmallocFailsIInv ==
  ASSUME IInv, NEW p \in Procs, UvmallocFails(p)
  PROVE  IInv'
<1>0. /\ op[p].pc = "uvmalloc" /\ Unmap(p, op[p].t, op[p].from, op[p].i, NoPage)
      /\ UNCHANGED <<load, pt, ref, free, content, panicked>>
  BY DEF UvmallocFails, Is
<1>1. /\ TypeOK /\ Kids /\ Alive(p) /\ op[p].kid = NoPage
      /\ op' \in [Procs -> OpSet] /\ \A q \in Procs : q # p => op'[q] = op[q]
      /\ op'[p].pc = "unmap" /\ op'[p].kid = NoPage
      /\ KidsOf(p)' /\ CopiesOf(p)' /\ Layout(p)'
  BY <1>0, UvmallocUndo
<1>2. TypeOK'
  BY <1>0, <1>1 DEF TypeOK, OpSet
<1> QED
  BY <1>0, <1>1, <1>2, CalmStep DEF Calm

-----------------------------------------------------------------------------
(* Page faults and copyout().                                              *)

\* One entry is written.
LEMMA PtWrite ==
  ASSUME TypeOK, NEW t \in Tables, NEW va \in Pages, NEW e \in PTEs \cup {NoPage},
         pt' = [pt EXCEPT ![t][va] = e]
  PROVE  /\ pt' \in [Tables -> [Pages -> PTEs \cup {NoPage}]]
         /\ \A s \in Tables : s # t => pt'[s] = pt[s]
         /\ \A wa \in Pages : pt'[t][wa] = IF wa = va THEN e ELSE pt[t][wa]
<1>1. pt \in [Tables -> [Pages -> PTEs \cup {NoPage}]] /\ pt[t] \in [Pages -> PTEs \cup {NoPage}]
  BY DEF TypeOK
<1>2. [pt[t] EXCEPT ![va] = e] \in [Pages -> PTEs \cup {NoPage}]
  BY <1>1
<1>3. pt' = [pt EXCEPT ![t] = [pt[t] EXCEPT ![va] = e]]
  OBVIOUS
<1>4. pt'[t] = [pt[t] EXCEPT ![va] = e] /\ \A s \in Tables : s # t => pt'[s] = pt[s]
  BY <1>1, <1>3
<1>5. pt' \in [Tables -> [Pages -> PTEs \cup {NoPage}]]
  BY <1>1, <1>2, <1>3
<1> QED
  BY <1>1, <1>4, <1>5

\* An entry whose reference was not dropped is counted, or the child's entry next
\* to a counted one of the parent, or about to be freed.
LEMMA NotDropped ==
  ASSUME IInv, NEW s \in Tables, NEW wa \in Pages, Mapped(s, wa), ~DroppedAt(s, wa),
         NEW g, g = pt[s][wa].pa
  PROVE  \/ Counts(s, wa, g)
         \/ \E q \in Procs : op[q].pc = "incref" /\ op[q].i \in Pages /\ Counts(Own(q), op[q].i, g)
         \/ \E q \in Procs : op[q].pc = "kfree" /\ Holds(q, g)
<1>1. TypeOK /\ Kids /\ LayoutInv
  BY DEF IInv
<1> SUFFICES ASSUME NEW q \in Procs, Limbo(q, s, wa)
             PROVE  \/ op[q].pc = "incref" /\ op[q].i \in Pages /\ Counts(Own(q), op[q].i, g)
                    \/ op[q].pc = "kfree" /\ Holds(q, g)
  BY DEF Counts
<1>2. CASE op[q].pc = "kfree"
  BY <1>2 DEF Holds, Limbo
<1>3. CASE op[q].pc = "incref"
  <2>1. s = Own(op[q].kid) /\ wa = op[q].i
    BY <1>3 DEF Limbo
  <2>2. Layout(q) /\ op[q].kid # NoPage
    BY <1>1, <1>3 DEF LayoutInv, Kids
  <2>3. pt[Own(op[q].kid)][wa] = pt[Own(q)][wa]
    BY <1>3, <2>1, <2>2 DEF Layout
  <2>4. Mapped(Own(q), wa) /\ pt[Own(q)][wa].pa = g
    BY <2>1, <2>3 DEF Mapped
  <2>5. ~Limbo(q, Own(q), wa)
    <3>1. op[q].kid # q
      BY <1>1, <1>3, <2>2 DEF Kids
    <3> QED
      BY <1>3, <3>1, Names DEF Limbo
  <2>6. \A r \in Procs : ~Limbo(r, Own(q), wa)
    BY <1>1, <1>3, <2>5, OwnLimbo, MineOp DEF Alive
  <2> QED
    BY <1>3, <2>1, <2>4, <2>6 DEF Counts
<1>4. CASE op[q].pc \in {"kfreeold", "set"}
  BY <1>4 DEF Limbo, DroppedAt
<1> QED
  BY <1>2, <1>3, <1>4 DEF Limbo

\* A frame that is free, or in a hand that is not about to free it, is in no
\* entry but those whose reference was dropped.
LEMMA UnreferencedDropped ==
  ASSUME IInv, NEW g \in Frames, ref[g] = 0, \A q \in Procs : op[q].pc = "kfree" => ~Holds(q, g),
         NEW s \in Tables, NEW wa \in Pages, Mapped(s, wa), pt[s][wa].pa = g
  PROVE  DroppedAt(s, wa)
<1>1. TypeOK /\ RefsInv
  BY DEF IInv
<1>2. \A t \in Tables, va \in Pages : ~Counts(t, va, g)
  BY <1>1, RefCounts
<1> QED
  BY <1>2, NotDropped, Names

\* A shared frame is copied.
LEMMA PageSharedIInv ==
  ASSUME IInv, NEW p \in Procs, NEW va \in Pages, NEW v \in Vals \cup {NoPage}, InUser(p),
         Mapped(Own(p), va), pt[Own(p)][va].cow, Shared(pt[Own(p)][va].pa), page_change(p, va, v),
         UNCHANGED <<load, ref, free, content, panicked>>
  PROVE  IInv'
<1> DEFINE o == [At("kalloc") EXCEPT !.i = va, !.v = v]
<1>0. op' = [op EXCEPT ![p] = o] /\ pt' = pt
  BY DEF page_change, Goto
<1>1. TypeOK /\ Kids /\ Alive(p) /\ op[p].pc = "user" /\ op[p].kid = NoPage /\ Sized(Own(p)) /\ Dense(New(p), 0)
  BY InUserFacts DEF IInv
<1>2. o.pc = "kalloc" /\ o.i = va /\ o.kid = NoPage
  BY DEF At, Idle
<1>3. o \in OpSet
  <2>1. At("kalloc") \in OpSet /\ va \in 0 .. NPages
    BY AtFields, PagesAssumption DEF PCs, Pages
  <2> QED
    BY <2>1 DEF OpSet
<1> HIDE DEF o
<1>4. op'[p] = o /\ op' \in [Procs -> OpSet] /\ \A q \in Procs : q # p => op'[q] = op[q]
  BY <1>0, <1>1, <1>3, OpMove
<1>5. TypeOK'
  BY <1>0, <1>1, <1>4 DEF TypeOK, OpSet
<1>6. KidsOf(p)' /\ CopiesOf(p)'
  BY <1>2, <1>4 DEF KidsOf, CopiesOf
<1>7. Layout(p)'
  BY <1>0, <1>1, <1>2, <1>4 DEF Layout, Sized, Dense, Mapped, Faulting
<1> QED
  BY <1>0, <1>1, <1>2, <1>4, <1>5, <1>6, <1>7, CalmStep DEF Calm

\* page_change() returns to the program, or to copyout().
Resumed(v, va) == [Resume(v) EXCEPT !.i = IF v = NoPage THEN 0 ELSE va]

\* Where it returns to.
LEMMA ResumeFields ==
  ASSUME NEW v \in Vals \cup {NoPage}, NEW va \in Pages
  PROVE  /\ Resumed(v, va) \in OpSet
         /\ Resumed(v, va).pc = IF v = NoPage THEN "user" ELSE "write"
         /\ v # NoPage => Resumed(v, va).i = va /\ Resumed(v, va).v = v
         /\ Resumed(v, va).kid = NoPage
<1>1. /\ Resumed(v, va).pc = IF v = NoPage THEN "user" ELSE "write"
      /\ v # NoPage => Resumed(v, va).i = va /\ Resumed(v, va).v = v
      /\ Resumed(v, va).kid = NoPage
  BY DEF Resume, At, Idle, Resumed
<1>2. At("write") \in OpSet /\ At("user") \in OpSet /\ va \in 0 .. NPages /\ 0 \in 0 .. NPages
  BY AtFields, PagesAssumption DEF PCs, Pages
<1>3. Resume(v) \in OpSet
  BY <1>2, AtFields DEF Resume, OpSet
<1>4. Resumed(v, va) \in OpSet
  BY <1>2, <1>3 DEF OpSet, Resumed
<1> QED
  BY <1>1, <1>4

\* The last sharer of a frame takes it over.
LEMMA PageAloneIInv ==
  ASSUME IInv, NEW p \in Procs, NEW va \in Pages, NEW v \in Vals \cup {NoPage}, InUser(p),
         Mapped(Own(p), va), pt[Own(p)][va].cow, ~Shared(pt[Own(p)][va].pa), page_change(p, va, v),
         UNCHANGED <<load, ref, free, content, panicked>>
  PROVE  IInv'
<1> DEFINE e == Writable(pt[Own(p)][va], pt[Own(p)][va].pa)
           g == pt[Own(p)][va].pa
           o == Resumed(v, va)
<1>0. op' = [op EXCEPT ![p] = o] /\ pt' = [pt EXCEPT ![Own(p)][va] = e]
  BY DEF page_change, Goto, Resumed
<1>1. /\ TypeOK /\ Kids /\ Alive(p) /\ op[p].pc = "user" /\ op[p].kid = NoPage /\ Sized(Own(p)) /\ Dense(New(p), 0)
      /\ RefsInv /\ HandsInv /\ Exclusive /\ LayoutInv /\ load \in Loads
  BY InUserFacts DEF IInv
<1>2. /\ o.pc = IF v = NoPage THEN "user" ELSE "write"
      /\ v # NoPage => o.i = va /\ o.v = v
      /\ o.kid = NoPage
  BY ResumeFields
<1>3. o \in OpSet
  BY ResumeFields
<1> HIDE DEF o
<1>4. op'[p] = o /\ op' \in [Procs -> OpSet] /\ \A q \in Procs : q # p => op'[q] = op[q]
  BY <1>0, <1>1, <1>3, OpMove
<1>5. e \in PTEs /\ e.pa = g /\ e.w /\ ~e.cow /\ g \in Frames /\ e # NoPage
  <2>1. pt[Own(p)][va] \in PTEs /\ g \in Frames
    BY <1>1, Types, Names
  <2>2. e \in PTEs /\ e.pa = g /\ e.w /\ ~e.cow
    BY <2>1 DEF Writable, PTEs
  <2>3. e # NoPage
    BY <2>2, ContentsAssumption DEF PTEs
  <2> QED
    BY <2>1, <2>2, <2>3
<1> HIDE DEF e
<1>6. /\ pt' \in [Tables -> [Pages -> PTEs \cup {NoPage}]]
      /\ \A s \in Tables : s # Own(p) => pt'[s] = pt[s]
      /\ \A wa \in Pages : pt'[Own(p)][wa] = IF wa = va THEN e ELSE pt[Own(p)][wa]
  BY <1>0, <1>1, <1>5, PtWrite, Names
<1>7. TypeOK'
  BY <1>1, <1>4, <1>6 DEF TypeOK, OpSet
<1>8. \A s \in Tables, wa \in Pages :
        /\ Mapped(s, wa)' <=> Mapped(s, wa)
        /\ Mapped(s, wa) => pt'[s][wa].pa = pt[s][wa].pa
        /\ ~(s = Own(p) /\ wa = va) => pt'[s][wa] = pt[s][wa]
  BY <1>5, <1>6 DEF Mapped
<1>9. \A t \in Tables : t \notin Mine(p) => pt'[t] = pt[t]
  BY <1>1, <1>6, MineOp
<1>10. KidsOf(p)' /\ CopiesOf(p)'
  BY <1>2, <1>4 DEF KidsOf, CopiesOf
<1>11. Layout(p)'
  <2>1. Sized(Own(p))' /\ Dense(New(p), 0)'
    BY <1>1, <1>8, Names DEF Sized, Dense
  <2>2. /\ op'[p].pc \in {"user", "write"}
        /\ op'[p].pc = "write" => /\ op'[p].i = va /\ op'[p].v # NoPage
                                 /\ pt'[Own(p)][va].w /\ Mapped(Own(p), va)'
    BY <1>2, <1>4, <1>5, <1>6, <1>8, Names
  <2> QED
    BY <2>1, <2>2 DEF Layout, Faulting
<1>12. Kids' /\ LayoutInv' /\ Copies'
  BY <1>1, <1>2, <1>4, <1>9, <1>10, <1>11, StepKept
<1>13. \A q \in Procs : \A t, wa : Limbo(q, t, wa)' <=> Limbo(q, t, wa)
  BY <1>1, <1>2, <1>4 DEF Limbo
<1>14. RefsInv'
  <2>1. \A t \in Tables, wa \in Pages, f \in Frames : Counts(t, wa, f)' <=> Counts(t, wa, f)
    BY <1>8, <1>13 DEF Counts
  <2> QED
    BY <1>1, <2>1, CountsSame
<1>15. HandsInv'
  <2>1. \A q \in Procs : \A f : Holds(q, f)' <=> Holds(q, f)
    <3>1. \A f : ~Holds(p, f) /\ ~Holds(p, f)'
      BY <1>1, <1>2, <1>4 DEF Holds
    <3>2. \A q \in Procs : q # p => \A f : Holds(q, f)' <=> Holds(q, f)
      BY <1>1, <1>4, <1>9, OthersKept
    <3> QED
      BY <3>1, <3>2
  <2>2. \A q \in Procs : op'[q].pc \in {"copy", "dec", "kfreeold", "set", "map"} => op'[q].pa # NoPage
    BY <1>1, <1>2, <1>4 DEF HandsInv
  <2>3. \A q \in Procs : op'[q].pc = "kfreeold" => op'[q].pa # OldFrame(q)'
    <3>1. \A q \in Procs : q # p /\ op[q].pc = "kfreeold" => OldFrame(q)' = OldFrame(q)
      BY <1>1, <1>4, <1>9, OthersKept
    <3> QED
      BY <1>1, <1>2, <1>4, <3>1 DEF HandsInv
  <2> QED
    BY <1>1, <2>1, <2>2, <2>3 DEF HandsInv
<1>16. Exclusive'
  <2>1. \A s, wa : DroppedAt(s, wa)' <=> DroppedAt(s, wa)
    BY <1>1, <1>2, <1>4 DEF DroppedAt
  <2>2. Counts(Own(p), va, g)
    <3>1. \A q \in Procs : ~Limbo(q, Own(p), va)
      BY <1>1, OwnLimbo, MineOp DEF Limbo
    <3> QED
      BY <3>1 DEF Counts
  <2>3. ref[g] # 0 /\ \A s \in Tables, wa \in Pages : Counts(s, wa, g) => s = Own(p) /\ wa = va
    <3>1. ref[g] <= 1
      BY <1>1, <1>5, Types DEF Shared
    <3> QED
      BY <1>1, <1>5, <2>2, <3>1, RefCounts, Names
  <2>4. ASSUME NEW s \in Tables, NEW wa \in Pages, Mapped(s, wa), pt[s][wa].pa = g, ~DroppedAt(s, wa)
        PROVE  s = Own(p) /\ wa = va
    <3>1. \A q \in Procs : ~Holds(q, g)
      BY <1>1, <1>5, <2>3 DEF HandsInv
    <3>2. \A q \in Procs : op[q].pc = "incref" /\ op[q].i \in Pages => ~Counts(Own(q), op[q].i, g)
      BY <1>1, <2>3, Names
    <3>3. Counts(s, wa, g)
      BY <2>4, <3>1, <3>2, NotDropped
    <3> QED
      BY <2>3, <3>3
  <2> SUFFICES ASSUME NEW s \in Tables, NEW t \in Tables, NEW xa \in Pages, NEW wa \in Pages,
                      Mapped(t, xa)', ~pt'[t][xa].cow,
                      Mapped(s, wa)', pt'[s][wa].pa = pt'[t][xa].pa, ~DroppedAt(s, wa)'
               PROVE  s = t /\ wa = xa
    BY DEF Exclusive
  <2>5. Mapped(t, xa) /\ Mapped(s, wa) /\ pt[s][wa].pa = pt[t][xa].pa /\ ~DroppedAt(s, wa)
    BY <1>8, <2>1
  <2>6. CASE t = Own(p) /\ xa = va
    BY <2>4, <2>5, <2>6
  <2>7. CASE ~(t = Own(p) /\ xa = va)
    <3>1. ~pt[t][xa].cow
      BY <1>8, <2>7
    <3> QED
      BY <1>1, <2>5, <3>1 DEF Exclusive
  <2> QED
    BY <2>6, <2>7
<1> QED
  BY <1>1, <1>7, <1>12, <1>14, <1>15, <1>16 DEF IInv

\* kalloc() of page_change().
LEMMA PageKallocIInv ==
  ASSUME IInv, NEW p \in Procs, PageKalloc(p)
  PROVE  IInv'
<1>0. op[p].pc = "kalloc" /\ UNCHANGED <<load, pt, ref, panicked>>
  BY DEF PageKalloc, Is
<1>1. PICK g \in free : /\ free' = free \ {g}
                        /\ content' = [content EXCEPT ![g] = Junk]
                        /\ op' = [op EXCEPT ![p] = [op[p] EXCEPT !.pc = "copy", !.pa = g]]
  BY DEF PageKalloc, kalloc, Goto
<1>2. /\ TypeOK /\ Kids /\ Alive(p) /\ op[p].kid = NoPage /\ Layout(p)
      /\ RefsInv /\ HandsInv /\ Exclusive /\ LayoutInv /\ load \in Loads
      /\ g \in Frames
  BY <1>0 DEF IInv, LayoutInv, Kids, Alive, TypeOK
<1> DEFINE o == [op[p] EXCEPT !.pc = "copy", !.pa = g]
<1>3. o.pc = "copy" /\ o.pa = g /\ o.i = op[p].i /\ o.kid = NoPage
  <2>1. op[p] \in OpSet
    BY <1>2 DEF TypeOK, OpSet
  <2> QED
    BY <1>2, <2>1 DEF OpSet
<1>4. o \in OpSet
  <2>1. op[p] \in OpSet /\ "copy" \in PCs
    BY <1>2 DEF TypeOK, OpSet, PCs
  <2> QED
    BY <1>2, <2>1 DEF OpSet
<1>5. op'[p] = o /\ op' \in [Procs -> OpSet] /\ \A q \in Procs : q # p => op'[q] = op[q]
  BY <1>1, <1>2, <1>4, OpMove
<1> HIDE DEF o
<1>6. TypeOK'
  BY <1>0, <1>1, <1>2, <1>5 DEF TypeOK, OpSet
<1>7. KidsOf(p)' /\ CopiesOf(p)'
  BY <1>3, <1>5 DEF KidsOf, CopiesOf
<1>8. Layout(p)'
  BY <1>0, <1>2, <1>3, <1>5 DEF Layout, Sized, Dense, Mapped, Faulting
<1>9. \A f \in Frames : content'[f] = content[f] \/ Overwritten(p, f)
  BY <1>1, <1>2 DEF TypeOK, Overwritten
<1>10. Kids' /\ LayoutInv' /\ Copies'
  BY <1>0, <1>2, <1>3, <1>5, <1>7, <1>8, <1>9, StepKept
<1>11. \A q \in Procs : \A t, wa : Limbo(q, t, wa)' <=> Limbo(q, t, wa)
  BY <1>0, <1>3, <1>5 DEF Limbo
<1>12. RefsInv'
  <2>1. \A t \in Tables, wa \in Pages, f \in Frames : Counts(t, wa, f)' <=> Counts(t, wa, f)
    BY <1>0, <1>11 DEF Counts, Mapped
  <2> QED
    BY <1>0, <1>2, <2>1, CountsSame
<1>13. \A q \in Procs : \A f : Holds(q, f)' <=> Holds(q, f) \/ (q = p /\ f = g)
  <2>1. \A f : ~Holds(p, f) /\ (Holds(p, f)' <=> f = g)
    BY <1>0, <1>3, <1>5 DEF Holds
  <2>2. \A q \in Procs : q # p => \A f : Holds(q, f)' <=> Holds(q, f)
    BY <1>0, <1>2, <1>5, OthersKept
  <2> QED
    BY <2>1, <2>2
<1>14. HandsInv'
  <2>1. \A q \in Procs : op'[q].pc \in {"copy", "dec", "kfreeold", "set", "map"} => op'[q].pa # NoPage
    BY <1>2, <1>3, <1>5, ContentsAssumption DEF HandsInv
  <2>2. \A q \in Procs : op'[q].pc = "kfreeold" => op'[q].pa # OldFrame(q)'
    BY <1>0, <1>2, <1>3, <1>5 DEF HandsInv, OldFrame
  <2>3. \A q \in Procs : ~Holds(q, g)
    BY <1>2 DEF HandsInv
  <2> QED
    BY <1>0, <1>1, <1>2, <1>13, <2>1, <2>2, <2>3 DEF HandsInv
<1>15. Exclusive'
  <2>1. \A s, wa : DroppedAt(s, wa)' <=> DroppedAt(s, wa)
    BY <1>0, <1>3, <1>5 DEF DroppedAt
  <2> QED
    BY <1>0, <1>2, <2>1 DEF Exclusive, Mapped
<1> QED
  BY <1>0, <1>2, <1>6, <1>10, <1>12, <1>14, <1>15 DEF IInv

\* Only p acts: each frame stays where it is, or p takes it from the free list or
\* from the referenced ones, or brings it there.
LEMMA HandsMove ==
  ASSUME IInv, NEW p \in Procs, Alive(p), \A q \in Procs : q # p => op'[q] = op[q],
         \A t \in Tables : t \notin Mine(p) => pt'[t] = pt[t],
         op'[p].pc \in {"copy", "dec", "kfreeold", "set", "map"} => op'[p].pa # NoPage,
         op'[p].pc = "kfreeold" => op'[p].pa # OldFrame(p)',
         \A f \in Frames :
           \/ /\ f \in free' <=> f \in free
              /\ ref'[f] = 0 <=> ref[f] = 0
              /\ Holds(p, f)' <=> Holds(p, f)
           \/ f \in free /\ f \notin free' /\ ref'[f] = 0 /\ Holds(p, f)'
           \/ ref[f] # 0 /\ f \notin free' /\ ref'[f] = 0 /\ Holds(p, f)'
           \/ Holds(p, f) /\ ~Holds(p, f)' /\ f \in free' /\ ref'[f] = 0
           \/ Holds(p, f) /\ ~Holds(p, f)' /\ f \notin free' /\ ref'[f] # 0
  PROVE  HandsInv'
<1>1. TypeOK /\ Kids /\ LayoutInv /\ HandsInv
  BY DEF IInv
<1>2. \A q \in Procs : q # p => \A f : Holds(q, f)' <=> Holds(q, f)
  BY <1>1, OthersKept
<1>3. \A q \in Procs : q # p /\ op[q].pc = "kfreeold" => OldFrame(q)' = OldFrame(q)
  BY <1>1, OthersKept
<1>4. \A q \in Procs :
        /\ op'[q].pc \in {"copy", "dec", "kfreeold", "set", "map"} => op'[q].pa # NoPage
        /\ op'[q].pc = "kfreeold" => op'[q].pa # OldFrame(q)'
  BY <1>1, <1>3 DEF HandsInv
<1>5. ASSUME NEW f \in Frames
      PROVE  /\ f \in free' => ref'[f] = 0
             /\ f \notin free' /\ ref'[f] = 0 => \E q \in Procs : Holds(q, f)'
             /\ \A q \in Procs : Holds(q, f)' => f \notin free' /\ ref'[f] = 0
             /\ \A q, r \in Procs : Holds(q, f)' /\ Holds(r, f)' => q = r
  <2>1. /\ f \in free => ref[f] = 0
        /\ f \notin free /\ ref[f] = 0 => \E q \in Procs : Holds(q, f)
        /\ \A q \in Procs : Holds(q, f) => f \notin free /\ ref[f] = 0
        /\ \A q, r \in Procs : Holds(q, f) /\ Holds(r, f) => q = r
    BY <1>1 DEF HandsInv
  <2> QED
    BY <1>2, <2>1
<1> QED
  BY <1>4, <1>5 DEF HandsInv

\* No table changes and no reference that was dropped comes back.
LEMMA ExclusiveSame ==
  ASSUME Exclusive, pt' = pt, \A t, va : DroppedAt(t, va) => DroppedAt(t, va)'
  PROVE  Exclusive'
BY DEF Exclusive, Mapped

\* decrement_ref() and increment_ref().
LEMMA RefLess ==
  ASSUME TypeOK, NEW g \in Frames, ref[g] # 0, ref' = [ref EXCEPT ![g] = @ - 1]
  PROVE  /\ ref' \in [Frames -> Nat] /\ ref'[g] = ref[g] - 1 /\ (ref'[g] = 0 <=> ref[g] = 1)
         /\ \A f \in Frames : f # g => ref'[f] = ref[f]
<1>1. ref \in [Frames -> Nat] /\ ref[g] \in Nat
  BY DEF TypeOK
<1>2. ref[g] - 1 \in Nat /\ (ref[g] - 1 = 0 <=> ref[g] = 1)
  BY <1>1
<1> QED
  BY <1>1, <1>2

LEMMA RefMore ==
  ASSUME TypeOK, NEW g \in Frames, ref' = [ref EXCEPT ![g] = @ + 1]
  PROVE  /\ ref' \in [Frames -> Nat] /\ ref'[g] = ref[g] + 1 /\ ref'[g] # 0
         /\ \A f \in Frames : f # g => ref'[f] = ref[f]
<1>1. ref \in [Frames -> Nat] /\ ref[g] \in Nat
  BY DEF TypeOK
<1>2. ref[g] + 1 \in Nat /\ ref[g] + 1 # 0
  BY <1>1
<1> QED
  BY <1>1, <1>2

\* p goes on in the kernel.
LEMMA OpStep ==
  ASSUME TypeOK, NEW p \in Procs, NEW c \in PCs, op' = [op EXCEPT ![p] = [op[p] EXCEPT !.pc = c]]
  PROVE  /\ op'[p].pc = c /\ op'[p].t = op[p].t /\ op'[p].i = op[p].i /\ op'[p].from = op[p].from
         /\ op'[p].end = op[p].end /\ op'[p].pa = op[p].pa /\ op'[p].v = op[p].v /\ op'[p].kid = op[p].kid
         /\ \A q \in Procs : q # p => op'[q] = op[q]
         /\ op' \in [Procs -> OpSet]
<1>1. op[p] \in OpSet
  BY DEF TypeOK, OpSet
<1>2. [op[p] EXCEPT !.pc = c] \in OpSet
  BY <1>1 DEF OpSet
<1>3. op'[p] = [op[p] EXCEPT !.pc = c] /\ \A q \in Procs : q # p => op'[q] = op[q]
  BY OpMove
<1>4. op' \in [Procs -> OpSet]
  BY <1>2, OpMove
<1> QED
  BY <1>1, <1>3, <1>4 DEF OpSet

\* Out of memory in page_change().
LEMMA PageKallocFailsIInv ==
  ASSUME IInv, NEW p \in Procs, PageKallocFails(p)
  PROVE  IInv'
<1>0. op[p].pc = "kalloc" /\ UNCHANGED <<load, pt, ref, free, content>>
  BY DEF PageKallocFails, Is
<1>1. CASE op[p].v = NoPage
  BY <1>0, <1>1, DieIInv DEF PageKallocFails
<1>2. CASE op[p].v # NoPage
  <2>1. op' = [op EXCEPT ![p] = Idle] /\ panicked' = panicked
    BY <1>2 DEF PageKallocFails, Goto
  <2>2. TypeOK /\ Kids /\ Alive(p) /\ Layout(p) /\ op[p].kid = NoPage
    BY <1>0 DEF IInv, LayoutInv, Kids, Alive
  <2>3. /\ op'[p].pc = "user" /\ op'[p].kid = NoPage
        /\ \A q \in Procs : q # p => op'[q] = op[q]
        /\ op' \in [Procs -> OpSet]
    BY <2>1, <2>2, OpMove, AtFields, ZenonT(60) DEF PCs
  <2>4. TypeOK'
    BY <1>0, <2>1, <2>2, <2>3 DEF TypeOK, OpSet
  <2>5. KidsOf(p)' /\ Layout(p)' /\ CopiesOf(p)'
    BY <1>0, <2>2, <2>3 DEF KidsOf, Layout, CopiesOf, Dense, Sized, Mapped, Faulting
  <2> QED
    BY <1>0, <2>2, <2>3, <2>4, <2>5, CalmStep DEF Calm
<1> QED
  BY <1>1, <1>2

\* What is known while page_change() copies.
LEMMA FaultFacts ==
  ASSUME IInv, NEW p \in Procs, op[p].pc \in {"copy", "dec", "kfreeold", "set"}
  PROVE  /\ TypeOK /\ Kids /\ Alive(p) /\ Layout(p) /\ op[p].kid = NoPage /\ LayoutInv
         /\ RefsInv /\ HandsInv /\ Exclusive /\ load \in Loads
         /\ op[p].i \in Pages /\ Mapped(Own(p), op[p].i) /\ pt[Own(p)][op[p].i].cow
         /\ Own(p) \in Tables /\ Own(p) \in Mine(p)
         /\ OldFrame(p) \in Frames /\ op[p].pa \in Frames /\ Holds(p, op[p].pa)
         /\ op[p].pc \in {"copy", "dec"} =>
              Counts(Own(p), op[p].i, OldFrame(p)) /\ ref[OldFrame(p)] # 0 /\ op[p].pa # OldFrame(p)
<1>1. /\ TypeOK /\ Kids /\ Alive(p) /\ Layout(p) /\ op[p].kid = NoPage /\ LayoutInv
      /\ RefsInv /\ HandsInv /\ Exclusive /\ load \in Loads
  BY DEF IInv, LayoutInv, Kids, Alive
<1>2. /\ op[p].i \in Pages /\ Mapped(Own(p), op[p].i) /\ pt[Own(p)][op[p].i].cow
      /\ Own(p) \in Tables /\ Own(p) \in Mine(p)
  BY <1>1, Names, MineOp DEF Layout, Faulting
<1>3. OldFrame(p) \in Frames /\ op[p].pa \in Frames /\ Holds(p, op[p].pa)
  BY <1>1, <1>2, Types DEF OldFrame, HandsInv, Holds
<1>4. ASSUME op[p].pc \in {"copy", "dec"}
      PROVE  Counts(Own(p), op[p].i, OldFrame(p)) /\ ref[OldFrame(p)] # 0 /\ op[p].pa # OldFrame(p)
  <2>1. \A q \in Procs : ~Limbo(q, Own(p), op[p].i)
    <3>1. ~Limbo(p, Own(p), op[p].i)
      BY <1>4 DEF Limbo
    <3> QED
      BY <1>1, <1>2, <3>1, OwnLimbo
  <2>2. Counts(Own(p), op[p].i, OldFrame(p))
    BY <1>2, <2>1 DEF Counts, OldFrame
  <2>3. ref[OldFrame(p)] # 0
    BY <1>1, <1>2, <1>3, <2>2, RefCounts
  <2> QED
    BY <1>1, <1>3, <2>2, <2>3 DEF HandsInv
<1> QED
  BY <1>1, <1>2, <1>3, <1>4

\* The copy.
LEMMA PageCopyIInv ==
  ASSUME IInv, NEW p \in Procs, PageCopy(p)
  PROVE  IInv'
<1>0. /\ op[p].pc = "copy" /\ UNCHANGED <<load, pt, ref, free, panicked>>
      /\ content' = [content EXCEPT ![op[p].pa] = content[OldFrame(p)]]
      /\ op' = [op EXCEPT ![p] = [op[p] EXCEPT !.pc = "dec"]]
  BY DEF PageCopy, Is, Goto
<1>1. /\ TypeOK /\ Kids /\ Alive(p) /\ Layout(p) /\ op[p].kid = NoPage /\ LayoutInv
      /\ RefsInv /\ HandsInv /\ Exclusive /\ load \in Loads
      /\ OldFrame(p) \in Frames /\ op[p].pa \in Frames /\ Holds(p, op[p].pa) /\ op[p].pa # OldFrame(p)
  BY <1>0, FaultFacts
<1>2. /\ op'[p].pc = "dec" /\ op'[p].i = op[p].i /\ op'[p].pa = op[p].pa /\ op'[p].kid = op[p].kid
      /\ \A q \in Procs : q # p => op'[q] = op[q]
      /\ op' \in [Procs -> OpSet]
  BY <1>0, <1>1, OpStep DEF PCs
<1>3. TypeOK'
  BY <1>0, <1>1, <1>2 DEF TypeOK, OpSet
<1>4. OldFrame(p)' = OldFrame(p)
  BY <1>0, <1>2 DEF OldFrame
<1>5. content'[op[p].pa] = content[OldFrame(p)] /\ \A f \in Frames : f # op[p].pa => content'[f] = content[f]
  BY <1>0, <1>1 DEF TypeOK
<1>6. KidsOf(p)' /\ CopiesOf(p)'
  BY <1>1, <1>2, <1>4, <1>5 DEF KidsOf, CopiesOf
<1>7. Layout(p)'
  BY <1>0, <1>1, <1>2 DEF Layout, Sized, Dense, Mapped, Faulting
<1>8. \A f \in Frames : content'[f] = content[f] \/ Overwritten(p, f)
  BY <1>1, <1>5 DEF Overwritten
<1>9. Kids' /\ LayoutInv' /\ Copies'
  BY <1>0, <1>1, <1>2, <1>6, <1>7, <1>8, StepKept
<1>10. RefsInv'
  <2>1. \A q \in Procs : \A t, wa : Limbo(q, t, wa)' <=> Limbo(q, t, wa)
    BY <1>0, <1>2 DEF Limbo
  <2>2. \A t \in Tables, wa \in Pages, f \in Frames : Counts(t, wa, f)' <=> Counts(t, wa, f)
    BY <1>0, <2>1 DEF Counts, Mapped
  <2> QED
    BY <1>0, <1>1, <2>2, CountsSame
<1>11. HandsInv'
  <2>1. \A f : Holds(p, f)' <=> Holds(p, f)
    BY <1>0, <1>2 DEF Holds
  <2>2. op'[p].pa # NoPage
    BY <1>1, <1>2, ContentsAssumption
  <2> QED
    BY <1>0, <1>1, <1>2, <2>1, <2>2, HandsMove
<1>12. Exclusive'
  <2>1. \A t, va : DroppedAt(t, va) => DroppedAt(t, va)'
    BY <1>0, <1>2 DEF DroppedAt
  <2> QED
    BY <1>0, <1>1, <2>1, ExclusiveSame
<1> QED
  BY <1>0, <1>1, <1>3, <1>9, <1>10, <1>11, <1>12 DEF IInv

\* decrement_ref() of the old frame; its last sharer will free it.
LEMMA PageDecrementIInv ==
  ASSUME IInv, NEW p \in Procs, PageDecrement(p)
  PROVE  IInv'
<1> DEFINE g == OldFrame(p)
           c == IF LastRef(g) THEN "kfreeold" ELSE "set"
<1>0. /\ op[p].pc = "dec" /\ UNCHANGED <<load, pt, free, content, panicked>>
      /\ ref' = [ref EXCEPT ![g] = @ - 1]
      /\ op' = [op EXCEPT ![p] = [op[p] EXCEPT !.pc = c]]
  BY DEF PageDecrement, Is, Goto
<1>1. /\ TypeOK /\ Kids /\ Alive(p) /\ Layout(p) /\ op[p].kid = NoPage /\ LayoutInv
      /\ RefsInv /\ HandsInv /\ Exclusive /\ load \in Loads
      /\ op[p].i \in Pages /\ Own(p) \in Tables
      /\ g \in Frames /\ op[p].pa \in Frames /\ Holds(p, op[p].pa) /\ op[p].pa # g
      /\ Counts(Own(p), op[p].i, g) /\ ref[g] # 0
  <2>1. op[p].pc = "dec"
    BY <1>0
  <2> QED
    BY <2>1, FaultFacts
<1>2. /\ op'[p].pc = c /\ op'[p].i = op[p].i /\ op'[p].pa = op[p].pa /\ op'[p].kid = op[p].kid
      /\ \A q \in Procs : q # p => op'[q] = op[q]
      /\ op' \in [Procs -> OpSet]
  <2>1. c \in PCs
    BY DEF PCs
  <2> HIDE DEF c
  <2> QED
    BY <1>0, <1>1, <2>1, OpStep
<1>3. /\ ref' \in [Frames -> Nat] /\ \A f \in Frames : f # g => ref'[f] = ref[f]
      /\ ref'[g] = ref[g] - 1
  <2> HIDE DEF g, c
  <2> QED
    BY <1>0, <1>1, RefLess
<1>4. TypeOK'
  BY <1>0, <1>1, <1>2, <1>3 DEF TypeOK, OpSet
<1>5. OldFrame(p)' = g
  BY <1>0, <1>2 DEF OldFrame
<1>6. c \in {"kfreeold", "set"} /\ (c = "kfreeold" <=> ref'[g] = 0)
  <2>1. ref[g] \in Nat
    BY <1>1 DEF TypeOK
  <2>2. ref'[g] = 0 <=> ref[g] = 1
    BY <1>3, <2>1
  <2> QED
    BY <2>2 DEF LastRef
<1> HIDE DEF g, c
<1>7. KidsOf(p)' /\ CopiesOf(p)'
  BY <1>1, <1>2, <1>6 DEF KidsOf, CopiesOf
<1>8. Layout(p)'
  BY <1>0, <1>1, <1>2, <1>6 DEF Layout, Sized, Dense, Mapped, Faulting
<1>9. Kids' /\ LayoutInv' /\ Copies'
  BY <1>0, <1>1, <1>2, <1>7, <1>8, StepKept
<1>10. RefsInv'
  <2>1. \A q \in Procs : \A t, wa :
          Limbo(q, t, wa)' <=> Limbo(q, t, wa) \/ (q = p /\ t = Own(p) /\ wa = op[p].i)
    BY <1>0, <1>2, <1>6 DEF Limbo
  <2>2. \A t \in Tables, wa \in Pages, f \in Frames :
          Counts(t, wa, f)' <=> Counts(t, wa, f) /\ ~(t = Own(p) /\ wa = op[p].i)
    BY <1>0, <2>1 DEF Counts, Mapped
  <2> QED
    BY <1>1, <1>3, <2>2, CountsLess
<1>11. HandsInv'
  <2>1. \A f : Holds(p, f) <=> f = op[p].pa
    BY <1>0 DEF Holds
  <2>2. \A f : Holds(p, f)' <=> f = op[p].pa \/ (f = g /\ ref'[g] = 0)
    BY <1>2, <1>5, <1>6 DEF Holds
  <2>3. op'[p].pa # NoPage /\ op'[p].pa # OldFrame(p)'
    BY <1>1, <1>2, <1>5, ContentsAssumption
  <2>4. \A f \in Frames :
          \/ /\ f \in free' <=> f \in free
             /\ ref'[f] = 0 <=> ref[f] = 0
             /\ Holds(p, f)' <=> Holds(p, f)
          \/ ref[f] # 0 /\ f \notin free' /\ ref'[f] = 0 /\ Holds(p, f)'
    <3>1. g \notin free
      BY <1>1 DEF HandsInv
    <3> QED
      BY <1>0, <1>1, <1>3, <2>1, <2>2, <3>1
  <2> QED
    BY <1>0, <1>1, <1>2, <2>3, <2>4, HandsMove
<1>12. Exclusive'
  <2>1. \A t, va : DroppedAt(t, va) => DroppedAt(t, va)'
    BY <1>0, <1>2 DEF DroppedAt
  <2> QED
    BY <1>0, <1>1, <2>1, ExclusiveSame
<1> QED
  BY <1>0, <1>1, <1>4, <1>9, <1>10, <1>11, <1>12 DEF IInv

\* kfree() of the old frame, by its last sharer.
LEMMA PageKfreeIInv ==
  ASSUME IInv, NEW p \in Procs, PageKfree(p)
  PROVE  IInv'
<1> DEFINE g == OldFrame(p)
<1>0. /\ op[p].pc = "kfreeold" /\ UNCHANGED <<load, pt, ref, panicked>>
      /\ free' = free \cup {g} /\ content' = [content EXCEPT ![g] = Junk]
      /\ op' = [op EXCEPT ![p] = [op[p] EXCEPT !.pc = "set"]]
  BY DEF PageKfree, Is, Goto, kfree
<1>1. /\ TypeOK /\ Kids /\ Alive(p) /\ Layout(p) /\ op[p].kid = NoPage /\ LayoutInv
      /\ RefsInv /\ HandsInv /\ Exclusive /\ load \in Loads
      /\ g \in Frames /\ op[p].pa \in Frames
  BY <1>0, FaultFacts
<1>2. /\ op'[p].pc = "set" /\ op'[p].i = op[p].i /\ op'[p].pa = op[p].pa /\ op'[p].kid = op[p].kid
      /\ \A q \in Procs : q # p => op'[q] = op[q]
      /\ op' \in [Procs -> OpSet]
  BY <1>0, <1>1, OpStep DEF PCs
<1>3. Holds(p, g) /\ op[p].pa # g /\ ref[g] = 0
  BY <1>0, <1>1 DEF HandsInv, Holds
<1> HIDE DEF g
<1>4. TypeOK'
  BY <1>0, <1>1, <1>2 DEF TypeOK, OpSet
<1>5. KidsOf(p)' /\ CopiesOf(p)'
  BY <1>1, <1>2 DEF KidsOf, CopiesOf
<1>6. Layout(p)'
  BY <1>0, <1>1, <1>2 DEF Layout, Sized, Dense, Mapped, Faulting
<1>7. \A f \in Frames : content'[f] = content[f] \/ Overwritten(p, f)
  BY <1>0, <1>1, <1>3 DEF TypeOK, Overwritten
<1>8. Kids' /\ LayoutInv' /\ Copies'
  BY <1>0, <1>1, <1>2, <1>5, <1>6, <1>7, StepKept
<1>9. RefsInv'
  <2>1. \A q \in Procs : \A t, wa : Limbo(q, t, wa)' <=> Limbo(q, t, wa)
    BY <1>0, <1>2 DEF Limbo
  <2>2. \A t \in Tables, wa \in Pages, f \in Frames : Counts(t, wa, f)' <=> Counts(t, wa, f)
    BY <1>0, <2>1 DEF Counts, Mapped
  <2> QED
    BY <1>0, <1>1, <2>2, CountsSame
<1>10. HandsInv'
  <2>1. \A f : /\ Holds(p, f) <=> f = op[p].pa \/ f = g
               /\ Holds(p, f)' <=> f = op[p].pa
    BY <1>0, <1>2 DEF Holds, g
  <2>2. op'[p].pa # NoPage
    BY <1>1, <1>2, ContentsAssumption
  <2>3. \A f \in Frames :
          \/ /\ f \in free' <=> f \in free
             /\ ref'[f] = 0 <=> ref[f] = 0
             /\ Holds(p, f)' <=> Holds(p, f)
          \/ Holds(p, f) /\ ~Holds(p, f)' /\ f \in free' /\ ref'[f] = 0
    BY <1>0, <1>3, <2>1
  <2> QED
    BY <1>0, <1>1, <1>2, <2>2, <2>3, HandsMove
<1>11. Exclusive'
  <2>1. \A t, va : DroppedAt(t, va) => DroppedAt(t, va)'
    BY <1>0, <1>2 DEF DroppedAt
  <2> QED
    BY <1>0, <1>1, <2>1, ExclusiveSame
<1> QED
  BY <1>0, <1>1, <1>4, <1>8, <1>9, <1>10, <1>11 DEF IInv

\* The new frame takes the place of the old one.
LEMMA PageSetIInv ==
  ASSUME IInv, NEW p \in Procs, PageSet(p)
  PROVE  IInv'
<1> DEFINE v == op[p].v
           va == op[p].i
           g == op[p].pa
           e == Writable(pt[Own(p)][op[p].i], op[p].pa)
           o == Resumed(op[p].v, op[p].i)
<1>0. /\ op[p].pc = "set" /\ UNCHANGED <<load, free, content, panicked>>
      /\ ref' = [ref EXCEPT ![g] = @ + 1]
      /\ pt' = [pt EXCEPT ![Own(p)][va] = e]
      /\ op' = [op EXCEPT ![p] = o]
  BY DEF PageSet, Is, Goto, Resumed
<1>1. /\ TypeOK /\ Kids /\ Alive(p) /\ Layout(p) /\ op[p].kid = NoPage /\ LayoutInv
      /\ RefsInv /\ HandsInv /\ Exclusive /\ load \in Loads
      /\ va \in Pages /\ Mapped(Own(p), va)
      /\ Own(p) \in Tables /\ Own(p) \in Mine(p)
      /\ g \in Frames /\ Holds(p, g) /\ v \in Vals \cup {NoPage}
  <2>1. op[p].pc = "set"
    BY <1>0
  <2> QED
    BY <2>1, FaultFacts, Types
<1>2. /\ o.pc = IF v = NoPage THEN "user" ELSE "write"
      /\ v # NoPage => o.i = va /\ o.v = v
      /\ o.kid = NoPage
  BY <1>1, ResumeFields
<1>3. o \in OpSet
  BY <1>1, ResumeFields
<1> HIDE DEF o
<1>4. op'[p] = o /\ op' \in [Procs -> OpSet] /\ \A q \in Procs : q # p => op'[q] = op[q]
  BY <1>0, <1>1, <1>3, OpMove
<1>5. e \in PTEs /\ e.pa = g /\ e.w /\ ~e.cow /\ e # NoPage
  <2>1. pt[Own(p)][va] \in PTEs
    BY <1>1, Types
  <2>2. e \in PTEs /\ e.pa = g /\ e.w /\ ~e.cow
    BY <1>1, <2>1 DEF Writable, PTEs
  <2>3. e # NoPage
    BY <2>2, ContentsAssumption DEF PTEs
  <2> QED
    BY <2>2, <2>3
<1> HIDE DEF e
<1>6. /\ pt' \in [Tables -> [Pages -> PTEs \cup {NoPage}]]
      /\ \A s \in Tables : s # Own(p) => pt'[s] = pt[s]
      /\ \A wa \in Pages : pt'[Own(p)][wa] = IF wa = va THEN e ELSE pt[Own(p)][wa]
  BY <1>0, <1>1, <1>5, PtWrite
<1> HIDE DEF va, g, v
<1>a. ref' \in [Frames -> Nat] /\ ref'[g] = ref[g] + 1 /\ ref'[g] # 0
      /\ \A f \in Frames : f # g => ref'[f] = ref[f]
  BY <1>0, <1>1, RefMore
<1>7. TypeOK'
  BY <1>0, <1>1, <1>4, <1>6, <1>a DEF TypeOK, OpSet
<1>8. \A s \in Tables, wa \in Pages :
        /\ Mapped(s, wa)' <=> Mapped(s, wa)
        /\ ~(s = Own(p) /\ wa = va) => pt'[s][wa] = pt[s][wa]
        /\ (s = Own(p) /\ wa = va) => pt'[s][wa] = e
  BY <1>1, <1>5, <1>6 DEF Mapped
<1>9. \A t \in Tables : t \notin Mine(p) => pt'[t] = pt[t]
  BY <1>1, <1>6
<1>10. KidsOf(p)' /\ CopiesOf(p)'
  BY <1>2, <1>4 DEF KidsOf, CopiesOf
<1>11. Layout(p)'
  <2>1. Sized(Own(p))' /\ Dense(New(p), 0)'
    <3>1. Sized(Own(p)) /\ Dense(New(p), 0)
      BY <1>0, <1>1 DEF Layout, Faulting
    <3> QED
      BY <1>8, <3>1, Names DEF Sized, Dense
  <2>2. /\ op'[p].pc \in {"user", "write"}
        /\ op'[p].pc = "write" => /\ op'[p].i = va /\ op'[p].v # NoPage /\ va \in Pages
                                 /\ pt'[Own(p)][va].w /\ pt'[Own(p)][va] # NoPage
    BY <1>1, <1>2, <1>4, <1>5, <1>8
  <2> QED
    BY <2>1, <2>2 DEF Layout, Faulting, Mapped
<1>12. Kids' /\ LayoutInv' /\ Copies'
  BY <1>0, <1>1, <1>2, <1>4, <1>9, <1>10, <1>11, StepKept
<1>13. \A q \in Procs : \A t, wa :
         /\ Limbo(q, t, wa)' <=> Limbo(q, t, wa) /\ q # p
         /\ Limbo(p, t, wa) <=> t = Own(p) /\ wa = va
  BY <1>0, <1>2, <1>4 DEF Limbo, va
<1>14. RefsInv'
  <2>1. \A q \in Procs : q # p => \A wa : ~Limbo(q, Own(p), wa)
    <3> SUFFICES ASSUME NEW q \in Procs, q # p, NEW wa, Limbo(q, Own(p), wa) PROVE FALSE
      OBVIOUS
    <3>1. Own(p) \in Mine(q) /\ Alive(q)
      BY <1>1, MineOp
    <3> QED
      BY <1>1, <3>1, Separate
  <2>2. ~Counts(Own(p), va, g)
    BY <1>13 DEF Counts
  <2>3. \A t \in Tables, wa \in Pages, f \in Frames :
          Counts(t, wa, f)' <=> Counts(t, wa, f) \/ (t = Own(p) /\ wa = va /\ f = g)
    BY <1>5, <1>8, <1>13, <2>1 DEF Counts, Mapped
  <2> QED
    BY <1>1, <1>a, <2>2, <2>3, CountsMore
<1>15. HandsInv'
  <2>1. \A f : ~Holds(p, f)' /\ (Holds(p, f) <=> f = g)
    BY <1>0, <1>2, <1>4 DEF Holds, g
  <2>2. op'[p].pc \notin {"copy", "dec", "kfreeold", "set", "map"}
    BY <1>2, <1>4
  <2>3. g \notin free
    BY <1>1 DEF HandsInv
  <2>4. \A f \in Frames :
          \/ /\ f \in free' <=> f \in free
             /\ ref'[f] = 0 <=> ref[f] = 0
             /\ Holds(p, f)' <=> Holds(p, f)
          \/ Holds(p, f) /\ ~Holds(p, f)' /\ f \notin free' /\ ref'[f] # 0
    BY <1>0, <1>a, <2>1, <2>3
  <2> QED
    BY <1>1, <1>4, <1>9, <2>2, <2>4, HandsMove
<1>16. Exclusive'
  <2>1. \A s, wa : DroppedAt(s, wa)' <=> DroppedAt(s, wa) /\ ~(s = Own(p) /\ wa = va)
    <3>1. \A q \in Procs : Own(q) = Own(p) => q = p
      BY Names
    <3> QED
      BY <1>0, <1>2, <1>4, <3>1 DEF DroppedAt, va
  <2>2. ref[g] = 0 /\ \A q \in Procs : op[q].pc = "kfree" => ~Holds(q, g)
    BY <1>0, <1>1 DEF HandsInv
  <2> SUFFICES ASSUME NEW s \in Tables, NEW t \in Tables, NEW xa \in Pages, NEW wa \in Pages,
                      Mapped(t, xa)', ~pt'[t][xa].cow,
                      Mapped(s, wa)', pt'[s][wa].pa = pt'[t][xa].pa, ~DroppedAt(s, wa)'
               PROVE  s = t /\ wa = xa
    BY DEF Exclusive
  <2>3. CASE s = Own(p) /\ wa = va /\ ~(t = Own(p) /\ xa = va)
    <3>1. Mapped(t, xa) /\ pt[t][xa].pa = g /\ ~pt[t][xa].cow
      BY <1>5, <1>8, <2>3
    <3>2. DroppedAt(t, xa)
      BY <1>1, <2>2, <3>1, UnreferencedDropped
    <3>3. PICK q \in Procs : op[q].pc \in {"kfreeold", "set"} /\ t = Own(q) /\ xa = op[q].i
      BY <3>2 DEF DroppedAt
    <3>4. pt[Own(q)][op[q].i].cow
      BY <3>3, FaultFacts
    <3> QED
      BY <3>1, <3>3, <3>4
  <2>4. CASE t = Own(p) /\ xa = va /\ ~(s = Own(p) /\ wa = va)
    <3>1. Mapped(s, wa) /\ pt[s][wa].pa = g
      BY <1>5, <1>8, <2>4
    <3>2. DroppedAt(s, wa)
      BY <1>1, <2>2, <3>1, UnreferencedDropped
    <3> QED
      BY <2>1, <2>4, <3>2
  <2>5. CASE ~(t = Own(p) /\ xa = va) /\ ~(s = Own(p) /\ wa = va)
    <3>1. /\ Mapped(t, xa) /\ ~pt[t][xa].cow
          /\ Mapped(s, wa) /\ pt[s][wa].pa = pt[t][xa].pa /\ ~DroppedAt(s, wa)
      BY <1>8, <2>1, <2>5
    <3> QED
      BY <1>1, <3>1 DEF Exclusive
  <2> QED
    BY <2>3, <2>4, <2>5
<1> QED
  BY <1>0, <1>1, <1>7, <1>12, <1>14, <1>15, <1>16 DEF IInv

-----------------------------------------------------------------------------
(* uvmunmap().                                                             *)

\* Entries are removed and no reference that was dropped comes back.
LEMMA ExclusiveLess ==
  ASSUME Exclusive, \A t, va : DroppedAt(t, va) => DroppedAt(t, va)',
         \A t \in Tables, va \in Pages : Mapped(t, va)' => Mapped(t, va) /\ pt'[t][va] = pt[t][va]
  PROVE  Exclusive'
<1> SUFFICES ASSUME NEW s \in Tables, NEW t \in Tables, NEW xa \in Pages, NEW wa \in Pages,
                    Mapped(t, xa)', ~pt'[t][xa].cow,
                    Mapped(s, wa)', pt'[s][wa].pa = pt'[t][xa].pa, ~DroppedAt(s, wa)'
             PROVE  s = t /\ wa = xa
  BY DEF Exclusive
<1>1. /\ Mapped(t, xa) /\ ~pt[t][xa].cow
      /\ Mapped(s, wa) /\ pt[s][wa].pa = pt[t][xa].pa /\ ~DroppedAt(s, wa)
  <2>1. pt'[t][xa] = pt[t][xa] /\ pt'[s][wa] = pt[s][wa] /\ Mapped(t, xa) /\ Mapped(s, wa)
    OBVIOUS
  <2> QED
    BY <2>1
<1> QED
  BY <1>1 DEF Exclusive

\* The entry that uvmunmap() is about to remove.
LEMMA UnmapFacts ==
  ASSUME IInv, NEW p \in Procs,
         op[p].pc = "kfree" \/ (op[p].pc = "unmap" /\ op[p].i < op[p].end)
  PROVE  /\ TypeOK /\ Kids /\ Alive(p) /\ Layout(p) /\ LayoutInv
         /\ RefsInv /\ HandsInv /\ Exclusive /\ load \in Loads
         /\ op[p].t \in Tables /\ op[p].t \in Mine(p)
         /\ op[p].i \in Pages /\ op[p].i < op[p].end /\ op[p].i + 1 \in 0 .. NPages
         /\ Mapped(op[p].t, op[p].i) /\ pt[op[p].t][op[p].i].pa \in Frames
         /\ op[p].pc = "unmap" => /\ Counts(op[p].t, op[p].i, pt[op[p].t][op[p].i].pa)
                                  /\ ref[pt[op[p].t][op[p].i].pa] # 0
<1>1. /\ TypeOK /\ Kids /\ Alive(p) /\ Layout(p) /\ LayoutInv
      /\ RefsInv /\ HandsInv /\ Exclusive /\ load \in Loads
  BY DEF IInv, LayoutInv, Alive
<1>2. op[p].t \in Tables /\ op[p].t \in Mine(p)
  BY <1>1, Types, MineOp
<1>3. op[p].i < op[p].end
  BY <1>1 DEF Layout
<1>4. op[p].i \in Pages /\ op[p].i + 1 \in 0 .. NPages
  <2>1. op[p].i \in 0 .. NPages /\ op[p].end \in 0 .. NPages
    BY <1>1, Types
  <2> QED
    BY <1>3, <2>1, PagesAssumption DEF Pages
<1>5. Mapped(op[p].t, op[p].i)
  <2>1. op[p].i <= op[p].i
    BY <1>4 DEF Pages
  <2> QED
    BY <1>1, <1>3, <1>4, <2>1 DEF Layout
<1>6. pt[op[p].t][op[p].i].pa \in Frames
  BY <1>1, <1>2, <1>4, <1>5, Types
<1>7. ASSUME op[p].pc = "unmap"
      PROVE  Counts(op[p].t, op[p].i, pt[op[p].t][op[p].i].pa) /\ ref[pt[op[p].t][op[p].i].pa] # 0
  <2>1. ~Limbo(p, op[p].t, op[p].i)
    BY <1>7 DEF Limbo
  <2>2. \A q \in Procs : ~Limbo(q, op[p].t, op[p].i)
    BY <1>1, <1>2, <2>1, OwnLimbo
  <2>3. Counts(op[p].t, op[p].i, pt[op[p].t][op[p].i].pa)
    BY <1>5, <2>2 DEF Counts
  <2> QED
    BY <1>1, <1>2, <1>4, <1>6, <2>3, RefCounts
<1> QED
  BY <1>1, <1>2, <1>3, <1>4, <1>5, <1>6, <1>7

\* One entry is removed.
LEMMA UnmapOne ==
  ASSUME IInv, NEW p \in Procs,
         op[p].pc = "kfree" \/ (op[p].pc = "unmap" /\ op[p].i < op[p].end),
         pt' = [pt EXCEPT ![op[p].t][op[p].i] = NoPage],
         op'[p].pc = "unmap", op'[p].i = op[p].i + 1, op'[p].t = op[p].t, op'[p].end = op[p].end,
         op'[p].kid = op[p].kid, \A q \in Procs : q # p => op'[q] = op[q],
         \A f \in Frames : content'[f] = content[f] \/ Overwritten(p, f)
  PROVE  /\ Kids' /\ LayoutInv' /\ Copies' /\ Exclusive'
         /\ pt' \in [Tables -> [Pages -> PTEs \cup {NoPage}]]
         /\ \A s \in Tables, wa \in Pages :
              /\ Mapped(s, wa)' <=> Mapped(s, wa) /\ ~(s = op[p].t /\ wa = op[p].i)
              /\ ~(s = op[p].t /\ wa = op[p].i) => pt'[s][wa] = pt[s][wa]
         /\ \A t \in Tables : t \notin Mine(p) => pt'[t] = pt[t]
<1>1. /\ TypeOK /\ Kids /\ Alive(p) /\ Layout(p) /\ LayoutInv /\ Exclusive
      /\ op[p].t \in Tables /\ op[p].t \in Mine(p)
      /\ op[p].i \in Pages /\ op[p].i < op[p].end /\ op[p].i + 1 \in 0 .. NPages
  BY UnmapFacts
<1>2. /\ pt' \in [Tables -> [Pages -> PTEs \cup {NoPage}]]
      /\ \A s \in Tables : s # op[p].t => pt'[s] = pt[s]
      /\ \A wa \in Pages : pt'[op[p].t][wa] = IF wa = op[p].i THEN NoPage ELSE pt[op[p].t][wa]
  BY <1>1, PtWrite
<1>3. \A s \in Tables, wa \in Pages :
        /\ Mapped(s, wa)' <=> Mapped(s, wa) /\ ~(s = op[p].t /\ wa = op[p].i)
        /\ ~(s = op[p].t /\ wa = op[p].i) => pt'[s][wa] = pt[s][wa]
  BY <1>1, <1>2 DEF Mapped
<1>4. \A t \in Tables : t \notin Mine(p) => pt'[t] = pt[t]
  BY <1>1, <1>2
<1>5. KidsOf(p)' /\ CopiesOf(p)'
  BY <1>1 DEF KidsOf, CopiesOf, Kids
<1>6. Layout(p)'
  <2>1. PICK n \in 0 .. op[p].i : \A va \in Pages :
          Mapped(op[p].t, va) <=> (va < n /\ op[p].t = Own(p)) \/ (op[p].i <= va /\ va < op[p].end)
    BY <1>1 DEF Layout
  <2>2. n \in 0 .. op[p].i + 1
    BY <1>1 DEF Pages
  <2>3. \A va \in Pages : pt'[op[p].t][va] # NoPage <=>
          (va < n /\ op[p].t = Own(p)) \/ (op[p].i + 1 <= va /\ va < op[p].end)
    <3>1. \A va \in Pages : va # op[p].i => (op[p].i + 1 <= va <=> op[p].i <= va)
      BY <1>1 DEF Pages
    <3>2. ~(op[p].i < n) /\ ~(op[p].i + 1 <= op[p].i)
      BY <1>1 DEF Pages
    <3> QED
      BY <1>1, <1>2, <2>1, <3>1, <3>2 DEF Mapped
  <2>4. op[p].t # Own(p) => Sized(Own(p))'
    BY <1>1, <1>2, Names DEF Layout, Sized, Dense, Mapped
  <2>5. op[p].t # New(p) => Dense(New(p), 0)'
    BY <1>1, <1>2, Names DEF Layout, Dense, Mapped
  <2>6. op[p].i + 1 <= op[p].end
    <3>1. op[p].end \in 0 .. NPages
      BY <1>1, Types
    <3> QED
      BY <1>1, <3>1 DEF Pages
  <2> QED
    BY <2>2, <2>3, <2>4, <2>5, <2>6 DEF Layout, Faulting, Mapped
<1>7. Kids' /\ LayoutInv' /\ Copies'
  BY <1>1, <1>4, <1>5, <1>6, StepKept
<1>8. Exclusive'
  <2>1. \A t, va : DroppedAt(t, va) => DroppedAt(t, va)'
    BY DEF DroppedAt
  <2> QED
    BY <1>1, <1>3, <2>1, ExclusiveLess
<1> QED
  BY <1>2, <1>3, <1>4, <1>7, <1>8

\* p goes on with the next page.
LEMMA OpNext ==
  ASSUME TypeOK, NEW p \in Procs, NEW c \in PCs, op[p].i + 1 \in 0 .. NPages,
         op' = [op EXCEPT ![p] = [op[p] EXCEPT !.pc = c, !.i = @ + 1]]
  PROVE  /\ op'[p].pc = c /\ op'[p].t = op[p].t /\ op'[p].i = op[p].i + 1 /\ op'[p].from = op[p].from
         /\ op'[p].end = op[p].end /\ op'[p].pa = op[p].pa /\ op'[p].v = op[p].v /\ op'[p].kid = op[p].kid
         /\ \A q \in Procs : q # p => op'[q] = op[q]
         /\ op' \in [Procs -> OpSet]
<1>1. op[p] \in OpSet
  BY DEF TypeOK, OpSet
<1>2. [op[p] EXCEPT !.pc = c, !.i = @ + 1] \in OpSet
  BY <1>1 DEF OpSet
<1>3. op'[p] = [op[p] EXCEPT !.pc = c, !.i = @ + 1] /\ \A q \in Procs : q # p => op'[q] = op[q]
  BY OpMove
<1>4. op' \in [Procs -> OpSet]
  BY <1>2, OpMove
<1> QED
  BY <1>1, <1>3, <1>4 DEF OpSet

\* kfree() of a frame that has lost its last reference, and *pte = 0.
LEMMA UnmapKfreeIInv ==
  ASSUME IInv, NEW p \in Procs, UnmapKfree(p)
  PROVE  IInv'
<1> DEFINE g == pt[op[p].t][op[p].i].pa
<1>0. /\ op[p].pc = "kfree" /\ UNCHANGED <<load, ref, panicked>>
      /\ free' = free \cup {g} /\ content' = [content EXCEPT ![g] = Junk]
      /\ pt' = [pt EXCEPT ![op[p].t][op[p].i] = NoPage]
      /\ op' = [op EXCEPT ![p] = [op[p] EXCEPT !.pc = "unmap", !.i = @ + 1]]
  BY DEF UnmapKfree, Is, Goto, kfree
<1>1. /\ TypeOK /\ Kids /\ Alive(p) /\ Layout(p) /\ LayoutInv
      /\ RefsInv /\ HandsInv /\ Exclusive /\ load \in Loads
      /\ op[p].t \in Tables /\ op[p].t \in Mine(p)
      /\ op[p].i \in Pages /\ op[p].i + 1 \in 0 .. NPages /\ g \in Frames
  <2>1. op[p].pc = "kfree"
    BY <1>0
  <2> QED
    BY <2>1, UnmapFacts
<1>2. /\ op'[p].pc = "unmap" /\ op'[p].t = op[p].t /\ op'[p].i = op[p].i + 1
      /\ op'[p].end = op[p].end /\ op'[p].kid = op[p].kid
      /\ \A q \in Procs : q # p => op'[q] = op[q]
      /\ op' \in [Procs -> OpSet]
  BY <1>0, <1>1, OpNext DEF PCs
<1>3. Holds(p, g) /\ ref[g] = 0
  BY <1>0, <1>1 DEF HandsInv, Holds
<1>4. \A f : Holds(p, f) <=> f = g
  BY <1>0 DEF Holds
<1> HIDE DEF g
<1>5. \A f \in Frames : content'[f] = content[f] \/ Overwritten(p, f)
  BY <1>0, <1>1, <1>3 DEF TypeOK, Overwritten
<1>6. /\ Kids' /\ LayoutInv' /\ Copies' /\ Exclusive'
      /\ pt' \in [Tables -> [Pages -> PTEs \cup {NoPage}]]
      /\ \A s \in Tables, wa \in Pages :
           /\ Mapped(s, wa)' <=> Mapped(s, wa) /\ ~(s = op[p].t /\ wa = op[p].i)
           /\ ~(s = op[p].t /\ wa = op[p].i) => pt'[s][wa] = pt[s][wa]
      /\ \A t \in Tables : t \notin Mine(p) => pt'[t] = pt[t]
  BY <1>0, <1>2, <1>5, UnmapOne
<1>7. TypeOK'
  BY <1>0, <1>1, <1>2, <1>6 DEF TypeOK, OpSet
<1>8. RefsInv'
  <2>1. \A q \in Procs : \A t, wa :
          /\ Limbo(q, t, wa)' <=> Limbo(q, t, wa) /\ q # p
          /\ Limbo(p, t, wa) <=> t = op[p].t /\ wa = op[p].i
    BY <1>0, <1>2 DEF Limbo
  <2>2. \A t \in Tables, wa \in Pages, f \in Frames : Counts(t, wa, f)' <=> Counts(t, wa, f)
    <3> SUFFICES ASSUME NEW t \in Tables, NEW wa \in Pages, NEW f \in Frames
                 PROVE  Counts(t, wa, f)' <=> Counts(t, wa, f)
      OBVIOUS
    <3>1. CASE t = op[p].t /\ wa = op[p].i
      BY <1>6, <2>1, <3>1 DEF Counts
    <3>2. CASE ~(t = op[p].t /\ wa = op[p].i)
      BY <1>6, <2>1, <3>2 DEF Counts
    <3> QED
      BY <3>1, <3>2
  <2> QED
    BY <1>0, <1>1, <2>2, CountsSame
<1>9. HandsInv'
  <2>1. \A f : ~Holds(p, f)'
    BY <1>2 DEF Holds
  <2>2. \A f \in Frames :
          \/ /\ f \in free' <=> f \in free
             /\ ref'[f] = 0 <=> ref[f] = 0
             /\ Holds(p, f)' <=> Holds(p, f)
          \/ Holds(p, f) /\ ~Holds(p, f)' /\ f \in free' /\ ref'[f] = 0
    BY <1>0, <1>3, <1>4, <2>1
  <2> QED
    BY <1>1, <1>2, <1>6, <2>2, HandsMove
<1> QED
  BY <1>0, <1>1, <1>6, <1>7, <1>8, <1>9 DEF IInv

\* decrement_ref() for one page.
LEMMA UvmunmapIInv ==
  ASSUME IInv, NEW p \in Procs, uvmunmap(p)
  PROVE  IInv'
<1> DEFINE g == pt[op[p].t][op[p].i].pa
<1>0. /\ op[p].pc = "unmap" /\ op[p].i < op[p].end /\ UNCHANGED <<load, free, content, panicked>>
      /\ ref' = [ref EXCEPT ![g] = @ - 1]
      /\ IF LastRef(g)
         THEN op' = [op EXCEPT ![p] = [op[p] EXCEPT !.pc = "kfree"]] /\ pt' = pt
         ELSE /\ pt' = [pt EXCEPT ![op[p].t][op[p].i] = NoPage]
              /\ op' = [op EXCEPT ![p] = [op[p] EXCEPT !.i = @ + 1]]
  BY DEF uvmunmap, Is, Goto
<1>1. /\ TypeOK /\ Kids /\ Alive(p) /\ Layout(p) /\ LayoutInv
      /\ RefsInv /\ HandsInv /\ Exclusive /\ load \in Loads
      /\ op[p].t \in Tables /\ op[p].t \in Mine(p)
      /\ op[p].i \in Pages /\ op[p].i + 1 \in 0 .. NPages /\ g \in Frames
      /\ Counts(op[p].t, op[p].i, g) /\ ref[g] # 0 /\ Mapped(op[p].t, op[p].i)
  <2>1. op[p].pc = "unmap" /\ op[p].i < op[p].end
    BY <1>0
  <2> QED
    BY <2>1, UnmapFacts
<1>2. /\ ref' \in [Frames -> Nat] /\ \A f \in Frames : f # g => ref'[f] = ref[f]
      /\ ref'[g] = ref[g] - 1 /\ (ref'[g] = 0 <=> ref[g] = 1)
  <2> HIDE DEF g
  <2> QED
    BY <1>0, <1>1, RefLess
<1>3. g \notin free /\ \A f : ~Holds(p, f)
  BY <1>0, <1>1 DEF HandsInv, Holds
<1>4. CASE LastRef(g)
  <2>1. /\ op'[p].pc = "kfree" /\ op'[p].i = op[p].i /\ op'[p].t = op[p].t /\ op'[p].kid = op[p].kid
        /\ op'[p].end = op[p].end /\ \A q \in Procs : q # p => op'[q] = op[q]
        /\ op' \in [Procs -> OpSet] /\ pt' = pt
    BY <1>0, <1>1, <1>4, OpStep DEF PCs
  <2>2. TypeOK'
    BY <1>0, <1>1, <1>2, <2>1 DEF TypeOK, OpSet
  <2>3. KidsOf(p)' /\ CopiesOf(p)'
    BY <1>0, <1>1, <2>1, ZenonT(60) DEF KidsOf, CopiesOf, Kids
  <2>4. Layout(p)'
    <3>1. /\ op[p].pc = "unmap" /\ op[p].i < op[p].end /\ Layout(p)
      BY <1>0, <1>1
    <3>2. /\ \A t : Sized(t)' <=> Sized(t)
          /\ \A t, n : Dense(t, n)' <=> Dense(t, n)
          /\ \A t, va : Mapped(t, va)' <=> Mapped(t, va)
      BY <2>1 DEF Sized, Dense, Mapped
    <3> QED
      BY <2>1, <3>1, <3>2 DEF Layout, Faulting
  <2>5. Kids' /\ LayoutInv' /\ Copies'
    BY <1>0, <1>1, <2>1, <2>3, <2>4, StepKept
  <2>6. RefsInv'
    <3>1. \A q \in Procs : \A t, wa :
            Limbo(q, t, wa)' <=> Limbo(q, t, wa) \/ (q = p /\ t = op[p].t /\ wa = op[p].i)
      BY <1>0, <2>1 DEF Limbo
    <3>2. \A t \in Tables, wa \in Pages, f \in Frames :
            Counts(t, wa, f)' <=> Counts(t, wa, f) /\ ~(t = op[p].t /\ wa = op[p].i)
      BY <2>1, <3>1 DEF Counts, Mapped
    <3> HIDE DEF g
    <3> QED
      BY <1>1, <1>2, <3>2, CountsLess
  <2>7. HandsInv'
    <3>1. \A f : Holds(p, f)' <=> f = g
      BY <2>1 DEF Holds
    <3>2. \A f \in Frames :
            \/ /\ f \in free' <=> f \in free
               /\ ref'[f] = 0 <=> ref[f] = 0
               /\ Holds(p, f)' <=> Holds(p, f)
            \/ ref[f] # 0 /\ f \notin free' /\ ref'[f] = 0 /\ Holds(p, f)'
      <4>1. ref'[g] = 0
        BY <1>2, <1>4 DEF LastRef
      <4> HIDE DEF g
      <4> QED
        BY <1>0, <1>1, <1>2, <1>3, <3>1, <4>1
    <3> QED
      BY <1>1, <2>1, <3>2, HandsMove
  <2>8. Exclusive'
    <3>1. \A t, va : DroppedAt(t, va) => DroppedAt(t, va)'
      BY <1>0, <2>1 DEF DroppedAt
    <3> QED
      BY <1>1, <2>1, <3>1, ExclusiveSame
  <2> QED
    BY <1>0, <1>1, <2>2, <2>5, <2>6, <2>7, <2>8 DEF IInv
<1>5. CASE ~LastRef(g)
  <2>0. op[p] \in OpSet /\ op' = [op EXCEPT ![p] = [op[p] EXCEPT !.i = @ + 1]]
    BY <1>0, <1>1, <1>5 DEF TypeOK, OpSet
  <2>1. /\ op'[p].pc = "unmap" /\ op'[p].i = op[p].i + 1 /\ op'[p].t = op[p].t
        /\ op'[p].kid = op[p].kid /\ op'[p].end = op[p].end
    <3>1. op'[p] = [op[p] EXCEPT !.i = @ + 1]
      BY <1>1, <2>0, OpMove
    <3> QED
      BY <1>0, <2>0, <3>1 DEF OpSet
  <2>2. op' \in [Procs -> OpSet] /\ \A q \in Procs : q # p => op'[q] = op[q]
    <3>1. [op[p] EXCEPT !.i = @ + 1] \in OpSet
      BY <1>1, <2>0 DEF OpSet
    <3> QED
      BY <1>1, <2>0, <3>1, OpMove
  <2>3. /\ Kids' /\ LayoutInv' /\ Copies' /\ Exclusive'
        /\ pt' \in [Tables -> [Pages -> PTEs \cup {NoPage}]]
        /\ \A s \in Tables, wa \in Pages :
             /\ Mapped(s, wa)' <=> Mapped(s, wa) /\ ~(s = op[p].t /\ wa = op[p].i)
             /\ ~(s = op[p].t /\ wa = op[p].i) => pt'[s][wa] = pt[s][wa]
        /\ \A t \in Tables : t \notin Mine(p) => pt'[t] = pt[t]
    <3>1. op[p].pc = "unmap" /\ op[p].i < op[p].end /\ pt' = [pt EXCEPT ![op[p].t][op[p].i] = NoPage]
          /\ content' = content
      BY <1>0, <1>5
    <3> QED
      BY <2>1, <2>2, <3>1, UnmapOne
  <2>4. TypeOK'
    BY <1>0, <1>1, <1>2, <2>2, <2>3 DEF TypeOK, OpSet
  <2>5. RefsInv'
    <3>1. \A q \in Procs : \A t, wa : Limbo(q, t, wa)' <=> Limbo(q, t, wa)
      BY <1>0, <2>1, <2>2 DEF Limbo
    <3>2. \A t \in Tables, wa \in Pages, f \in Frames :
            Counts(t, wa, f)' <=> Counts(t, wa, f) /\ ~(t = op[p].t /\ wa = op[p].i)
      BY <2>3, <3>1 DEF Counts
    <3> HIDE DEF g
    <3> QED
      BY <1>1, <1>2, <3>2, CountsLess
  <2>6. HandsInv'
    <3>1. \A f : ~Holds(p, f)'
      BY <2>1 DEF Holds
    <3>2. \A f \in Frames :
            /\ f \in free' <=> f \in free
            /\ ref'[f] = 0 <=> ref[f] = 0
            /\ Holds(p, f)' <=> Holds(p, f)
      <4>1. ref'[g] # 0
        BY <1>2, <1>5 DEF LastRef
      <4> HIDE DEF g
      <4> QED
        BY <1>0, <1>1, <1>2, <1>3, <3>1, <4>1
    <3> QED
      BY <1>1, <2>1, <2>2, <2>3, <3>2, HandsMove
  <2> QED
    BY <1>0, <1>1, <2>3, <2>4, <2>5, <2>6 DEF IInv
<1> QED
  BY <1>4, <1>5

-----------------------------------------------------------------------------
(* uvmalloc().                                                             *)

\* The table that uvmalloc() extends.
LEMMA AllocFacts ==
  ASSUME IInv, NEW p \in Procs,
         op[p].pc = "map" \/ (op[p].pc = "uvmalloc" /\ op[p].i < op[p].end)
  PROVE  /\ TypeOK /\ Kids /\ Alive(p) /\ Layout(p) /\ LayoutInv /\ op[p].kid = NoPage
         /\ RefsInv /\ HandsInv /\ Exclusive /\ Copies /\ load \in Loads
         /\ op[p].t \in Tables /\ op[p].t \in Mine(p) /\ op[p].t \in {Own(p), New(p)}
         /\ op[p].i \in Pages /\ op[p].i < op[p].end /\ op[p].i + 1 \in 0 .. NPages
         /\ Dense(op[p].t, op[p].i) /\ ~Mapped(op[p].t, op[p].i)
<1>1. /\ TypeOK /\ Kids /\ Alive(p) /\ Layout(p) /\ LayoutInv /\ op[p].kid = NoPage
      /\ RefsInv /\ HandsInv /\ Exclusive /\ Copies /\ load \in Loads
  BY DEF IInv, LayoutInv, Alive, Kids
<1>2. op[p].t \in Tables /\ op[p].t \in Mine(p) /\ op[p].t \in {Own(p), New(p)}
  BY <1>1, Types, MineOp DEF Kids
<1>3. op[p].i < op[p].end /\ Dense(op[p].t, op[p].i)
  BY <1>1 DEF Layout
<1>4. op[p].i \in Pages /\ op[p].i + 1 \in 0 .. NPages
  <2>1. op[p].i \in 0 .. NPages /\ op[p].end \in 0 .. NPages
    BY <1>1, Types
  <2> QED
    BY <1>3, <2>1, PagesAssumption DEF Pages
<1>5. ~Mapped(op[p].t, op[p].i)
  <2>1. ~(op[p].i < op[p].i)
    BY <1>4 DEF Pages
  <2> QED
    BY <1>3, <1>4, <2>1 DEF Dense
<1> QED
  BY <1>1, <1>2, <1>3, <1>4, <1>5

\* kalloc() of uvmalloc().
LEMMA UvmallocIInv ==
  ASSUME IInv, NEW p \in Procs, uvmalloc(p)
  PROVE  IInv'
<1>0. op[p].pc = "uvmalloc" /\ op[p].i < op[p].end /\ UNCHANGED <<load, pt, ref, panicked>>
  BY DEF uvmalloc, Is
<1>1. PICK g \in free : /\ free' = free \ {g}
                        /\ content' = [content EXCEPT ![g] = Zero]
                        /\ op' = [op EXCEPT ![p] = [op[p] EXCEPT !.pc = "map", !.pa = g]]
  BY DEF uvmalloc, kalloc, Goto
<1>2. /\ TypeOK /\ Kids /\ Alive(p) /\ Layout(p) /\ LayoutInv /\ op[p].kid = NoPage
      /\ RefsInv /\ HandsInv /\ Exclusive /\ Copies /\ load \in Loads
      /\ op[p].t \in Tables /\ op[p].t \in Mine(p) /\ op[p].t \in {Own(p), New(p)}
  BY <1>0, AllocFacts
<1>3. g \in Frames /\ ref[g] = 0
  BY <1>2 DEF TypeOK, HandsInv
<1> DEFINE o == [op[p] EXCEPT !.pc = "map", !.pa = g]
<1>4. /\ o.pc = "map" /\ o.pa = g /\ o.i = op[p].i /\ o.t = op[p].t /\ o.end = op[p].end
      /\ o.from = op[p].from /\ o.kid = NoPage
  <2>1. op[p] \in OpSet
    BY <1>2 DEF TypeOK, OpSet
  <2> QED
    BY <1>2, <2>1 DEF OpSet
<1>5. o \in OpSet
  <2>1. op[p] \in OpSet /\ "map" \in PCs
    BY <1>2 DEF TypeOK, OpSet, PCs
  <2> QED
    BY <1>3, <2>1 DEF OpSet
<1>6. op'[p] = o /\ op' \in [Procs -> OpSet] /\ \A q \in Procs : q # p => op'[q] = op[q]
  BY <1>1, <1>2, <1>5, OpMove
<1> HIDE DEF o
<1>7. TypeOK'
  BY <1>0, <1>1, <1>2, <1>6 DEF TypeOK, OpSet
<1>8. KidsOf(p)'
  BY <1>2, <1>4, <1>6 DEF KidsOf
<1>9. CopiesOf(p)'
  <2>1. content'[g] = Zero /\ \A f \in Frames : f # g => content'[f] = content[f]
    BY <1>1, <1>2, <1>3 DEF TypeOK
  <2>2. ASSUME op[p].t = New(p), NEW va \in Pages, Mapped(New(p), va)
        PROVE  content'[pt[New(p)][va].pa] = Zero /\ ~pt[New(p)][va].cow
    <3>1. pt[New(p)][va].pa \in Frames /\ content[pt[New(p)][va].pa] = Zero /\ ~pt[New(p)][va].cow
      BY <1>0, <1>2, <2>2, Types DEF Copies, CopiesOf
    <3> QED
      BY <2>1, <3>1
  <2> QED
    BY <1>0, <1>4, <1>6, <2>1, <2>2 DEF CopiesOf, Mapped
<1>10. Layout(p)'
  BY <1>0, <1>2, <1>4, <1>6 DEF Layout, Sized, Dense, Mapped, Faulting
<1>11. \A f \in Frames : content'[f] = content[f] \/ Overwritten(p, f)
  BY <1>1, <1>2 DEF TypeOK, Overwritten
<1>12. Kids' /\ LayoutInv' /\ Copies'
  BY <1>0, <1>2, <1>4, <1>6, <1>8, <1>9, <1>10, <1>11, StepKept
<1>13. \A q \in Procs : \A t, wa : Limbo(q, t, wa)' <=> Limbo(q, t, wa)
  BY <1>0, <1>4, <1>6 DEF Limbo
<1>14. RefsInv'
  <2>1. \A t \in Tables, wa \in Pages, f \in Frames : Counts(t, wa, f)' <=> Counts(t, wa, f)
    BY <1>0, <1>13 DEF Counts, Mapped
  <2> QED
    BY <1>0, <1>2, <2>1, CountsSame
<1>15. HandsInv'
  <2>1. \A f : ~Holds(p, f) /\ (Holds(p, f)' <=> f = g)
    BY <1>0, <1>4, <1>6 DEF Holds
  <2>2. op'[p].pa # NoPage /\ op'[p].pc # "kfreeold"
    BY <1>3, <1>4, <1>6, ContentsAssumption
  <2>3. \A f \in Frames :
          \/ /\ f \in free' <=> f \in free
             /\ ref'[f] = 0 <=> ref[f] = 0
             /\ Holds(p, f)' <=> Holds(p, f)
          \/ f \in free /\ f \notin free' /\ ref'[f] = 0 /\ Holds(p, f)'
    BY <1>0, <1>1, <1>3, <2>1
  <2> QED
    BY <1>0, <1>2, <1>6, <2>2, <2>3, HandsMove
<1>16. Exclusive'
  <2>1. \A t, va : DroppedAt(t, va) => DroppedAt(t, va)'
    BY <1>0, <1>6 DEF DroppedAt
  <2> QED
    BY <1>0, <1>2, <2>1, ExclusiveSame
<1> QED
  BY <1>0, <1>2, <1>7, <1>12, <1>14, <1>15, <1>16 DEF IInv

\* The page cannot be mapped: its frame goes back to the free list.
LEMMA UvmallocMapFailsIInv ==
  ASSUME IInv, NEW p \in Procs, UvmallocMapFails(p)
  PROVE  IInv'
<1> DEFINE g == op[p].pa
<1>0. /\ op[p].pc = "map" /\ Unmap(p, op[p].t, op[p].from, op[p].i, NoPage)
      /\ free' = free \cup {g} /\ content' = [content EXCEPT ![g] = Junk]
      /\ UNCHANGED <<load, pt, ref, panicked>>
  BY DEF UvmallocMapFails, Is, GiveBack, kfree
<1>1. /\ TypeOK /\ Kids /\ Alive(p) /\ op[p].kid = NoPage
      /\ op' \in [Procs -> OpSet] /\ \A q \in Procs : q # p => op'[q] = op[q]
      /\ op'[p].pc = "unmap" /\ op'[p].kid = NoPage
      /\ KidsOf(p)' /\ CopiesOf(p)' /\ Layout(p)'
  BY <1>0, UvmallocUndo
<1>2. RefsInv /\ HandsInv /\ Exclusive /\ load \in Loads
  BY DEF IInv
<1>3. g \in Frames /\ ref[g] = 0 /\ \A f : Holds(p, f) <=> f = g
  <2>1. \A f : Holds(p, f) <=> f = g
    BY <1>0 DEF Holds
  <2>2. g \in Frames
    BY <1>0, <1>1, <1>2, Types DEF HandsInv
  <2> QED
    BY <1>2, <2>1, <2>2 DEF HandsInv
<1> HIDE DEF g
<1>4. TypeOK'
  BY <1>0, <1>1, <1>3 DEF TypeOK, OpSet
<1>5. \A f \in Frames : content'[f] = content[f] \/ Overwritten(p, f)
  BY <1>0, <1>1, <1>3 DEF TypeOK, Overwritten
<1>6. Kids' /\ LayoutInv' /\ Copies'
  BY <1>0, <1>1, <1>5, StepKept
<1>7. RefsInv'
  <2>1. \A q \in Procs : \A t, wa : Limbo(q, t, wa)' <=> Limbo(q, t, wa)
    BY <1>0, <1>1 DEF Limbo
  <2>2. \A t \in Tables, wa \in Pages, f \in Frames : Counts(t, wa, f)' <=> Counts(t, wa, f)
    BY <1>0, <2>1 DEF Counts, Mapped
  <2> QED
    BY <1>0, <1>2, <2>2, CountsSame
<1>8. HandsInv'
  <2>1. \A f : ~Holds(p, f)'
    BY <1>1 DEF Holds
  <2>2. \A f \in Frames :
          \/ /\ f \in free' <=> f \in free
             /\ ref'[f] = 0 <=> ref[f] = 0
             /\ Holds(p, f)' <=> Holds(p, f)
          \/ Holds(p, f) /\ ~Holds(p, f)' /\ f \in free' /\ ref'[f] = 0
    BY <1>0, <1>3, <2>1
  <2> QED
    BY <1>0, <1>1, <2>2, HandsMove
<1>9. Exclusive'
  <2>1. \A t, va : DroppedAt(t, va) => DroppedAt(t, va)'
    BY <1>0, <1>1 DEF DroppedAt
  <2> QED
    BY <1>0, <1>2, <2>1, ExclusiveSame
<1> QED
  BY <1>0, <1>2, <1>4, <1>6, <1>7, <1>8, <1>9 DEF IInv

\* The new page is mapped.
LEMMA UvmallocMapIInv ==
  ASSUME IInv, NEW p \in Procs, UvmallocMap(p)
  PROVE  IInv'
<1> DEFINE t0 == op[p].t
           va0 == op[p].i
           g == op[p].pa
           e == [pa |-> op[p].pa, w |-> ~(op[p].t = New(p) /\ op[p].i \in load.text), cow |-> FALSE]
           o == [op[p] EXCEPT !.pc = "uvmalloc", !.i = @ + 1, !.pa = NoPage]
<1>0. /\ op[p].pc = "map" /\ UNCHANGED <<load, free, content, panicked>>
      /\ ref' = [ref EXCEPT ![g] = @ + 1]
      /\ pt' = [pt EXCEPT ![t0][va0] = e]
      /\ op' = [op EXCEPT ![p] = o]
  BY DEF UvmallocMap, Is, Goto
<1>1. /\ TypeOK /\ Kids /\ Alive(p) /\ Layout(p) /\ LayoutInv /\ op[p].kid = NoPage
      /\ RefsInv /\ HandsInv /\ Exclusive /\ Copies /\ load \in Loads
      /\ t0 \in Tables /\ t0 \in Mine(p) /\ t0 \in {Own(p), New(p)}
      /\ va0 \in Pages /\ va0 < op[p].end /\ va0 + 1 \in 0 .. NPages
      /\ Dense(t0, va0) /\ ~Mapped(t0, va0)
  <2>1. op[p].pc = "map"
    BY <1>0
  <2> QED
    BY <2>1, AllocFacts
<1>2. g \in Frames /\ Holds(p, g) /\ ref[g] = 0 /\ content[g] = Zero
  <2>1. g \in Frames /\ Holds(p, g)
    BY <1>0, <1>1, Types DEF HandsInv, Holds
  <2> QED
    BY <1>0, <1>1, <2>1 DEF HandsInv, Copies, CopiesOf
<1>3. /\ o.pc = "uvmalloc" /\ o.i = va0 + 1 /\ o.t = t0 /\ o.end = op[p].end
      /\ o.from = op[p].from /\ o.kid = NoPage
  <2>1. op[p] \in OpSet
    BY <1>1 DEF TypeOK, OpSet
  <2> QED
    BY <1>1, <2>1 DEF OpSet
<1>4. o \in OpSet
  <2>1. op[p] \in OpSet /\ "uvmalloc" \in PCs
    BY <1>1 DEF TypeOK, OpSet, PCs
  <2> QED
    BY <1>1, <2>1 DEF OpSet
<1> HIDE DEF o
<1>5. op'[p] = o /\ op' \in [Procs -> OpSet] /\ \A q \in Procs : q # p => op'[q] = op[q]
  BY <1>0, <1>1, <1>4, OpMove
<1>6. e \in PTEs /\ e.pa = g /\ ~e.cow /\ e # NoPage
  <2>1. e \in PTEs /\ e.pa = g /\ ~e.cow
    <3>1. (~(op[p].t = New(p) /\ op[p].i \in load.text)) \in BOOLEAN
      OBVIOUS
    <3> QED
      BY <1>2, <3>1 DEF PTEs
  <2>2. e # NoPage
    BY <2>1, ContentsAssumption DEF PTEs
  <2> QED
    BY <2>1, <2>2
<1> HIDE DEF e
<1>7. /\ pt' \in [Tables -> [Pages -> PTEs \cup {NoPage}]]
      /\ \A s \in Tables : s # t0 => pt'[s] = pt[s]
      /\ \A wa \in Pages : pt'[t0][wa] = IF wa = va0 THEN e ELSE pt[t0][wa]
  BY <1>0, <1>1, <1>6, PtWrite
<1> HIDE DEF t0, va0, g
<1>8. /\ ref' \in [Frames -> Nat] /\ ref'[g] = ref[g] + 1 /\ ref'[g] # 0
      /\ \A f \in Frames : f # g => ref'[f] = ref[f]
  BY <1>0, <1>1, <1>2, RefMore
<1>9. TypeOK'
  BY <1>0, <1>1, <1>5, <1>7, <1>8 DEF TypeOK, OpSet
<1>10. \A s \in Tables, wa \in Pages :
        /\ Mapped(s, wa)' <=> Mapped(s, wa) \/ (s = t0 /\ wa = va0)
        /\ ~(s = t0 /\ wa = va0) => pt'[s][wa] = pt[s][wa]
        /\ (s = t0 /\ wa = va0) => pt'[s][wa] = e
  BY <1>1, <1>6, <1>7 DEF Mapped
<1>11. \A t \in Tables : t \notin Mine(p) => pt'[t] = pt[t]
  BY <1>1, <1>7
<1>12. KidsOf(p)'
  BY <1>1, <1>3, <1>5 DEF KidsOf
<1>13. CopiesOf(p)'
  <2>1. ASSUME t0 = New(p), NEW va \in Pages, Mapped(New(p), va)'
        PROVE  content[pt'[New(p)][va].pa] = Zero /\ ~pt'[New(p)][va].cow
    <3>1. CASE va = va0
      BY <1>1, <1>2, <1>6, <1>10, <2>1, <3>1
    <3>2. CASE va # va0
      <4>1. Mapped(New(p), va) /\ pt'[New(p)][va] = pt[New(p)][va]
        BY <1>1, <1>10, <2>1, <3>2
      <4>2. content[pt[New(p)][va].pa] = Zero /\ ~pt[New(p)][va].cow
        BY <1>0, <1>1, <2>1, <4>1 DEF Copies, CopiesOf, t0
      <4> QED
        BY <4>1, <4>2
    <3> QED
      BY <3>1, <3>2
  <2> QED
    BY <1>0, <1>3, <1>5, <2>1 DEF CopiesOf
<1>14. Layout(p)'
  <2>1. \A va \in Pages : pt'[t0][va] # NoPage <=> va < va0 + 1
    <3>1. \A va \in Pages : va < va0 + 1 <=> va < va0 \/ va = va0
      BY <1>1 DEF Pages
    <3> QED
      BY <1>1, <1>6, <1>7, <3>1 DEF Dense, Mapped
  <2>2. op[p].from <= va0 + 1 /\ va0 + 1 <= op[p].end
    <3>1. op[p].from <= va0
      BY <1>0, <1>1 DEF Layout, va0
    <3>2. op[p].from \in 0 .. NPages /\ op[p].end \in 0 .. NPages
      BY <1>1, Types
    <3> QED
      BY <1>1, <3>1, <3>2 DEF Pages
  <2>3. t0 # Own(p) => Sized(Own(p))' /\ op[p].from = 0 /\ 1 <= op[p].end
    BY <1>0, <1>1, <1>7, Names DEF Layout, Sized, Dense, Mapped, t0
  <2>4. t0 # New(p) => Dense(New(p), 0)'
    BY <1>0, <1>1, <1>7, Names DEF Layout, Dense, Mapped, t0
  <2> QED
    BY <1>3, <1>5, <2>1, <2>2, <2>3, <2>4 DEF Layout, Dense, Mapped, Faulting
<1>15. Kids' /\ LayoutInv' /\ Copies'
  BY <1>0, <1>1, <1>3, <1>5, <1>11, <1>12, <1>13, <1>14, StepKept
<1>16. \A q \in Procs : \A t, wa : Limbo(q, t, wa)' <=> Limbo(q, t, wa)
  BY <1>0, <1>3, <1>5 DEF Limbo
<1>17. RefsInv'
  <2>1. \A q \in Procs : ~Limbo(q, t0, va0)
    <3>1. ~Limbo(p, t0, va0)
      BY <1>0 DEF Limbo
    <3> QED
      BY <1>1, <3>1, OwnLimbo
  <2>2. ~Counts(t0, va0, g)
    BY <1>1 DEF Counts
  <2>3. \A t \in Tables, wa \in Pages, f \in Frames :
          Counts(t, wa, f)' <=> Counts(t, wa, f) \/ (t = t0 /\ wa = va0 /\ f = g)
    BY <1>1, <1>6, <1>10, <1>16, <2>1 DEF Counts
  <2> QED
    BY <1>1, <1>2, <1>8, <2>2, <2>3, CountsMore
<1>18. HandsInv'
  <2>1. \A f : ~Holds(p, f)' /\ (Holds(p, f) <=> f = g)
    BY <1>0, <1>3, <1>5 DEF Holds, g
  <2>2. g \notin free
    BY <1>1, <1>2 DEF HandsInv
  <2>3. \A f \in Frames :
          \/ /\ f \in free' <=> f \in free
             /\ ref'[f] = 0 <=> ref[f] = 0
             /\ Holds(p, f)' <=> Holds(p, f)
          \/ Holds(p, f) /\ ~Holds(p, f)' /\ f \notin free' /\ ref'[f] # 0
    BY <1>0, <1>8, <2>1, <2>2
  <2>4. op'[p].pc = "uvmalloc"
    BY <1>3, <1>5
  <2> QED
    BY <1>1, <1>5, <1>11, <2>3, <2>4, HandsMove
<1>19. Exclusive'
  <2>1. \A s, wa : DroppedAt(s, wa)' <=> DroppedAt(s, wa)
    BY <1>0, <1>3, <1>5 DEF DroppedAt
  <2>2. \A q \in Procs : op[q].pc = "kfree" => ~Holds(q, g)
    BY <1>0, <1>1, <1>2 DEF HandsInv
  <2> SUFFICES ASSUME NEW s \in Tables, NEW t \in Tables, NEW xa \in Pages, NEW wa \in Pages,
                      Mapped(t, xa)', ~pt'[t][xa].cow,
                      Mapped(s, wa)', pt'[s][wa].pa = pt'[t][xa].pa, ~DroppedAt(s, wa)'
               PROVE  s = t /\ wa = xa
    BY DEF Exclusive
  <2>3. CASE s = t0 /\ wa = va0 /\ ~(t = t0 /\ xa = va0)
    <3>1. Mapped(t, xa) /\ pt[t][xa].pa = g /\ ~pt[t][xa].cow
      BY <1>6, <1>10, <2>3
    <3>2. DroppedAt(t, xa)
      BY <1>1, <1>2, <2>2, <3>1, UnreferencedDropped
    <3>3. PICK q \in Procs : op[q].pc \in {"kfreeold", "set"} /\ t = Own(q) /\ xa = op[q].i
      BY <3>2 DEF DroppedAt
    <3>4. pt[Own(q)][op[q].i].cow
      BY <3>3, FaultFacts
    <3> QED
      BY <3>1, <3>3, <3>4
  <2>4. CASE t = t0 /\ xa = va0 /\ ~(s = t0 /\ wa = va0)
    <3>1. Mapped(s, wa) /\ pt[s][wa].pa = g
      BY <1>6, <1>10, <2>4
    <3>2. DroppedAt(s, wa)
      BY <1>1, <1>2, <2>2, <3>1, UnreferencedDropped
    <3> QED
      BY <2>1, <2>4, <3>2
  <2>5. CASE ~(t = t0 /\ xa = va0) /\ ~(s = t0 /\ wa = va0)
    <3>1. /\ Mapped(t, xa) /\ ~pt[t][xa].cow
          /\ Mapped(s, wa) /\ pt[s][wa].pa = pt[t][xa].pa /\ ~DroppedAt(s, wa)
      BY <1>10, <2>1, <2>5
    <3> QED
      BY <1>1, <3>1 DEF Exclusive
  <2> QED
    BY <2>3, <2>4, <2>5
<1> QED
  BY <1>0, <1>1, <1>9, <1>15, <1>17, <1>18, <1>19 DEF IInv

-----------------------------------------------------------------------------
(* fork().                                                                 *)

\* The parent's and the child's tables in uvmcopy().
LEMMA CopyFacts ==
  ASSUME IInv, NEW p \in Procs,
         op[p].pc = "incref" \/ (op[p].pc = "uvmcopy" /\ op[p].i < op[p].end)
  PROVE  /\ TypeOK /\ Kids /\ Alive(p) /\ Layout(p) /\ LayoutInv
         /\ RefsInv /\ HandsInv /\ Exclusive /\ load \in Loads
         /\ op[p].kid \in Procs /\ op[p].kid # NoPage /\ op[p].kid # p /\ op[op[p].kid].pc = "used"
         /\ Own(p) \in Tables /\ Own(op[p].kid) \in Tables /\ Own(p) # Own(op[p].kid)
         /\ Own(p) \in Mine(p) /\ Own(op[p].kid) \in Mine(p) /\ New(p) # Own(op[p].kid)
         /\ op[p].i \in Pages /\ op[p].i < op[p].end /\ op[p].i + 1 \in 0 .. NPages
         /\ op[p].end \in 0 .. NPages
         /\ Dense(Own(p), op[p].end) /\ Mapped(Own(p), op[p].i) /\ OldFrame(p) \in Frames
         /\ \A va \in Pages : Mapped(Own(op[p].kid), va) =>
              pt[Own(op[p].kid)][va] = pt[Own(p)][va] /\ pt[Own(p)][va].cow
         /\ Counts(Own(p), op[p].i, OldFrame(p)) /\ ref[OldFrame(p)] # 0
<1>1. /\ TypeOK /\ Kids /\ Alive(p) /\ Layout(p) /\ LayoutInv
      /\ RefsInv /\ HandsInv /\ Exclusive /\ load \in Loads
  BY DEF IInv, LayoutInv, Alive
<1>2. op[p].kid # NoPage /\ op[op[p].kid].pc = "used" /\ op[p].kid # p
  BY <1>1 DEF Kids
<1>3. op[p].kid \in Procs /\ Own(p) \in Mine(p) /\ Own(op[p].kid) \in Mine(p)
  BY <1>1, <1>2, MineOp
<1>4. /\ Own(p) \in Tables /\ Own(op[p].kid) \in Tables /\ Own(p) # Own(op[p].kid)
      /\ New(p) # Own(op[p].kid)
  BY <1>2, <1>3, Names
<1>5. op[p].i < op[p].end /\ Dense(Own(p), op[p].end)
      /\ \A va \in Pages : Mapped(Own(op[p].kid), va) =>
              pt[Own(op[p].kid)][va] = pt[Own(p)][va] /\ pt[Own(p)][va].cow
  BY <1>1 DEF Layout
<1>6. op[p].i \in Pages /\ op[p].i + 1 \in 0 .. NPages /\ op[p].end \in 0 .. NPages
  <2>1. op[p].i \in 0 .. NPages /\ op[p].end \in 0 .. NPages
    BY <1>1, Types
  <2> QED
    BY <1>5, <2>1, PagesAssumption DEF Pages
<1>7. Mapped(Own(p), op[p].i)
  BY <1>5, <1>6 DEF Dense
<1>8. OldFrame(p) \in Frames
  BY <1>1, <1>4, <1>6, <1>7, Types DEF OldFrame
<1>9. Counts(Own(p), op[p].i, OldFrame(p))
  <2>1. ~Limbo(p, Own(p), op[p].i)
    BY <1>4 DEF Limbo
  <2>2. \A q \in Procs : ~Limbo(q, Own(p), op[p].i)
    BY <1>1, <1>3, <2>1, OwnLimbo
  <2> QED
    BY <1>7, <2>2 DEF Counts, OldFrame
<1>10. ref[OldFrame(p)] # 0
  BY <1>1, <1>4, <1>6, <1>8, <1>9, RefCounts
<1> QED
  BY <1>1, <1>2, <1>3, <1>4, <1>5, <1>6, <1>7, <1>8, <1>9, <1>10

\* The entry that fork() leaves in both tables.
LEMMA CowEntryFacts ==
  ASSUME NEW e \in PTEs
  PROVE  CowEntry(e) \in PTEs /\ CowEntry(e).pa = e.pa /\ CowEntry(e).cow /\ ~CowEntry(e).w /\ CowEntry(e) # NoPage
<1>1. CowEntry(e) \in PTEs /\ CowEntry(e).pa = e.pa /\ CowEntry(e).cow /\ ~CowEntry(e).w
  BY DEF CowEntry, PTEs
<1>2. CowEntry(e) # NoPage
  BY <1>1, ContentsAssumption DEF PTEs
<1> QED
  BY <1>1, <1>2

\* One page is shared.
LEMMA UvmcopyIInv ==
  ASSUME IInv, NEW p \in Procs, uvmcopy(p)
  PROVE  IInv'
<1> DEFINE e == CowEntry(pt[Own(p)][op[p].i])
           k == op[p].kid
           va0 == op[p].i
<1>0. /\ op[p].pc = "uvmcopy" /\ op[p].i < op[p].end /\ UNCHANGED <<load, ref, free, content, panicked>>
      /\ pt' = [pt EXCEPT ![Own(p)][va0] = e, ![Own(k)][va0] = e]
      /\ op' = [op EXCEPT ![p] = [op[p] EXCEPT !.pc = "incref"]]
  BY DEF uvmcopy, Is, Goto
<1>1. /\ TypeOK /\ Kids /\ Alive(p) /\ Layout(p) /\ LayoutInv
      /\ RefsInv /\ HandsInv /\ Exclusive /\ load \in Loads
      /\ k \in Procs /\ k # NoPage /\ k # p
      /\ Own(p) \in Tables /\ Own(k) \in Tables /\ Own(p) # Own(k)
      /\ Own(p) \in Mine(p) /\ Own(k) \in Mine(p) /\ New(p) # Own(k)
      /\ va0 \in Pages /\ va0 < op[p].end /\ va0 + 1 \in 0 .. NPages
      /\ Dense(Own(p), op[p].end) /\ Mapped(Own(p), va0) /\ OldFrame(p) \in Frames
      /\ \A va \in Pages : Mapped(Own(k), va) =>
           pt[Own(k)][va] = pt[Own(p)][va] /\ pt[Own(p)][va].cow
  <2>1. op[p].pc = "uvmcopy" /\ op[p].i < op[p].end
    BY <1>0
  <2> QED
    BY <2>1, CopyFacts
<1>2. /\ op'[p].pc = "incref" /\ op'[p].i = va0 /\ op'[p].end = op[p].end /\ op'[p].kid = k
      /\ \A q \in Procs : q # p => op'[q] = op[q]
      /\ op' \in [Procs -> OpSet]
  BY <1>0, <1>1, OpStep DEF PCs
<1>3. e \in PTEs /\ e.pa = OldFrame(p) /\ e.cow /\ e # NoPage
  <2>1. pt[Own(p)][va0] \in PTEs
    BY <1>1, Types
  <2> QED
    BY <2>1, CowEntryFacts DEF OldFrame
<1>4. Dense(Own(k), va0) /\ ~Mapped(Own(k), va0)
  <2>1. Dense(Own(k), va0)
    BY <1>0, <1>1 DEF Layout
  <2>2. ~(va0 < va0)
    BY <1>1 DEF Pages
  <2> QED
    BY <1>1, <2>1, <2>2 DEF Dense
<1>5. OldFrame(p) = pt[Own(p)][va0].pa
  BY DEF OldFrame
<1> HIDE DEF e, k, va0
<1>6. /\ pt' \in [Tables -> [Pages -> PTEs \cup {NoPage}]]
      /\ \A s \in Tables : s # Own(p) /\ s # Own(k) => pt'[s] = pt[s]
      /\ \A wa \in Pages : pt'[Own(p)][wa] = IF wa = va0 THEN e ELSE pt[Own(p)][wa]
      /\ \A wa \in Pages : pt'[Own(k)][wa] = IF wa = va0 THEN e ELSE pt[Own(k)][wa]
  <2>1. pt \in [Tables -> [Pages -> PTEs \cup {NoPage}]]
        /\ pt[Own(p)] \in [Pages -> PTEs \cup {NoPage}] /\ pt[Own(k)] \in [Pages -> PTEs \cup {NoPage}]
    BY <1>1 DEF TypeOK
  <2>2. /\ [pt[Own(p)] EXCEPT ![va0] = e] \in [Pages -> PTEs \cup {NoPage}]
        /\ [pt[Own(k)] EXCEPT ![va0] = e] \in [Pages -> PTEs \cup {NoPage}]
    BY <1>1, <1>3, <2>1
  <2>3. pt' = [pt EXCEPT ![Own(p)] = [pt[Own(p)] EXCEPT ![va0] = e],
                         ![Own(k)] = [pt[Own(k)] EXCEPT ![va0] = e]]
    BY <1>0, <1>1, <2>1
  <2>4. /\ pt'[Own(p)] = [pt[Own(p)] EXCEPT ![va0] = e]
        /\ pt'[Own(k)] = [pt[Own(k)] EXCEPT ![va0] = e]
        /\ \A s \in Tables : s # Own(p) /\ s # Own(k) => pt'[s] = pt[s]
    BY <1>1, <2>1, <2>3
  <2>5. pt' \in [Tables -> [Pages -> PTEs \cup {NoPage}]]
    BY <1>1, <2>1, <2>2, <2>3
  <2> QED
    BY <1>1, <2>1, <2>4, <2>5
<1>7. TypeOK'
  BY <1>0, <1>1, <1>2, <1>6 DEF TypeOK, OpSet
<1>8. \A s \in Tables, wa \in Pages :
        /\ Mapped(s, wa)' <=> Mapped(s, wa) \/ (s = Own(k) /\ wa = va0)
        /\ ~(s \in {Own(p), Own(k)} /\ wa = va0) => pt'[s][wa] = pt[s][wa]
        /\ s \in {Own(p), Own(k)} /\ wa = va0 => pt'[s][wa] = e
  BY <1>1, <1>3, <1>6 DEF Mapped
<1>9. \A t \in Tables : t \notin Mine(p) => pt'[t] = pt[t]
  BY <1>1, <1>6
<1>10. KidsOf(p)' /\ CopiesOf(p)'
  BY <1>1, <1>2 DEF KidsOf, CopiesOf
<1>11. Layout(p)'
  <2>1. \A wa \in Pages : pt'[Own(p)][wa] # NoPage <=> wa < op[p].end
    BY <1>1, <1>3, <1>6 DEF Dense, Mapped
  <2>2. \A wa \in Pages : pt'[Own(k)][wa] # NoPage <=> wa < va0 + 1
    <3>1. \A va \in Pages : va < va0 + 1 <=> va < va0 \/ va = va0
      BY <1>1 DEF Pages
    <3> QED
      BY <1>3, <1>4, <1>6, <3>1 DEF Dense, Mapped
  <2>3. \A wa \in Pages : pt'[Own(k)][wa] # NoPage =>
          pt'[Own(k)][wa] = pt'[Own(p)][wa] /\ pt'[Own(p)][wa].cow
    BY <1>1, <1>3, <1>6 DEF Mapped
  <2>4. Dense(New(p), 0)'
    BY <1>0, <1>1, <1>6, Names DEF Layout, Dense, Mapped
  <2> QED
    BY <1>1, <1>2, <2>1, <2>2, <2>3, <2>4 DEF Layout, Dense, Mapped, Faulting
<1>12. Kids' /\ LayoutInv' /\ Copies'
  <2>1. op'[p].kid = op[p].kid
    BY <1>2 DEF k
  <2> QED
    BY <1>0, <1>1, <1>2, <1>9, <1>10, <1>11, <2>1, StepKept
<1>13. \A q \in Procs : \A t, wa :
         /\ q # p => (Limbo(q, t, wa)' <=> Limbo(q, t, wa))
         /\ Limbo(p, t, wa)' <=> t = Own(k) /\ wa = va0
         /\ ~Limbo(p, t, wa)
  BY <1>0, <1>2 DEF Limbo
<1>14. RefsInv'
  <2>1. \A t \in Tables, wa \in Pages, f \in Frames : Counts(t, wa, f)' <=> Counts(t, wa, f)
    <3> SUFFICES ASSUME NEW t \in Tables, NEW wa \in Pages, NEW f \in Frames
                 PROVE  Counts(t, wa, f)' <=> Counts(t, wa, f)
      OBVIOUS
    <3>1. CASE t = Own(k) /\ wa = va0
      BY <1>4, <1>13, <3>1 DEF Counts
    <3>2. CASE t = Own(p) /\ wa = va0
      BY <1>1, <1>3, <1>5, <1>8, <1>13, <3>2 DEF Counts
    <3>3. CASE ~(t \in {Own(p), Own(k)} /\ wa = va0)
      BY <1>8, <1>13, <3>3 DEF Counts
    <3> QED
      BY <3>1, <3>2, <3>3
  <2> QED
    BY <1>0, <1>1, <2>1, CountsSame
<1>15. HandsInv'
  <2>1. \A f : ~Holds(p, f)' /\ ~Holds(p, f)
    BY <1>0, <1>2 DEF Holds
  <2> QED
    BY <1>0, <1>1, <1>2, <1>9, <2>1, HandsMove
<1>16. Exclusive'
  <2>1. \A s, wa : DroppedAt(s, wa)' <=> DroppedAt(s, wa)
    BY <1>0, <1>2 DEF DroppedAt
  <2>2. ~DroppedAt(Own(p), va0)
    <3>1. \A q \in Procs : Own(q) = Own(p) => q = p
      BY Names
    <3> QED
      BY <1>0, <3>1 DEF DroppedAt
  <2> SUFFICES ASSUME NEW s \in Tables, NEW t \in Tables, NEW xa \in Pages, NEW wa \in Pages,
                      Mapped(t, xa)', ~pt'[t][xa].cow,
                      Mapped(s, wa)', pt'[s][wa].pa = pt'[t][xa].pa, ~DroppedAt(s, wa)'
               PROVE  s = t /\ wa = xa
    BY DEF Exclusive
  <2>3. ~(t \in {Own(p), Own(k)} /\ xa = va0)
    BY <1>3, <1>8
  <2>4. Mapped(t, xa) /\ pt'[t][xa] = pt[t][xa]
    BY <1>8, <2>3
  <2>5. CASE s \in {Own(p), Own(k)} /\ wa = va0
    <3>1. pt[Own(p)][va0].pa = pt[t][xa].pa
      BY <1>3, <1>5, <1>8, <2>4, <2>5
    <3>2. t = Own(p) /\ xa = va0
      BY <1>1, <2>2, <2>4, <3>1 DEF Exclusive
    <3> QED
      BY <2>3, <3>2
  <2>6. CASE ~(s \in {Own(p), Own(k)} /\ wa = va0)
    <3>1. Mapped(s, wa) /\ pt[s][wa].pa = pt[t][xa].pa /\ ~DroppedAt(s, wa) /\ ~pt[t][xa].cow
      BY <1>8, <2>1, <2>4, <2>6
    <3> QED
      BY <1>1, <2>4, <3>1 DEF Exclusive
  <2> QED
    BY <2>5, <2>6
<1> QED
  BY <1>0, <1>1, <1>7, <1>12, <1>14, <1>15, <1>16 DEF IInv

\* mappages() fails: what was shared is unmapped again.
LEMMA UvmcopyFailsIInv ==
  ASSUME IInv, NEW p \in Procs, UvmcopyFails(p)
  PROVE  IInv'
<1> DEFINE e == CowEntry(pt[Own(p)][op[p].i])
           k == op[p].kid
           va0 == op[p].i
           o == [At("unmap") EXCEPT !.t = Own(k), !.i = 0, !.end = va0, !.kid = k]
<1>0. /\ op[p].pc = "uvmcopy" /\ op[p].i < op[p].end /\ UNCHANGED <<load, ref, free, content, panicked>>
      /\ pt' = [pt EXCEPT ![Own(p)][va0] = e]
      /\ op' = [op EXCEPT ![p] = o]
  BY DEF UvmcopyFails, Is, Goto, Unmap
<1>1. /\ TypeOK /\ Kids /\ Alive(p) /\ Layout(p) /\ LayoutInv
      /\ RefsInv /\ HandsInv /\ Exclusive /\ load \in Loads
      /\ k \in Procs /\ k # NoPage /\ k # p
      /\ Own(p) \in Tables /\ Own(k) \in Tables /\ Own(p) # Own(k)
      /\ Own(p) \in Mine(p) /\ Own(k) \in Mine(p) /\ New(p) # Own(k)
      /\ va0 \in Pages /\ va0 < op[p].end /\ va0 \in 0 .. NPages /\ op[p].end \in 0 .. NPages
      /\ Dense(Own(p), op[p].end) /\ Mapped(Own(p), va0)
  <2>1. op[p].pc = "uvmcopy" /\ op[p].i < op[p].end
    BY <1>0
  <2>2. TypeOK => op[p].i \in 0 .. NPages
    BY Types
  <2> QED
    BY <2>1, <2>2, CopyFacts
<1>2. o.pc = "unmap" /\ o.t = Own(k) /\ o.i = 0 /\ o.end = va0 /\ o.kid = k
  BY DEF At, Idle
<1>3. o \in OpSet
  <2>1. At("unmap") \in OpSet /\ 0 \in 0 .. NPages
    BY AtFields, PagesAssumption DEF PCs
  <2> QED
    BY <1>1, <2>1 DEF OpSet
<1> HIDE DEF o
<1>4. op'[p] = o /\ op' \in [Procs -> OpSet] /\ \A q \in Procs : q # p => op'[q] = op[q]
  BY <1>0, <1>1, <1>3, OpMove
<1>5. e \in PTEs /\ e.pa = pt[Own(p)][va0].pa /\ e.cow /\ e # NoPage
  <2>1. pt[Own(p)][va0] \in PTEs
    BY <1>1, Types
  <2> QED
    BY <2>1, CowEntryFacts
<1>6. /\ pt' \in [Tables -> [Pages -> PTEs \cup {NoPage}]]
      /\ \A s \in Tables : s # Own(p) => pt'[s] = pt[s]
      /\ \A wa \in Pages : pt'[Own(p)][wa] = IF wa = va0 THEN e ELSE pt[Own(p)][wa]
  <2> HIDE DEF e
  <2> QED
    BY <1>0, <1>1, <1>5, PtWrite, ZenonT(60)
<1>7. \A va \in Pages : pt[Own(k)][va] # NoPage <=> va < va0
  BY <1>0, <1>1 DEF Layout, Dense, Mapped
<1>8. Dense(New(p), 0)
  BY <1>0, <1>1 DEF Layout
<1> HIDE DEF e, k, va0
<1>9. TypeOK'
  BY <1>0, <1>1, <1>4, <1>6 DEF TypeOK, OpSet
<1>10. \A s \in Tables, wa \in Pages :
        /\ Mapped(s, wa)' <=> Mapped(s, wa)
        /\ Mapped(s, wa) => pt'[s][wa].pa = pt[s][wa].pa
        /\ ~(s = Own(p) /\ wa = va0) => pt'[s][wa] = pt[s][wa]
        /\ (s = Own(p) /\ wa = va0) => pt'[s][wa].cow
  BY <1>1, <1>5, <1>6 DEF Mapped
<1>11. \A t \in Tables : t \notin Mine(p) => pt'[t] = pt[t]
  BY <1>1, <1>6
<1>12. KidsOf(p)' /\ CopiesOf(p)'
  BY <1>1, <1>2, <1>4 DEF KidsOf, CopiesOf
<1>13. Layout(p)'
  <2>1. Sized(Own(p))' /\ Dense(New(p), 0)'
    <3>1. \A va \in Pages : Mapped(Own(p), va)' <=> va < op[p].end
      BY <1>1, <1>10 DEF Dense
    <3>2. Sized(Own(p))'
      BY <1>1, <3>1 DEF Sized, Dense
    <3> QED
      BY <1>8, <1>10, <3>2, Names DEF Dense
  <2>2. 0 \in 0 .. 0 /\ 0 <= va0 /\ \A va \in Pages : 0 <= va
    BY <1>1 DEF Pages
  <2>3. \A va \in Pages : pt'[Own(k)][va] # NoPage <=>
          (va < 0 /\ Own(k) = Own(p)) \/ (0 <= va /\ va < va0)
    BY <1>1, <1>6, <1>7, <2>2
  <2>4. \E n \in 0 .. 0 : \A va \in Pages : pt'[Own(k)][va] # NoPage <=>
          (va < n /\ Own(k) = Own(p)) \/ (0 <= va /\ va < va0)
    BY <2>2, <2>3
  <2> QED
    BY <1>2, <1>4, <2>1, <2>2, <2>4 DEF Layout, Mapped, Faulting
<1>14. Kids' /\ LayoutInv' /\ Copies'
  <2>1. op'[p].kid = op[p].kid
    BY <1>2, <1>4 DEF k
  <2> QED
    BY <1>0, <1>1, <1>4, <1>11, <1>12, <1>13, <2>1, StepKept
<1>15. RefsInv'
  <2>1. \A q \in Procs : \A t, wa : Limbo(q, t, wa)' <=> Limbo(q, t, wa)
    BY <1>0, <1>2, <1>4 DEF Limbo
  <2>2. \A t \in Tables, wa \in Pages, f \in Frames : Counts(t, wa, f)' <=> Counts(t, wa, f)
    BY <1>10, <2>1 DEF Counts
  <2> QED
    BY <1>0, <1>1, <2>2, CountsSame
<1>16. HandsInv'
  <2>1. \A f : ~Holds(p, f)' /\ ~Holds(p, f)
    BY <1>0, <1>2, <1>4 DEF Holds
  <2> QED
    BY <1>0, <1>1, <1>2, <1>4, <1>11, <2>1, HandsMove
<1>17. Exclusive'
  <2>1. \A s, wa : DroppedAt(s, wa)' <=> DroppedAt(s, wa)
    BY <1>0, <1>2, <1>4 DEF DroppedAt
  <2> SUFFICES ASSUME NEW s \in Tables, NEW t \in Tables, NEW xa \in Pages, NEW wa \in Pages,
                      Mapped(t, xa)', ~pt'[t][xa].cow,
                      Mapped(s, wa)', pt'[s][wa].pa = pt'[t][xa].pa, ~DroppedAt(s, wa)'
               PROVE  s = t /\ wa = xa
    BY DEF Exclusive
  <2>2. Mapped(t, xa) /\ ~pt[t][xa].cow /\ Mapped(s, wa) /\ pt[s][wa].pa = pt[t][xa].pa
    BY <1>10
  <2> QED
    BY <1>1, <2>1, <2>2 DEF Exclusive
<1> QED
  BY <1>0, <1>1, <1>9, <1>14, <1>15, <1>16, <1>17 DEF IInv

\* The child's reference is counted.
LEMMA UvmcopyIncrefIInv ==
  ASSUME IInv, NEW p \in Procs, UvmcopyIncref(p)
  PROVE  IInv'
<1> DEFINE g == OldFrame(p)
           k == op[p].kid
           va0 == op[p].i
<1>0. /\ op[p].pc = "incref" /\ UNCHANGED <<load, pt, free, content, panicked>>
      /\ ref' = [ref EXCEPT ![g] = @ + 1]
      /\ op' = [op EXCEPT ![p] = [op[p] EXCEPT !.pc = "uvmcopy", !.i = @ + 1]]
  BY DEF UvmcopyIncref, Is, Goto, Referenced, OldFrame
<1>1. /\ TypeOK /\ Kids /\ Alive(p) /\ Layout(p) /\ LayoutInv
      /\ RefsInv /\ HandsInv /\ Exclusive /\ load \in Loads
      /\ k \in Procs /\ k # NoPage /\ k # p
      /\ Own(k) \in Tables /\ va0 \in Pages /\ va0 < op[p].end /\ va0 + 1 \in 0 .. NPages
      /\ op[p].end \in 0 .. NPages
      /\ g \in Frames /\ ref[g] # 0
  <2>1. op[p].pc = "incref"
    BY <1>0
  <2> QED
    BY <2>1, CopyFacts
<1>2. Mapped(Own(k), va0) /\ pt[Own(k)][va0].pa = g
  <2>1. \A va \in Pages : Mapped(Own(k), va) <=> va < va0 + 1
    BY <1>0, <1>1 DEF Layout, Dense
  <2>2. va0 < va0 + 1
    BY <1>1 DEF Pages
  <2>3. Mapped(Own(k), va0)
    BY <1>1, <2>1, <2>2
  <2> QED
    BY <1>0, <1>1, <2>3 DEF Layout, OldFrame
<1>3. /\ op'[p].pc = "uvmcopy" /\ op'[p].i = va0 + 1 /\ op'[p].end = op[p].end /\ op'[p].kid = k
      /\ op'[p].kid = op[p].kid
      /\ \A q \in Procs : q # p => op'[q] = op[q]
      /\ op' \in [Procs -> OpSet]
  BY <1>0, <1>1, OpNext DEF PCs
<1>4. \A q \in Procs : \A t, wa :
         /\ q # p => (Limbo(q, t, wa)' <=> Limbo(q, t, wa))
         /\ Limbo(p, t, wa) <=> t = Own(k) /\ wa = va0
         /\ ~Limbo(p, t, wa)'
  BY <1>0, <1>3 DEF Limbo
<1>5. \A q \in Procs : q # p => \A wa : ~Limbo(q, Own(k), wa)
  <2> SUFFICES ASSUME NEW q \in Procs, q # p, NEW wa, Limbo(q, Own(k), wa) PROVE FALSE
    OBVIOUS
  <2>1. Own(k) \in Mine(q) /\ Alive(q) /\ Own(k) \in Mine(p)
    BY <1>1, MineOp
  <2> QED
    BY <1>1, <2>1, Separate
<1>6. va0 + 1 <= op[p].end
  BY <1>1 DEF Pages
<1>7. Layout(p)'
  <2>1. Dense(Own(p), op[p].end) /\ Dense(Own(k), va0 + 1) /\ Dense(New(p), 0)
        /\ \A va \in Pages : pt[Own(k)][va] # NoPage => pt[Own(k)][va] = pt[Own(p)][va] /\ pt[Own(p)][va].cow
    BY <1>0, <1>1 DEF Layout, Mapped
  <2> HIDE DEF k, va0, g
  <2>2. /\ \A va \in Pages : pt'[Own(p)][va] # NoPage <=> va < op[p].end
        /\ \A va \in Pages : pt'[Own(k)][va] # NoPage <=> va < va0 + 1
        /\ \A va \in Pages : pt'[New(p)][va] # NoPage <=> va < 0
    BY <1>0, <2>1 DEF Dense, Mapped
  <2> QED
    BY <1>0, <1>3, <1>6, <2>1, <2>2 DEF Layout, Dense, Mapped, Faulting
<1> HIDE DEF g, k, va0
<1>8. /\ ref' \in [Frames -> Nat] /\ ref'[g] = ref[g] + 1 /\ ref'[g] # 0
      /\ \A f \in Frames : f # g => ref'[f] = ref[f]
  BY <1>0, <1>1, RefMore
<1>9. TypeOK'
  BY <1>0, <1>1, <1>3, <1>8 DEF TypeOK, OpSet
<1>10. KidsOf(p)' /\ CopiesOf(p)'
  BY <1>1, <1>3 DEF KidsOf, CopiesOf
<1>11. Kids' /\ LayoutInv' /\ Copies'
  BY <1>0, <1>1, <1>3, <1>7, <1>10, StepKept
<1>12. RefsInv'
  <2>1. ~Counts(Own(k), va0, g)
    BY <1>4 DEF Counts
  <2>2. \A t \in Tables, wa \in Pages, f \in Frames :
          Counts(t, wa, f)' <=> Counts(t, wa, f) \/ (t = Own(k) /\ wa = va0 /\ f = g)
    <3> SUFFICES ASSUME NEW t \in Tables, NEW wa \in Pages, NEW f \in Frames
                 PROVE  Counts(t, wa, f)' <=> Counts(t, wa, f) \/ (t = Own(k) /\ wa = va0 /\ f = g)
      OBVIOUS
    <3>1. CASE t = Own(k) /\ wa = va0
      BY <1>0, <1>2, <1>4, <1>5, <3>1 DEF Counts, Mapped
    <3>2. CASE ~(t = Own(k) /\ wa = va0)
      BY <1>0, <1>4, <3>2 DEF Counts, Mapped
    <3> QED
      BY <3>1, <3>2
  <2> QED
    BY <1>1, <1>8, <2>1, <2>2, CountsMore
<1>13. HandsInv'
  <2>1. \A f : ~Holds(p, f)' /\ ~Holds(p, f)
    BY <1>0, <1>3 DEF Holds
  <2>2. \A f \in Frames : ref'[f] = 0 <=> ref[f] = 0
    BY <1>1, <1>8
  <2> QED
    BY <1>0, <1>1, <1>3, <2>1, <2>2, HandsMove
<1>14. Exclusive'
  <2>1. \A t, va : DroppedAt(t, va) => DroppedAt(t, va)'
    BY <1>0, <1>3 DEF DroppedAt
  <2> QED
    BY <1>0, <1>1, <2>1, ExclusiveSame
<1> QED
  BY <1>0, <1>1, <1>9, <1>11, <1>12, <1>13, <1>14 DEF IInv

-----------------------------------------------------------------------------
(* A child is made, runs, exits and is freed.                              *)

\* The points where a process is in no system call.
Still == {"unused", "used", "user", "zombie"}

\* p takes a child k, or lets it go.
LEMMA KidStep ==
  ASSUME IInv, TypeOK', NEW p \in Procs, Alive(p), NEW k \in Procs, k # p,
         \A q \in Procs : q # p /\ q # k => op'[q] = op[q],
         op[p].pc \in Calm, op'[p].pc \in Calm, op[k].pc \in Still, op'[k].pc \in Still,
         op'[k].kid = NoPage, op'[p].kid \in {NoPage, k}, op'[p].kid = k => op'[k].pc = "used",
         \A q \in Procs : q # p => op[q].kid # k,
         KidsOf(p)', Layout(p)', Layout(k)', CopiesOf(p)',
         UNCHANGED <<load, pt, ref, free, content>>
  PROVE  IInv'
<1>0. TypeOK /\ Kids /\ LayoutInv /\ RefsInv /\ HandsInv /\ Exclusive /\ Copies /\ load \in Loads
  BY DEF IInv
<1>1. LayoutInv'
  <2>1. \A q \in Procs : q # p /\ q # k => Layout(q)'
    BY <1>0 DEF LayoutInv, Layout, Sized, Dense, Mapped, Faulting
  <2> QED
    BY <2>1 DEF LayoutInv
<1>2. Copies'
  <2>1. \A q \in Procs : q # p /\ q # k => CopiesOf(q)'
    BY <1>0 DEF Copies, CopiesOf, Mapped, OldFrame
  <2>2. CopiesOf(k)'
    BY DEF CopiesOf, Still
  <2> QED
    BY <2>1, <2>2 DEF Copies
<1>3. \A q \in Procs : q # p => op[q].kid # p
  BY <1>0, Separate
<1>4. \A q \in Procs : op[q].kid \in Procs \cup {NoPage}
  BY <1>0, Types
<1>5. Kids'
  <2>1. ASSUME NEW q \in Procs, q # p, q # k
        PROVE  /\ op'[q].pc \in {"uvmcopy", "incref"} => op'[q].kid # NoPage
               /\ op'[q].kid # NoPage => /\ op'[q].pc \in {"uvmcopy", "incref", "unmap", "kfree"}
                                         /\ op'[op'[q].kid].pc = "used"
               /\ op'[q].pc \in {"unmap", "kfree"} =>
                    IF op'[q].kid = NoPage THEN op'[q].t \in {Own(q), New(q)} ELSE op'[q].t = Own(op'[q].kid)
               /\ op'[q].pc \in {"uvmalloc", "map"} => op'[q].t \in {Own(q), New(q)}
    BY <1>0, <1>3, <1>4, <2>1 DEF Kids
  <2>2. \A q, r \in Procs : op'[q].kid # NoPage /\ op'[r].kid = op'[q].kid => r = q
    BY <1>0, ContentsAssumption DEF Kids
  <2>3. op'[p].kid # NoPage => op'[op'[p].kid].pc = "used"
    OBVIOUS
  <2>4. op'[k].pc \notin {"uvmcopy", "incref", "unmap", "kfree", "uvmalloc", "map"}
    BY DEF Still
  <2> QED
    BY <2>1, <2>2, <2>3, <2>4 DEF Kids, KidsOf
<1>6. \A q \in Procs : \A t, va : Limbo(q, t, va)' <=> Limbo(q, t, va)
  BY DEF Limbo, Calm, Still
<1>7. RefsInv'
  <2>1. \A t \in Tables, va \in Pages, f \in Frames : Counts(t, va, f)' <=> Counts(t, va, f)
    BY <1>6 DEF Counts, Mapped
  <2> QED
    BY <1>0, <2>1, CountsSame
<1>8. \A q \in Procs : \A f : Holds(q, f)' <=> Holds(q, f)
  BY DEF Holds, Calm, Still, OldFrame
<1>9. HandsInv'
  <2>1. \A q \in Procs : op'[q].pc \in {"copy", "dec", "kfreeold", "set", "map"} => op'[q] = op[q]
    BY DEF Calm, Still
  <2> QED
    BY <1>0, <1>8, <2>1 DEF HandsInv, OldFrame
<1>10. Exclusive'
  <2>1. \A t, va : DroppedAt(t, va) => DroppedAt(t, va)'
    BY DEF DroppedAt, Calm, Still
  <2> QED
    BY <1>0, <2>1, ExclusiveSame
<1> QED
  BY <1>0, <1>1, <1>2, <1>5, <1>7, <1>9, <1>10 DEF IInv

\* fork(): allocproc().
LEMMA ForkIInv ==
  ASSUME IInv, NEW p \in Procs, NEW k \in Procs, fork(p, k)
  PROVE  IInv'
<1> DEFINE o == [At("uvmcopy") EXCEPT !.kid = k, !.end = Size(Own(p))]
<1>0. /\ InUser(p) /\ op[k].pc = "unused" /\ UNCHANGED <<load, pt, ref, free, content, panicked>>
      /\ op' = [op EXCEPT ![k] = At("used"), ![p] = o]
  BY DEF fork
<1>1. /\ TypeOK /\ Alive(p) /\ op[p].pc = "user" /\ op[p].kid = NoPage /\ Kids
      /\ Sized(Own(p)) /\ Dense(New(p), 0) /\ Dense(Own(p), Size(Own(p))) /\ Size(Own(p)) \in 0 .. NPages
  BY <1>0, InUserFacts DEF IInv
<1>2. k # p /\ Layout(k) /\ \A q \in Procs : q # p => op[q].kid # k
  BY <1>0, <1>1, ContentsAssumption DEF IInv, LayoutInv, Kids
<1>3. o.pc = "uvmcopy" /\ o.kid = k /\ o.end = Size(Own(p)) /\ o.i = 0
  BY DEF At, Idle
<1>4. o \in OpSet /\ At("used") \in OpSet
  <2>1. At("uvmcopy") \in OpSet /\ At("used") \in OpSet
    BY AtFields DEF PCs
  <2> QED
    BY <1>1, <2>1 DEF OpSet
<1>5. At("used").pc = "used" /\ At("used").kid = NoPage
  BY AtFields
<1> HIDE DEF o
<1>6. /\ op'[p] = o /\ op'[k] = At("used") /\ op' \in [Procs -> OpSet]
      /\ \A q \in Procs : q # p /\ q # k => op'[q] = op[q]
  <2>1. op \in [Procs -> OpSet]
    BY <1>1 DEF TypeOK, OpSet
  <2> QED
    BY <1>0, <1>2, <1>4, <2>1
<1>7. TypeOK'
  BY <1>0, <1>1, <1>6 DEF TypeOK, OpSet
<1>8. KidsOf(p)' /\ CopiesOf(p)'
  BY <1>3, <1>6, ContentsAssumption DEF KidsOf, CopiesOf
<1>9. Layout(k)'
  BY <1>0, <1>2, <1>5, <1>6 DEF Layout, Dense, Mapped, Faulting
<1>10. Layout(p)'
  <2>1. Dense(Own(k), 0)
    BY <1>0, <1>2 DEF Layout
  <2>2. \A va \in Pages : ~Mapped(Own(k), va)
    BY <2>1 DEF Dense, Pages
  <2>3. 0 <= Size(Own(p))
    BY <1>1
  <2> QED
    BY <1>0, <1>1, <1>3, <1>6, <2>1, <2>2, <2>3 DEF Layout, Dense, Mapped, Faulting
<1> QED
  BY <1>0, <1>1, <1>2, <1>3, <1>5, <1>6, <1>7, <1>8, <1>9, <1>10, KidStep DEF Calm, Still

\* wait(): freeproc() of a zombie begins.
LEMMA WaitIInv ==
  ASSUME IInv, NEW p \in Procs, NEW k \in Procs, wait(p, k)
  PROVE  IInv'
<1> DEFINE o == [At("unmap") EXCEPT !.t = Own(k), !.end = Size(Own(k)), !.kid = k]
<1>0. /\ InUser(p) /\ op[k].pc = "zombie" /\ UNCHANGED <<load, pt, ref, free, content, panicked>>
      /\ op' = [op EXCEPT ![k] = At("used"), ![p] = o]
  BY DEF wait
<1>1. /\ TypeOK /\ Alive(p) /\ op[p].pc = "user" /\ op[p].kid = NoPage /\ Kids
      /\ Sized(Own(p)) /\ Dense(New(p), 0)
  BY <1>0, InUserFacts DEF IInv
<1>2. k # p /\ Layout(k) /\ \A q \in Procs : q # p => op[q].kid # k
  BY <1>0, <1>1, ContentsAssumption DEF IInv, LayoutInv, Kids
<1>3. Dense(Own(k), Size(Own(k))) /\ Size(Own(k)) \in 0 .. NPages
  <2>1. PICK n \in 0 .. NPages : Dense(Own(k), n)
    BY <1>0, <1>2 DEF Layout, Sized
  <2>2. Size(Own(k)) = n
    BY <2>1, DenseSize
  <2> QED
    BY <2>1, <2>2
<1>4. o.pc = "unmap" /\ o.kid = k /\ o.end = Size(Own(k)) /\ o.i = 0 /\ o.t = Own(k)
  BY DEF At, Idle
<1>5. o \in OpSet /\ At("used") \in OpSet
  <2>1. At("unmap") \in OpSet /\ At("used") \in OpSet /\ Own(k) \in Tables
    BY AtFields, Names DEF PCs
  <2> QED
    BY <1>3, <2>1 DEF OpSet
<1>6. At("used").pc = "used" /\ At("used").kid = NoPage
  BY AtFields
<1> HIDE DEF o
<1>7. /\ op'[p] = o /\ op'[k] = At("used") /\ op' \in [Procs -> OpSet]
      /\ \A q \in Procs : q # p /\ q # k => op'[q] = op[q]
  <2>1. op \in [Procs -> OpSet]
    BY <1>1 DEF TypeOK, OpSet
  <2> QED
    BY <1>0, <1>2, <1>5, <2>1
<1>8. TypeOK'
  BY <1>0, <1>1, <1>7 DEF TypeOK, OpSet
<1>9. KidsOf(p)' /\ CopiesOf(p)'
  BY <1>4, <1>7, ContentsAssumption DEF KidsOf, CopiesOf
<1>10. Layout(k)'
  BY <1>0, <1>2, <1>6, <1>7 DEF Layout, Dense, Mapped, Faulting
<1>11. Layout(p)'
  <2>1. 0 \in 0 .. 0 /\ 0 <= Size(Own(k)) /\ \A va \in Pages : 0 <= va
    BY <1>3 DEF Pages
  <2>2. \E n \in 0 .. 0 : \A va \in Pages : pt'[Own(k)][va] # NoPage <=>
          (va < n /\ Own(k) = Own(p)) \/ (0 <= va /\ va < Size(Own(k)))
    BY <1>0, <1>2, <1>3, <2>1, Names DEF Dense, Mapped
  <2>3. Sized(Own(p))' /\ Dense(New(p), 0)'
    BY <1>0, <1>1 DEF Sized, Dense, Mapped
  <2> QED
    BY <1>4, <1>7, <2>1, <2>2, <2>3 DEF Layout, Mapped, Faulting
<1> QED
  BY <1>0, <1>1, <1>2, <1>4, <1>6, <1>7, <1>8, <1>9, <1>10, <1>11, KidStep DEF Calm, Still

\* fork() returns.
LEMMA ForkDoneIInv ==
  ASSUME IInv, NEW p \in Procs, ForkDone(p)
  PROVE  IInv'
<1>0. /\ op[p].pc = "uvmcopy" /\ op[p].i = op[p].end /\ UNCHANGED <<load, pt, ref, free, content, panicked>>
      /\ op' = [op EXCEPT ![p] = Idle, ![op[p].kid] = Idle]
  BY DEF ForkDone, Is
<1>1. TypeOK /\ Kids /\ Alive(p) /\ Layout(p) /\ op[p].i \in 0 .. NPages
  BY <1>0, Types DEF IInv, LayoutInv, Alive
<1>2. PICK k \in Procs : k = op[p].kid
  <2>1. op[p].kid \in Procs \cup {NoPage}
    BY <1>1, Types
  <2> QED
    BY <1>0, <1>1, <2>1 DEF Kids
<1>3. k # NoPage /\ k # p /\ op[k].pc = "used" /\ \A q \in Procs : q # p => op[q].kid # k
  BY <1>0, <1>1, <1>2 DEF Kids
<1>4. Layout(k) /\ Dense(Own(p), op[p].i) /\ Dense(Own(k), op[p].i) /\ Dense(New(p), 0) /\ Dense(New(k), 0)
  <2>1. Layout(k)
    BY DEF IInv, LayoutInv
  <2> QED
    BY <1>0, <1>1, <1>2, <1>3, <2>1 DEF Layout
<1>5. Idle \in OpSet /\ Idle.pc = "user" /\ Idle.kid = NoPage
  BY AtFields DEF PCs
<1>6. /\ op'[p] = Idle /\ op'[k] = Idle /\ op' \in [Procs -> OpSet]
      /\ \A q \in Procs : q # p /\ q # k => op'[q] = op[q]
  <2>1. op \in [Procs -> OpSet]
    BY <1>1 DEF TypeOK, OpSet
  <2> QED
    BY <1>0, <1>2, <1>3, <1>5, <2>1
<1>7. TypeOK'
  BY <1>0, <1>1, <1>6 DEF TypeOK, OpSet
<1>8. KidsOf(p)' /\ CopiesOf(p)'
  BY <1>5, <1>6 DEF KidsOf, CopiesOf
<1>9. Sized(Own(p)) /\ Sized(Own(k))
  BY <1>1, <1>4 DEF Sized
<1>10. Sized(Own(p))' /\ Sized(Own(k))' /\ Dense(New(p), 0)' /\ Dense(New(k), 0)'
  BY <1>0, <1>4, <1>9 DEF Sized, Dense, Mapped
<1>11. Layout(p)' /\ Layout(k)'
  BY <1>5, <1>6, <1>10 DEF Layout, Faulting
<1> QED
  BY <1>0, <1>1, <1>3, <1>5, <1>6, <1>7, <1>8, <1>11, KidStep DEF Calm, Still

\* uvmunmap() and freeproc() are done.
LEMMA UnmapDoneIInv ==
  ASSUME IInv, NEW p \in Procs, UnmapDone(p)
  PROVE  IInv'
<1>0. /\ op[p].pc = "unmap" /\ op[p].i = op[p].end /\ UNCHANGED <<load, pt, ref, free, content, panicked>>
      /\ op' = [q \in Procs |-> IF q = p THEN Idle
                                ELSE IF q = op[p].kid THEN At("unused") ELSE op[q]]
  BY DEF UnmapDone, Is
<1>1. /\ TypeOK /\ Kids /\ Alive(p) /\ Layout(p) /\ op[p].i \in 0 .. NPages
      /\ op[p].kid \in Procs \cup {NoPage}
  BY <1>0, Types DEF IInv, LayoutInv, Alive
<1>2. /\ Idle \in OpSet /\ Idle.pc = "user" /\ Idle.kid = NoPage
      /\ At("unused") \in OpSet /\ At("unused").pc = "unused" /\ At("unused").kid = NoPage
  BY AtFields DEF PCs
<1>3. /\ op'[p] = Idle /\ op' \in [Procs -> OpSet]
      /\ \A q \in Procs : q # p /\ q # op[p].kid => op'[q] = op[q]
      /\ \A q \in Procs : q # p /\ q = op[p].kid => op'[q] = At("unused")
  <2>1. op \in [Procs -> OpSet]
    BY <1>1 DEF TypeOK, OpSet
  <2> QED
    BY <1>0, <1>2, <2>1
<1>4. TypeOK'
  BY <1>0, <1>1, <1>3 DEF TypeOK, OpSet
<1>5. KidsOf(p)' /\ CopiesOf(p)'
  BY <1>2, <1>3 DEF KidsOf, CopiesOf
<1>6. PICK n \in 0 .. op[p].i : \A va \in Pages :
        Mapped(op[p].t, va) <=> (va < n /\ op[p].t = Own(p))
  <2>1. PICK n \in 0 .. op[p].i : \A va \in Pages :
          Mapped(op[p].t, va) <=> (va < n /\ op[p].t = Own(p)) \/ (op[p].i <= va /\ va < op[p].end)
    BY <1>0, <1>1 DEF Layout
  <2>2. \A va \in Pages : ~(op[p].i <= va /\ va < op[p].end)
    BY <1>0, <1>1 DEF Pages
  <2> QED
    BY <2>1, <2>2
<1>7. Sized(Own(p)) /\ Dense(New(p), 0)
  <2>1. n \in 0 .. NPages
    BY <1>1, PagesAssumption
  <2>2. op[p].t # Own(p) => \A va \in Pages : ~Mapped(op[p].t, va) /\ ~(va < 0)
    BY <1>6 DEF Pages
  <2>3. op[p].t = Own(p) => Sized(Own(p))
    BY <1>6, <2>1 DEF Sized, Dense
  <2>4. op[p].t # Own(p) => Sized(Own(p))
    BY <1>0, <1>1 DEF Layout
  <2>5. op[p].t = New(p) => Dense(New(p), 0)
    BY <2>2, Names DEF Dense
  <2>6. op[p].t # New(p) => Dense(New(p), 0)
    BY <1>0, <1>1 DEF Layout
  <2> QED
    BY <2>3, <2>4, <2>5, <2>6
<1>8. Layout(p)'
  <2>1. Sized(Own(p))' /\ Dense(New(p), 0)'
    BY <1>0, <1>7 DEF Sized, Dense, Mapped
  <2> QED
    BY <1>2, <1>3, <2>1 DEF Layout, Faulting
<1>9. CASE op[p].kid = NoPage
  <2>1. \A q \in Procs : q # p => op'[q] = op[q]
    BY <1>3, <1>9, ContentsAssumption
  <2> QED
    BY <1>0, <1>1, <1>2, <1>3, <1>4, <1>5, <1>8, <2>1, CalmStep DEF Calm
<1>10. CASE op[p].kid # NoPage
  <2>1. PICK k \in Procs : k = op[p].kid
    BY <1>1, <1>10
  <2>2. k # p /\ op[k].pc = "used" /\ op[p].t = Own(k) /\ \A q \in Procs : q # p => op[q].kid # k
    BY <1>0, <1>1, <1>10, <2>1 DEF Kids
  <2>3. Layout(k)
    BY DEF IInv, LayoutInv
  <2>4. Layout(k)'
    <3>1. Dense(Own(k), 0)
      <4>1. Own(k) # Own(p) /\ \A va \in Pages : ~(va < 0)
        BY <2>2, Names DEF Pages
      <4> QED
        BY <1>6, <2>2, <4>1 DEF Dense
    <3>2. Dense(New(k), 0)
      BY <2>2, <2>3 DEF Layout
    <3>3. Dense(Own(k), 0)' /\ Dense(New(k), 0)' /\ op'[k].pc = "unused"
      BY <1>0, <1>2, <1>3, <2>1, <2>2, <3>1, <3>2 DEF Dense, Mapped
    <3> QED
      BY <3>3 DEF Layout, Faulting
  <2> QED
    <3>1. op'[k].pc \in Still /\ op'[k].kid = NoPage /\ op[k].pc \in Still
      BY <1>2, <1>3, <2>1, <2>2 DEF Still
    <3>2. op[p].pc \in Calm /\ op'[p].pc \in Calm /\ op'[p].kid = NoPage /\ k # NoPage
      BY <1>0, <1>2, <1>3, ContentsAssumption DEF Calm
    <3>3. \A q \in Procs : q # p /\ q # k => op'[q] = op[q]
      BY <1>3, <2>1
    <3> QED
      BY <1>0, <1>1, <1>4, <1>5, <1>8, <2>2, <2>4, <3>1, <3>2, <3>3, KidStep
<1> QED
  BY <1>9, <1>10

-----------------------------------------------------------------------------
(* growproc() and exec() end.                                              *)

\* A bijection keeps the cardinality.
LEMMA SameSize ==
  ASSUME NEW S, NEW T, IsFiniteSet(S), NEW h \in [S -> T],
         \A x, y \in S : h[x] = h[y] => x = y, \A z \in T : \E x \in S : h[x] = z
  PROVE  IsFiniteSet(T) /\ Cardinality(T) = Cardinality(S)
<1>1. h \in Bijection(S, T)
  BY DEF Bijection, Injection, Surjection, IsInjective
<1> QED
  BY <1>1, FS_Bijection DEF ExistsBijection

\* The other table of p.
Swap(p, t) == IF t = Own(p) THEN New(p) ELSE IF t = New(p) THEN Own(p) ELSE t

LEMMA UvmallocDoneIInv ==
  ASSUME IInv, NEW p \in Procs, UvmallocDone(p)
  PROVE  IInv'
<1>0. /\ op[p].pc = "uvmalloc" /\ op[p].i = op[p].end /\ UNCHANGED <<load, ref, free, content, panicked>>
  BY DEF UvmallocDone, Is
<1>1. /\ TypeOK /\ Kids /\ Alive(p) /\ Layout(p) /\ LayoutInv /\ op[p].kid = NoPage
      /\ RefsInv /\ HandsInv /\ Exclusive /\ load \in Loads
      /\ op[p].t \in {Own(p), New(p)} /\ op[p].i \in 0 .. NPages
      /\ Own(p) \in Tables /\ New(p) \in Tables /\ Own(p) # New(p)
  BY <1>0, Types, Names DEF IInv, LayoutInv, Alive, Kids
<1>2. CASE op[p].t = Own(p)
  <2>1. op' = [op EXCEPT ![p] = Idle] /\ pt' = pt
    BY <1>2 DEF UvmallocDone, Goto
  <2>2. /\ op'[p].pc = "user" /\ op'[p].kid = NoPage
        /\ \A q \in Procs : q # p => op'[q] = op[q]
        /\ op' \in [Procs -> OpSet]
    BY <1>1, <2>1, OpMove, AtFields, ZenonT(60) DEF PCs
  <2>3. TypeOK'
    BY <1>0, <1>1, <2>1, <2>2 DEF TypeOK, OpSet
  <2>4. Dense(Own(p), op[p].i) /\ Dense(New(p), 0)
    BY <1>0, <1>1, <1>2 DEF Layout
  <2>5. Sized(Own(p))
    BY <1>1, <2>4 DEF Sized
  <2>6. KidsOf(p)' /\ CopiesOf(p)'
    BY <2>2 DEF KidsOf, CopiesOf
  <2>7. Layout(p)'
    BY <2>1, <2>2, <2>4, <2>5 DEF Layout, Dense, Sized, Mapped, Faulting
  <2> QED
    BY <1>0, <1>1, <2>1, <2>2, <2>3, <2>6, <2>7, CalmStep DEF Calm
<1>3. CASE op[p].t # Own(p)
  <2> DEFINE n == Size(Own(p))
             o == [At("unmap") EXCEPT !.t = New(p), !.i = 0, !.end = n, !.kid = NoPage]
  <2>1. /\ pt' = [pt EXCEPT ![Own(p)] = pt[New(p)], ![New(p)] = pt[Own(p)]]
        /\ op' = [op EXCEPT ![p] = o]
    BY <1>3 DEF UvmallocDone, Unmap, Goto
  <2>2. op[p].t = New(p) /\ Dense(New(p), op[p].i) /\ Sized(Own(p))
    BY <1>0, <1>1, <1>3 DEF Layout
  <2>3. Dense(Own(p), n) /\ n \in 0 .. NPages
    <3>1. PICK m \in 0 .. NPages : Dense(Own(p), m)
      BY <2>2 DEF Sized
    <3>2. n = m
      BY <3>1, DenseSize
    <3> QED
      BY <3>1, <3>2
  <2>4. o.pc = "unmap" /\ o.t = New(p) /\ o.i = 0 /\ o.end = n /\ o.kid = NoPage
    BY DEF At, Idle
  <2>5. o \in OpSet
    <3>1. At("unmap") \in OpSet /\ 0 \in 0 .. NPages
      BY AtFields, PagesAssumption DEF PCs
    <3> QED
      BY <1>1, <2>3, <3>1 DEF OpSet
  <2> HIDE DEF o, n
  <2>6. op'[p] = o /\ op' \in [Procs -> OpSet] /\ \A q \in Procs : q # p => op'[q] = op[q]
    BY <1>1, <2>1, <2>5, OpMove
  <2>7. /\ pt' \in [Tables -> [Pages -> PTEs \cup {NoPage}]]
        /\ pt'[Own(p)] = pt[New(p)] /\ pt'[New(p)] = pt[Own(p)]
        /\ \A s \in Tables : s # Own(p) /\ s # New(p) => pt'[s] = pt[s]
    <3>1. pt \in [Tables -> [Pages -> PTEs \cup {NoPage}]]
      BY <1>1 DEF TypeOK
    <3> QED
      BY <1>1, <2>1, <3>1
  <2>8. TypeOK'
    BY <1>0, <1>1, <2>6, <2>7 DEF TypeOK, OpSet
  <2>9. \A s \in Tables : Swap(p, s) \in Tables /\ pt'[s] = pt[Swap(p, s)] /\ Swap(p, Swap(p, s)) = s
    BY <1>1, <2>7 DEF Swap
  <2>10. \A t \in Tables : t \notin Mine(p) => pt'[t] = pt[t]
    BY <1>1, <2>7, MineOp
  <2>11. KidsOf(p)' /\ CopiesOf(p)'
    BY <1>1, <2>4, <2>6 DEF KidsOf, CopiesOf
  <2>12. Layout(p)'
    <3>1. 0 \in 0 .. 0 /\ 0 <= n /\ \A va \in Pages : 0 <= va
      BY <2>3 DEF Pages
    <3>2. \A va \in Pages : pt'[New(p)][va] # NoPage <=>
            (va < 0 /\ New(p) = Own(p)) \/ (0 <= va /\ va < n)
      BY <1>1, <2>3, <2>7, <3>1 DEF Dense, Mapped
    <3>3. \E m \in 0 .. 0 : \A va \in Pages : pt'[New(p)][va] # NoPage <=>
            (va < m /\ New(p) = Own(p)) \/ (0 <= va /\ va < n)
      BY <3>1, <3>2
    <3>4. \A va \in Pages : pt'[Own(p)][va] # NoPage <=> va < op[p].i
      BY <2>2, <2>7 DEF Dense, Mapped
    <3>5. Sized(Own(p))'
      BY <1>1, <3>4 DEF Sized, Dense, Mapped
    <3> QED
      BY <2>4, <2>6, <3>1, <3>3, <3>5 DEF Layout, Mapped, Faulting
  <2>13. Kids' /\ LayoutInv' /\ Copies'
    BY <1>0, <1>1, <2>4, <2>6, <2>10, <2>11, <2>12, StepKept
  <2>14. \A q \in Procs : \A t, wa : Limbo(q, t, wa)' <=> Limbo(q, t, wa)
    BY <1>0, <2>4, <2>6 DEF Limbo
  <2>15. \A q \in Procs : \A wa : ~Limbo(q, Own(p), wa) /\ ~Limbo(q, New(p), wa)
    <3>1. \A t, wa : ~Limbo(p, t, wa)
      BY <1>0 DEF Limbo
    <3> QED
      BY <1>1, <3>1, OwnLimbo, MineOp
  <2>16. \A t \in Tables, wa \in Pages, f \in Frames : Counts(t, wa, f)' <=> Counts(Swap(p, t), wa, f)
    <3> SUFFICES ASSUME NEW t \in Tables, NEW wa \in Pages, NEW f \in Frames
                 PROVE  Counts(t, wa, f)' <=> Counts(Swap(p, t), wa, f)
      OBVIOUS
    <3>1. CASE t \in {Own(p), New(p)}
      BY <1>1, <2>7, <2>14, <2>15, <3>1 DEF Counts, Mapped, Swap
    <3>2. CASE t \notin {Own(p), New(p)}
      BY <2>7, <2>14, <3>2 DEF Counts, Mapped, Swap
    <3> QED
      BY <3>1, <3>2
  <2>17. RefsInv'
    <3> SUFFICES ASSUME NEW f \in Frames
                 PROVE  Cardinality(Counted(f)') = Cardinality(Counted(f))
      BY <1>0, <1>1 DEF RefsInv
    <3> DEFINE h == [m \in Counted(f) |-> <<Swap(p, m[1]), m[2]>>]
               S == Counted(f)
               T == Counted(f)'
    <3>1. \A t \in Tables, wa \in Pages : /\ <<t, wa>> \in S <=> Counts(t, wa, f)
                                         /\ <<t, wa>> \in T <=> Counts(Swap(p, t), wa, f)
      BY <2>16 DEF Counted
    <3>2. \A m \in S : m[1] \in Tables /\ m[2] \in Pages /\ m = <<m[1], m[2]>> /\ Counts(m[1], m[2], f)
      BY DEF Counted
    <3>3. \A m \in T : /\ m[1] \in Tables /\ m[2] \in Pages /\ m = <<m[1], m[2]>>
                       /\ Counts(Swap(p, m[1]), m[2], f)
      BY <2>16 DEF Counted
    <3>4. IsFiniteSet(S)
      BY FiniteEntries
    <3> HIDE DEF S, T
    <3>5. ASSUME NEW m \in S PROVE <<Swap(p, m[1]), m[2]>> \in T
      <4>1. m[1] \in Tables /\ m[2] \in Pages /\ Counts(m[1], m[2], f)
        BY <3>2
      <4>2. Swap(p, m[1]) \in Tables /\ Counts(Swap(p, Swap(p, m[1])), m[2], f)
        BY <2>9, <4>1
      <4> QED
        BY <3>1, <4>1, <4>2
    <3>6. ASSUME NEW m \in T
          PROVE  <<Swap(p, m[1]), m[2]>> \in S /\ <<Swap(p, Swap(p, m[1])), m[2]>> = m
      <4>1. m[1] \in Tables /\ m[2] \in Pages /\ Counts(Swap(p, m[1]), m[2], f)
        BY <3>3
      <4>2. Swap(p, m[1]) \in Tables /\ Swap(p, Swap(p, m[1])) = m[1]
        BY <2>9, <4>1
      <4>3. <<Swap(p, m[1]), m[2]>> \in S
        BY <4>1, <4>2 DEF S, Counted
      <4>4. m = <<m[1], m[2]>>
        BY <3>3
      <4> QED
        BY <4>2, <4>3, <4>4
    <3>7. h \in [S -> T]
      BY <3>5 DEF S
    <3>8. \A x, y \in S : h[x] = h[y] => x = y
      <4> SUFFICES ASSUME NEW x \in S, NEW y \in S, h[x] = h[y] PROVE x = y
        OBVIOUS
      <4>1. <<Swap(p, x[1]), x[2]>> = <<Swap(p, y[1]), y[2]>>
        BY DEF S
      <4>2. Swap(p, x[1]) = Swap(p, y[1]) /\ x[2] = y[2]
        BY <4>1
      <4>3. x[1] = Swap(p, Swap(p, x[1])) /\ y[1] = Swap(p, Swap(p, y[1]))
        BY <2>9, <3>2
      <4>4. x[1] = y[1]
        BY <4>2, <4>3
      <4> QED
        BY <3>2, <4>2, <4>4
    <3>9. \A z \in T : \E x \in S : h[x] = z
      <4> SUFFICES ASSUME NEW z \in T PROVE h[<<Swap(p, z[1]), z[2]>>] = z
        BY <3>6
      <4>1. <<Swap(p, z[1]), z[2]>> \in Counted(f)
        BY <3>6 DEF S
      <4>2. h[<<Swap(p, z[1]), z[2]>>] = <<Swap(p, Swap(p, z[1])), z[2]>>
        BY <4>1
      <4> QED
        BY <3>6, <4>2
    <3> HIDE DEF h
    <3>10. Cardinality(T) = Cardinality(S)
      BY <3>4, <3>7, <3>8, <3>9, SameSize
    <3> QED
      BY <3>10 DEF S, T
  <2>18. HandsInv'
    <3>1. \A f : ~Holds(p, f)' /\ ~Holds(p, f)
      BY <1>0, <2>4, <2>6 DEF Holds
    <3> QED
      BY <1>0, <1>1, <2>4, <2>6, <2>10, <3>1, HandsMove
  <2>19. Exclusive'
    <3>1. \A s, wa : DroppedAt(s, wa)' <=> DroppedAt(s, wa)
      BY <1>0, <2>4, <2>6 DEF DroppedAt
    <3>2. \A wa : ~DroppedAt(Own(p), wa) /\ ~DroppedAt(New(p), wa)
      BY <1>0, Names DEF DroppedAt
    <3> SUFFICES ASSUME NEW s \in Tables, NEW t \in Tables, NEW xa \in Pages, NEW wa \in Pages,
                        Mapped(t, xa)', ~pt'[t][xa].cow,
                        Mapped(s, wa)', pt'[s][wa].pa = pt'[t][xa].pa, ~DroppedAt(s, wa)'
                 PROVE  s = t /\ wa = xa
      BY DEF Exclusive
    <3>3. ~DroppedAt(Swap(p, s), wa)
      BY <3>1, <3>2 DEF Swap
    <3>4. /\ Mapped(Swap(p, t), xa) /\ ~pt[Swap(p, t)][xa].cow
          /\ Mapped(Swap(p, s), wa) /\ pt[Swap(p, s)][wa].pa = pt[Swap(p, t)][xa].pa
      BY <2>9 DEF Mapped
    <3>5. Swap(p, s) = Swap(p, t) /\ wa = xa
      BY <1>1, <2>9, <3>3, <3>4 DEF Exclusive
    <3> QED
      BY <2>9, <3>5
  <2> QED
    BY <1>0, <1>1, <2>8, <2>13, <2>17, <2>18, <2>19 DEF IInv
<1> QED
  BY <1>2, <1>3

-----------------------------------------------------------------------------
(* The invariant holds.                                                    *)

\* kinit() and userinit().
LEMMA InitIInv == Init => IInv
<1> SUFFICES ASSUME Init PROVE IInv
  OBVIOUS
<1>1. PICK f \in Frames :
        /\ load \in Loads
        /\ pt = [t \in Tables |->
                   IF t = Own(initproc)
                   THEN [NoTable EXCEPT ![0] = [pa |-> f, w |-> TRUE, cow |-> FALSE]]
                   ELSE NoTable]
        /\ ref = [g \in Frames |-> IF g = f THEN 1 ELSE 0]
        /\ free = Frames \ {f}
        /\ content = [g \in Frames |-> IF g = f THEN Zero ELSE Junk]
        /\ op = [p \in Procs |-> IF p = initproc THEN Idle ELSE At("unused")]
        /\ panicked = "none"
  BY DEF Init
<1> DEFINE e == [pa |-> f, w |-> TRUE, cow |-> FALSE]
           t0 == Own(initproc)
<1>2. e \in PTEs /\ e.pa = f /\ ~e.cow /\ e # NoPage
  <2>1. e \in PTEs /\ e.pa = f /\ ~e.cow
    BY DEF PTEs
  <2> QED
    BY <2>1, ContentsAssumption DEF PTEs
<1>3. 0 \in Pages /\ t0 \in Tables /\ initproc \in Procs
  BY SlotsAssumption, PagesAssumption, Names DEF Pages
<1>4. NoTable \in [Pages -> PTEs \cup {NoPage}] /\ \A va \in Pages : NoTable[va] = NoPage
  BY DEF NoTable
<1> HIDE DEF e
<1>5. /\ \A va \in Pages : pt[t0][va] = IF va = 0 THEN e ELSE NoPage
      /\ \A t \in Tables : t # t0 => pt[t] = NoTable
      /\ pt \in [Tables -> [Pages -> PTEs \cup {NoPage}]]
  <2>1. [NoTable EXCEPT ![0] = e] \in [Pages -> PTEs \cup {NoPage}]
    BY <1>2, <1>3, <1>4
  <2>2. pt = [t \in Tables |-> IF t = t0 THEN [NoTable EXCEPT ![0] = e] ELSE NoTable]
    BY <1>1 DEF e
  <2>3. pt[t0] = [NoTable EXCEPT ![0] = e] /\ \A t \in Tables : t # t0 => pt[t] = NoTable
    BY <1>3, <2>2
  <2>4. pt \in [Tables -> [Pages -> PTEs \cup {NoPage}]]
    BY <1>4, <2>1, <2>2
  <2> QED
    BY <1>3, <1>4, <2>3, <2>4
<1>6. \A t \in Tables, va \in Pages : Mapped(t, va) <=> t = t0 /\ va = 0
  BY <1>2, <1>4, <1>5 DEF Mapped
<1>7. /\ Idle \in OpSet /\ Idle.pc = "user" /\ Idle.kid = NoPage
      /\ At("unused") \in OpSet /\ At("unused").pc = "unused" /\ At("unused").kid = NoPage
  BY AtFields DEF PCs
<1>8. \A p \in Procs : op[p].kid = NoPage /\ op[p].pc = IF p = initproc THEN "user" ELSE "unused"
  BY <1>1, <1>7
<1>9. TypeOK
  <2>1. op \in [Procs -> OpSet]
    BY <1>1, <1>7
  <2>2. ref \in [Frames -> Nat]
    BY <1>1
  <2>3. content \in [Frames -> Vals \cup {Zero, Junk}] /\ free \subseteq Frames
    BY <1>1
  <2> QED
    BY <1>1, <1>5, <2>1, <2>2, <2>3 DEF TypeOK, OpSet
<1>10. Kids
  BY <1>8 DEF Kids
<1>11. LayoutInv
  <2> SUFFICES ASSUME NEW p \in Procs PROVE Layout(p)
    BY DEF LayoutInv
  <2>1. Dense(New(p), 0)
    BY <1>6, Names DEF Dense, Pages
  <2>2. p # initproc => Dense(Own(p), 0)
    BY <1>6, Names DEF Dense, Pages
  <2>3. p = initproc => Sized(Own(p))
    <3>1. 1 \in 0 .. NPages /\ \A va \in Pages : va = 0 <=> va < 1
      BY PagesAssumption DEF Pages
    <3>2. Dense(t0, 1)
      BY <1>3, <1>6, <3>1 DEF Dense
    <3> QED
      BY <3>1, <3>2 DEF Sized
  <2> QED
    BY <1>8, <2>1, <2>2, <2>3 DEF Layout, Faulting
<1>12. \A p \in Procs : \A t, va : ~Limbo(p, t, va)
  BY <1>8 DEF Limbo
<1>13. RefsInv
  <2>1. Counted(f) = {<<t0, 0>>}
    BY <1>2, <1>3, <1>5, <1>6, <1>12 DEF Counted, Counts
  <2>2. \A g \in Frames : g # f => Counted(g) = {}
    BY <1>2, <1>3, <1>5, <1>6, <1>12 DEF Counted, Counts
  <2>3. Cardinality(Counted(f)) = 1
    BY <2>1, FS_Singleton
  <2>4. \A g \in Frames : g # f => Cardinality(Counted(g)) = 0
    BY <2>2, FS_EmptySet
  <2> QED
    BY <1>1, <2>3, <2>4 DEF RefsInv
<1>14. HandsInv
  <2>1. \A p \in Procs : \A g : ~Holds(p, g)
    BY <1>8 DEF Holds
  <2> QED
    BY <1>1, <1>8, <2>1 DEF HandsInv
<1>15. Exclusive
  BY <1>6 DEF Exclusive
<1>16. Copies
  BY <1>8 DEF Copies, CopiesOf
<1> QED
  BY <1>1, <1>9, <1>10, <1>11, <1>13, <1>14, <1>15, <1>16 DEF IInv

\* A panic stops the machine; nothing moves.
LEMMA StuckIInv ==
  ASSUME IInv, UNCHANGED <<load, pt, ref, free, content, op>>, panicked' \in {"none", "init exiting", "walk"}
  PROVE  IInv'
<1>0. TypeOK /\ Kids /\ LayoutInv /\ HandsInv /\ Exclusive /\ Copies
  BY DEF IInv
<1>1. TypeOK' /\ load' \in Loads
  BY DEF IInv, TypeOK
<1>2. Kids' /\ Exclusive' /\ Copies' /\ HandsInv' /\ LayoutInv'
  <2>1. Kids'
    BY <1>0 DEF Kids
  <2>2. Exclusive'
    <3>1. \A t, va : DroppedAt(t, va) => DroppedAt(t, va)'
      BY DEF DroppedAt
    <3> QED
      BY <1>0, <3>1, ExclusiveSame
  <2>3. Copies'
    BY <1>0 DEF Copies, CopiesOf, OldFrame, Mapped
  <2>4. HandsInv'
    <3>1. \A p, f : (Holds(p, f)' <=> Holds(p, f)) /\ OldFrame(p)' = OldFrame(p)
      BY DEF Holds, OldFrame
    <3> QED
      BY <1>0, <3>1 DEF HandsInv
  <2>5. LayoutInv'
    <3>1. \A t, n : (Dense(t, n)' <=> Dense(t, n)) /\ (Sized(t)' <=> Sized(t))
      BY DEF Dense, Sized, Mapped
    <3>2. ASSUME NEW p \in Procs, Layout(p) PROVE Layout(p)'
      BY <3>1, <3>2, ZenonT(60) DEF Layout, Mapped, Faulting
    <3> QED
      BY <1>0, <3>2 DEF LayoutInv
  <2> QED
    BY <2>1, <2>2, <2>3, <2>4, <2>5
<1>3. RefsInv'
  <2>1. \A t \in Tables, va \in Pages, f \in Frames : Counts(t, va, f)' <=> Counts(t, va, f)
    BY DEF Counts, Limbo, Mapped
  <2> QED
    BY <2>1, CountsSame DEF IInv
<1> QED
  BY <1>1, <1>2, <1>3 DEF IInv

\* Every step keeps the invariant.
THEOREM NextIInv == IInv /\ [Next]_vars => IInv'
<1> SUFFICES ASSUME IInv, [Next]_vars PROVE IInv'
  OBVIOUS
<1>1. CASE UNCHANGED vars
  BY <1>1, StuckIInv DEF vars, IInv, TypeOK
<1>2. CASE Halted
  BY <1>2, StuckIInv DEF Halted, vars, IInv, TypeOK
<1>3. ASSUME NEW p \in Procs, Step(p) PROVE IInv'
  <2>1. ASSUME NEW va \in Pages, NEW v \in Vals \cup {NoPage}, InUser(p), Mapped(Own(p), va),
               pt[Own(p)][va].cow, page_change(p, va, v),
               UNCHANGED <<load, ref, free, content, panicked>>
        PROVE  IInv'
    BY <2>1, PageSharedIInv, PageAloneIInv
  <2>2. ASSUME NEW va \in Pages, NEW v \in Vals, copyout(p, va, v) PROVE IInv'
    BY <2>1, <2>2 DEF copyout
  <2>3. ASSUME NEW va \in Pages, PageFault(p, va) PROVE IInv'
    BY <2>1, <2>3 DEF PageFault
  <2>4. ASSUME NEW va \in Pages, BadFault(p, va) PROVE IInv'
    BY <2>4, DieIInv DEF BadFault, InUser, Is
  <2>5. ASSUME exit(p) PROVE IInv'
    BY <2>5, DieIInv DEF exit, InUser, Is
  <2>6. ASSUME StoreBeyondMAXVA(p) PROVE IInv'
    BY <2>6, StuckIInv DEF StoreBeyondMAXVA
  <2>7. ASSUME \/ \E n \in Pages : sbrk(p, n + 1)
               \/ \E n \in Pages : Shrink(p, n)
               \/ exec(p)
        PROVE  IInv'
    BY <2>7, ResizeIInv
  <2> QED
    BY <1>3, <2>2, <2>3, <2>4, <2>5, <2>6, <2>7, PageKallocIInv, PageKallocFailsIInv, PageCopyIInv,
       PageDecrementIInv, PageKfreeIInv, PageSetIInv, StoreIInv, CopyoutWriteIInv, UvmunmapIInv,
       UnmapKfreeIInv, UnmapDoneIInv, ForkIInv, UvmcopyIInv, UvmcopyFailsIInv, UvmcopyIncrefIInv,
       ForkDoneIInv, UvmallocIInv, UvmallocFailsIInv, UvmallocMapIInv, UvmallocMapFailsIInv,
       UvmallocDoneIInv, WaitIInv DEF Step
<1> QED
  BY <1>1, <1>2, <1>3 DEF Next

\* The invariant holds in every state.
THEOREM IInvCorrect == Spec => []IInv
BY InitIInv, NextIInv, PTL DEF Spec

-----------------------------------------------------------------------------
(* Reference counts and frames.                                            *)

\* The variables keep their types.
THEOREM TypeCorrect == Spec => []TypeOK
BY IInvCorrect, PTL DEF IInv

\* No two processes work on the same entry.
LEMMA LimboUnique ==
  ASSUME IInv, NEW p \in Procs, NEW q \in Procs, NEW t, NEW va, Limbo(p, t, va), Limbo(q, t, va)
  PROVE  p = q
<1>1. TypeOK /\ Kids
  BY DEF IInv
<1>2. t \in Mine(p) /\ Alive(p) /\ t \in Mine(q) /\ Alive(q)
  BY <1>1, MineOp
<1> QED
  BY <1>1, <1>2, Separate

\* The table of the entry in limbo.
LimboTable(p) ==
  IF op[p].pc = "incref" THEN Own(op[p].kid) ELSE IF op[p].pc = "kfree" THEN op[p].t ELSE Own(p)

\* The entry that the reference count of f misses on account of p.
LEMMA LimboEntry ==
  ASSUME IInv, NEW p \in Procs, NEW f \in Frames
  PROVE  /\ p \in Uncounted(f) => /\ LimboTable(p) \in Tables /\ op[p].i \in Pages
                                  /\ Limbo(p, LimboTable(p), op[p].i)
                                  /\ Mapped(LimboTable(p), op[p].i)
                                  /\ pt[LimboTable(p)][op[p].i].pa = f
         /\ \A t \in Tables, va \in Pages : Limbo(p, t, va) /\ Mapped(t, va) /\ pt[t][va].pa = f =>
              p \in Uncounted(f) /\ t = LimboTable(p) /\ va = op[p].i
<1>1. CASE op[p].pc = "incref"
  <2>1. /\ op[p].kid \in Procs /\ Own(op[p].kid) \in Tables /\ op[p].i \in Pages /\ Layout(p)
        /\ \A va \in Pages : Mapped(Own(op[p].kid), va) =>
              pt[Own(op[p].kid)][va] = pt[Own(p)][va]
    BY <1>1, CopyFacts
  <2>2. Mapped(Own(op[p].kid), op[p].i)
    <3>1. op[p].i < op[p].i + 1
      BY <2>1 DEF Pages
    <3> QED
      BY <1>1, <2>1, <3>1 DEF Layout, Dense
  <2>3. pt[Own(op[p].kid)][op[p].i].pa = OldFrame(p)
    BY <2>1, <2>2 DEF OldFrame
  <2> QED
    BY <1>1, <2>1, <2>2, <2>3 DEF Limbo, LimboTable, Uncounted
<1>2. CASE op[p].pc \in {"kfreeold", "set"}
  <2>1. Own(p) \in Tables /\ op[p].i \in Pages /\ Mapped(Own(p), op[p].i)
    BY <1>2, FaultFacts
  <2> QED
    BY <1>2, <2>1 DEF Limbo, LimboTable, Uncounted, OldFrame
<1>3. CASE op[p].pc = "kfree"
  <2>1. op[p].t \in Tables /\ op[p].i \in Pages /\ Mapped(op[p].t, op[p].i)
    BY <1>3, UnmapFacts
  <2> QED
    BY <1>3, <2>1 DEF Limbo, LimboTable, Uncounted
<1> QED
  BY <1>1, <1>2, <1>3 DEF Limbo, Uncounted

\* The counts in pgref are the numbers of mappings, less those in limbo.
LEMMA RefsFollow == ASSUME IInv PROVE RefsExact
<1>1. TypeOK /\ RefsInv
  BY DEF IInv
<1> SUFFICES ASSUME NEW f \in Frames
             PROVE  ref[f] = Cardinality(Mappings(f)) - Cardinality(Uncounted(f))
  BY DEF RefsExact
<1> DEFINE U == Uncounted(f)
           L == Mappings(f) \ Counted(f)
           h == [p \in U |-> <<LimboTable(p), op[p].i>>]
<1>2. IsFiniteSet(U)
  BY SlotsAssumption, FS_Subset DEF Uncounted
<1>3. \A m \in L : /\ m[1] \in Tables /\ m[2] \in Pages /\ m = <<m[1], m[2]>>
                   /\ Mapped(m[1], m[2]) /\ pt[m[1]][m[2]].pa = f
                   /\ \E p \in Procs : Limbo(p, m[1], m[2])
  BY DEF Mappings, Counted, Counts
<1>4. ASSUME NEW p \in U PROVE <<LimboTable(p), op[p].i>> \in L
  <2>1. /\ p \in Procs /\ LimboTable(p) \in Tables /\ op[p].i \in Pages
        /\ Limbo(p, LimboTable(p), op[p].i)
        /\ Mapped(LimboTable(p), op[p].i) /\ pt[LimboTable(p)][op[p].i].pa = f
    BY LimboEntry DEF Uncounted
  <2> QED
    BY <2>1 DEF Mappings, Counted, Counts
<1>5. \A p \in U : p \in Procs /\ Limbo(p, LimboTable(p), op[p].i)
  BY LimboEntry DEF Uncounted
<1>6. ASSUME NEW m \in L PROVE \E p \in U : <<LimboTable(p), op[p].i>> = m
  <2>1. /\ m[1] \in Tables /\ m[2] \in Pages /\ m = <<m[1], m[2]>>
        /\ Mapped(m[1], m[2]) /\ pt[m[1]][m[2]].pa = f
    BY <1>3
  <2>2. PICK p \in Procs : Limbo(p, m[1], m[2])
    BY <1>3
  <2>3. p \in U /\ m[1] = LimboTable(p) /\ m[2] = op[p].i
    BY <2>1, <2>2, LimboEntry
  <2> QED
    BY <2>1, <2>3
<1> HIDE DEF U, L
<1>7. h \in [U -> L]
  BY <1>4
<1>8. \A p, q \in U : h[p] = h[q] => p = q
  <2> SUFFICES ASSUME NEW p \in U, NEW q \in U, h[p] = h[q] PROVE p = q
    OBVIOUS
  <2>1. <<LimboTable(p), op[p].i>> = <<LimboTable(q), op[q].i>>
    OBVIOUS
  <2>2. LimboTable(p) = LimboTable(q) /\ op[p].i = op[q].i
    BY <2>1
  <2>3. p \in Procs /\ q \in Procs /\ Limbo(p, LimboTable(p), op[p].i) /\ Limbo(q, LimboTable(p), op[p].i)
    BY <1>5, <2>2
  <2> QED
    BY <2>3, LimboUnique
<1>9. \A m \in L : \E p \in U : h[p] = m
  BY <1>6
<1> HIDE DEF h
<1>10. Cardinality(L) = Cardinality(U)
  BY <1>2, <1>7, <1>8, <1>9, SameSize
<1>11. Cardinality(L) = Cardinality(Mappings(f)) - Cardinality(Counted(f))
  <2>1. Mappings(f) \cap Counted(f) = Counted(f)
    BY DEF Mappings, Counted, Counts
  <2>2. IsFiniteSet(Mappings(f))
    BY FiniteEntries
  <2> QED
    BY <2>1, <2>2, FS_Difference DEF L
<1>12. Cardinality(Mappings(f)) \in Nat /\ Cardinality(Counted(f)) \in Nat /\ Cardinality(U) \in Nat
  BY <1>2, FiniteEntries, FS_CardinalityType
<1>13. ref[f] = Cardinality(Counted(f))
  BY <1>1 DEF RefsInv
<1> QED
  BY <1>10, <1>11, <1>12, <1>13 DEF U

\* Every frame is in one place.
LEMMA FramesFollow == ASSUME IInv PROVE FramesAccounted
<1>1. TypeOK /\ HandsInv
  BY DEF IInv
<1> SUFFICES ASSUME NEW f \in Frames
             PROVE  Cardinality({x \in {"free", "mapped"} : IF x = "free" THEN f \in free ELSE ref[f] > 0})
                      + Cardinality(InHand(f)) = 1
  BY DEF FramesAccounted
<1> DEFINE places == {x \in {"free", "mapped"} : IF x = "free" THEN f \in free ELSE ref[f] > 0}
<1>2. InHand(f) = {p \in Procs : Holds(p, f)}
  BY DEF InHand, Holds
<1>3. ref[f] \in Nat /\ (ref[f] > 0 <=> ref[f] # 0)
  <2>1. ref[f] \in Nat
    BY <1>1 DEF TypeOK
  <2> QED
    BY <2>1
<1>4. /\ f \in free => ref[f] = 0
      /\ f \notin free /\ ref[f] = 0 => \E p \in Procs : Holds(p, f)
      /\ \A p \in Procs : Holds(p, f) => f \notin free /\ ref[f] = 0
      /\ \A p, q \in Procs : Holds(p, f) /\ Holds(q, f) => p = q
  BY <1>1 DEF HandsInv
<1>5. Cardinality({}) = 0 /\ \A x : Cardinality({x}) = 1
  BY FS_EmptySet, FS_Singleton
<1>6. CASE f \in free
  <2>1. places = {"free"} /\ InHand(f) = {}
    BY <1>2, <1>3, <1>4, <1>6
  <2>2. Cardinality(places) = 1 /\ Cardinality(InHand(f)) = 0
    <3> HIDE DEF places
    <3> QED
      BY <1>5, <2>1
  <2> QED
    BY <2>2
<1>7. CASE ref[f] # 0
  <2>1. places = {"mapped"} /\ InHand(f) = {}
    BY <1>2, <1>3, <1>4, <1>7
  <2>2. Cardinality(places) = 1 /\ Cardinality(InHand(f)) = 0
    <3> HIDE DEF places
    <3> QED
      BY <1>5, <2>1
  <2> QED
    BY <2>2
<1>8. CASE f \notin free /\ ref[f] = 0
  <2>1. PICK p \in Procs : Holds(p, f)
    BY <1>4, <1>8
  <2>2. places = {} /\ InHand(f) = {p}
    BY <1>2, <1>3, <1>4, <1>8, <2>1
  <2>3. Cardinality(places) = 0 /\ Cardinality(InHand(f)) = 1
    <3> HIDE DEF places
    <3> QED
      BY <1>5, <2>2
  <2> QED
    BY <2>3
<1> QED
  BY <1>6, <1>7, <1>8

\* The reference count of every frame is exact, and each frame is on the free
\* list, mapped, or in the hands of one process, for any number of processes,
\* pages and frames.
THEOREM FramesCorrect == Spec => []FrameInv
<1>1. IInv => FrameInv
  BY RefsFollow, FramesFollow DEF IInv, FrameInv
<1> QED
  BY <1>1, IInvCorrect, PTL

\* A page that one entry can write is in no other table.
THEOREM WriteExclusiveCorrect == Spec => []WriteExclusive
<1>1. ASSUME IInv PROVE WriteExclusive
  <2>1. TypeOK /\ Exclusive
    BY <1>1 DEF IInv
  <2> SUFFICES ASSUME NEW m \in Tables \X Pages, Mapped(m[1], m[2]), pt[m[1]][m[2]].w
               PROVE  Mappings(pt[m[1]][m[2]].pa) \ Dropped = {m}
    BY DEF WriteExclusive
  <2>2. m[1] \in Tables /\ m[2] \in Pages /\ m = <<m[1], m[2]>>
    OBVIOUS
  <2>3. ~pt[m[1]][m[2]].cow
    BY <2>1, <2>2, Types
  <2>4. m \notin Dropped
    <3> SUFFICES ASSUME NEW p \in Procs, op[p].pc \in {"kfreeold", "set"}, m = <<Own(p), op[p].i>>
                 PROVE  FALSE
      BY DEF Dropped
    <3>1. pt[Own(p)][op[p].i].cow
      BY <1>1, FaultFacts
    <3>2. m[1] = Own(p) /\ m[2] = op[p].i
      OBVIOUS
    <3> QED
      BY <2>3, <3>1, <3>2
  <2>5. m \in Mappings(pt[m[1]][m[2]].pa)
    BY DEF Mappings
  <2>6. ASSUME NEW x \in Mappings(pt[m[1]][m[2]].pa), x \notin Dropped PROVE x = m
    <3>1. /\ x[1] \in Tables /\ x[2] \in Pages /\ x = <<x[1], x[2]>>
          /\ Mapped(x[1], x[2]) /\ pt[x[1]][x[2]].pa = pt[m[1]][m[2]].pa
      BY DEF Mappings
    <3>2. ~DroppedAt(x[1], x[2])
      <4> SUFFICES ASSUME NEW p \in Procs, op[p].pc \in {"kfreeold", "set"}, x[1] = Own(p), x[2] = op[p].i
                   PROVE  FALSE
        BY DEF DroppedAt
      <4>1. x = <<Own(p), op[p].i>>
        BY <3>1
      <4> QED
        BY <2>6, <4>1 DEF Dropped
    <3>3. x[1] = m[1] /\ x[2] = m[2]
      BY <2>1, <2>2, <2>3, <3>1, <3>2 DEF Exclusive
    <3> QED
      BY <2>2, <3>1, <3>3
  <2> QED
    BY <2>4, <2>5, <2>6
<1> QED
  BY <1>1, IInvCorrect, PTL

-----------------------------------------------------------------------------
(* Copy-on-write memory implements private memory.                         *)

Mem == [p \in Procs |-> [va \in Pages |-> View(p, va)]]

\* p finds the same in its memory after the step.
Same(p) == \A va \in Pages : View(p, va)' = View(p, va)

\* Nobody notices the step, or it is one of the abstract ones, of one process.
LEMMA AbsSame ==
  ASSUME \A p \in Procs : Same(p)
  PROVE  Mem' = Mem
BY DEF Mem, Same

LEMMA AbsOne ==
  ASSUME NEW p \in Procs, \A q \in Procs : q # p => Same(q)
  PROVE  Mem' = [Mem EXCEPT ![p] = [va \in Pages |-> View(p, va)']]
BY DEF Mem, Same

LEMMA AbsWrite ==
  ASSUME NEW p \in Procs, \A q \in Procs : q # p => Same(q), NEW va \in Pages, NEW v \in Vals,
         View(p, va) # NoPage, View(p, va)' = v, \A wa \in Pages : wa # va => View(p, wa)' = View(p, wa)
  PROVE  PM!Next
<1>1. Mem[p] = [wa \in Pages |-> View(p, wa)] /\ Mem[p][va] # NoPage
  BY DEF Mem
<1>2. [Mem[p] EXCEPT ![va] = v] = [wa \in Pages |-> View(p, wa)']
  BY <1>1
<1>3. Mem' = [Mem EXCEPT ![p] = [Mem[p] EXCEPT ![va] = v]]
  BY <1>2, AbsOne
<1>4. PM!Write(p, va, v)
  BY <1>1, <1>3 DEF PM!Write, Mem
<1> QED
  BY <1>4 DEF PM!Next, PM!Pages, Pages

LEMMA AbsMap ==
  ASSUME NEW p \in Procs, \A q \in Procs : q # p => Same(q), NEW va \in Pages,
         View(p, va) = NoPage, View(p, va)' = Zero, \A wa \in Pages : wa # va => View(p, wa)' = View(p, wa)
  PROVE  PM!Next
<1>1. Mem[p] = [wa \in Pages |-> View(p, wa)] /\ Mem[p][va] = NoPage
  BY DEF Mem
<1>2. [Mem[p] EXCEPT ![va] = Zero] = [wa \in Pages |-> View(p, wa)']
  BY <1>1
<1>3. Mem' = [Mem EXCEPT ![p] = [Mem[p] EXCEPT ![va] = Zero]]
  BY <1>2, AbsOne
<1>4. PM!Map(p, va)
  BY <1>1, <1>3 DEF PM!Map, Mem
<1> QED
  BY <1>4 DEF PM!Next, PM!Pages, Pages

LEMMA AbsUnmap ==
  ASSUME NEW p \in Procs, \A q \in Procs : q # p => Same(q), NEW va \in Pages,
         View(p, va)' = NoPage, \A wa \in Pages : wa # va => View(p, wa)' = View(p, wa)
  PROVE  PM!Next
<1>1. Mem[p] = [wa \in Pages |-> View(p, wa)]
  BY DEF Mem
<1>2. [Mem[p] EXCEPT ![va] = NoPage] = [wa \in Pages |-> View(p, wa)']
  BY <1>1
<1>3. Mem' = [Mem EXCEPT ![p] = [Mem[p] EXCEPT ![va] = NoPage]]
  BY <1>2, AbsOne
<1>4. PM!Unmap(p, va)
  BY <1>1, <1>3 DEF PM!Unmap, Mem
<1> QED
  BY <1>4 DEF PM!Next, PM!Pages, Pages

LEMMA AbsExit ==
  ASSUME NEW p \in Procs, \A q \in Procs : q # p => Same(q), \A va \in Pages : View(p, va)' = NoPage
  PROVE  PM!Next
<1>1. [va \in Pages |-> View(p, va)'] = PM!NoMemory
  BY DEF PM!NoMemory, PM!Pages, Pages
<1>2. Mem' = [Mem EXCEPT ![p] = PM!NoMemory]
  BY <1>1, AbsOne
<1>3. PM!Exit(p)
  BY <1>2 DEF PM!Exit, Mem
<1> QED
  BY <1>3 DEF PM!Next

LEMMA AbsExec ==
  ASSUME NEW p \in Procs, \A q \in Procs : q # p => Same(q), NEW n \in 1 .. NPages,
         \A va \in Pages : View(p, va)' = IF va < n THEN Zero ELSE NoPage
  PROVE  PM!Next
<1>1. [va \in Pages |-> View(p, va)'] = PM!Image(n)
  BY DEF PM!Image, PM!Pages, Pages
<1>2. Mem' = [Mem EXCEPT ![p] = PM!Image(n)]
  BY <1>1, AbsOne
<1>3. PM!Exec(p)
  BY <1>2 DEF PM!Exec, Mem
<1> QED
  BY <1>3 DEF PM!Next

LEMMA AbsFork ==
  ASSUME NEW p \in Procs, NEW k \in Procs, k # p, \A q \in Procs : q # k => Same(q),
         \A va \in Pages : View(k, va) = NoPage /\ View(k, va)' = View(p, va)
  PROVE  PM!Next
<1>1. Mem[k] = PM!NoMemory
  BY DEF Mem, PM!NoMemory, PM!Pages, Pages
<1>2. [va \in Pages |-> View(k, va)'] = Mem[p]
  BY DEF Mem
<1>3. Mem' = [Mem EXCEPT ![k] = Mem[p]]
  BY <1>2, AbsOne
<1>4. PM!Fork(p, k)
  BY <1>1, <1>3 DEF PM!Fork, Mem
<1> QED
  BY <1>4 DEF PM!Next

\* A step of p in its own tables does not show in the memory of another process.
LEMMA ViewOther ==
  ASSUME IInv, NEW p \in Procs, Alive(p), NEW q \in Procs, q # p, op'[q] = op[q],
         \A t \in Tables : t \notin Mine(p) => pt'[t] = pt[t],
         \A f \in Frames : content'[f] = content[f] \/ Overwritten(p, f)
  PROVE  Same(q)
<1>1. TypeOK /\ Kids /\ HandsInv
  BY DEF IInv
<1>2. Alive(q)' <=> Alive(q)
  BY DEF Alive
<1>3. CASE ~Alive(q)
  BY <1>2, <1>3 DEF Same, View
<1>4. CASE Alive(q)
  <2>1. pt'[Own(q)] = pt[Own(q)] /\ Own(q) \in Tables /\ Own(q) # Own(p)
    BY <1>1, <1>4, Separate, Names DEF Alive
  <2>2. ASSUME NEW f \in Frames, Holds(q, f) PROVE content'[f] = content[f]
    BY <2>2, NotOverwritten
  <2>3. ASSUME NEW va \in Pages, NEW f \in Frames, Counts(Own(q), va, f) PROVE content'[f] = content[f]
    BY <2>1, <2>3, NotOverwritten
  <2> SUFFICES ASSUME NEW va \in Pages PROVE View(q, va)' = View(q, va)
    BY DEF Same
  <2>4. Mapped(Own(q), va)' <=> Mapped(Own(q), va)
    BY <2>1 DEF Mapped
  <2>5. CASE ~Mapped(Own(q), va)
    BY <2>4, <2>5 DEF View
  <2>6. CASE Mapped(Own(q), va) /\ op[q].pc \in {"kfreeold", "set"} /\ op[q].i = va
    <3>1. op[q].pa \in Frames /\ Holds(q, op[q].pa)
      BY <1>1, <2>6, FaultFacts DEF Faulting
    <3> QED
      BY <1>2, <1>4, <2>2, <2>4, <2>6, <3>1 DEF View
  <2>7. CASE Mapped(Own(q), va) /\ ~(op[q].pc \in {"kfreeold", "set"} /\ op[q].i = va)
    <3>1. pt[Own(q)][va].pa \in Frames
      BY <1>1, <2>1, <2>7, Types
    <3>2. Counts(Own(q), va, pt[Own(q)][va].pa) \/ Holds(q, pt[Own(q)][va].pa)
      <4>1. CASE ~Limbo(q, Own(q), va)
        <5>1. \A r \in Procs : ~Limbo(r, Own(q), va)
          BY <1>1, <1>4, <4>1, OwnLimbo, MineOp
        <5> QED
          BY <2>7, <5>1 DEF Counts
      <4>2. CASE Limbo(q, Own(q), va)
        <5>1. op[q].pc # "incref"
          <6>1. op[q].pc = "incref" => Own(op[q].kid) # Own(q)
            BY CopyFacts
          <6> QED
            BY <4>2, <6>1 DEF Limbo
        <5> QED
          BY <2>7, <4>2, <5>1 DEF Limbo, Holds
      <4> QED
        BY <4>1, <4>2
    <3>3. content'[pt[Own(q)][va].pa] = content[pt[Own(q)][va].pa]
      BY <2>2, <2>3, <3>1, <3>2
    <3>4. op'[q].pc = op[q].pc /\ op'[q].i = op[q].i /\ op'[q].pa = op[q].pa
      OBVIOUS
    <3> QED
      BY <1>2, <1>4, <2>1, <2>4, <2>7, <3>3, <3>4 DEF View
  <2> QED
    BY <2>5, <2>6, <2>7
<1> QED
  BY <1>3, <1>4

\* What p sees, outside page_change().
LEMMA ViewPlain ==
  ASSUME NEW p, Alive(p), op[p].pc \notin {"kfreeold", "set"}, NEW va
  PROVE  View(p, va) = IF Mapped(Own(p), va) THEN content[pt[Own(p)][va].pa] ELSE NoPage
BY DEF View

\* The frames of p's memory are referenced: those that p takes from the free list
\* or has in its hand are others.
LEMMA OwnKept ==
  ASSUME IInv, NEW p \in Procs, Alive(p), NEW va \in Pages, Mapped(Own(p), va), ~Limbo(p, Own(p), va),
         \A f \in Frames : content'[f] = content[f] \/ f \in free \/ Holds(p, f)
  PROVE  content'[pt[Own(p)][va].pa] = content[pt[Own(p)][va].pa]
<1>1. TypeOK /\ Kids /\ RefsInv /\ HandsInv
  BY DEF IInv
<1>2. \A q \in Procs : ~Limbo(q, Own(p), va)
  BY <1>1, OwnLimbo, MineOp
<1>3. pt[Own(p)][va].pa \in Frames /\ Own(p) \in Tables
  BY <1>1, Types, Names
<1>4. Counts(Own(p), va, pt[Own(p)][va].pa)
  BY <1>2 DEF Counts
<1>5. ref[pt[Own(p)][va].pa] # 0
  BY <1>1, <1>3, <1>4, RefCounts
<1> QED
  BY <1>1, <1>3, <1>5 DEF HandsInv

\* A step that leaves p's entries at their frames, outside page_change().
LEMMA ViewOwn ==
  ASSUME IInv, NEW p \in Procs, Alive(p), Alive(p)',
         op[p].pc \notin {"kfreeold", "set"}, op'[p].pc \notin {"kfreeold", "set"},
         \A va \in Pages : ~Limbo(p, Own(p), va),
         \A va \in Pages : /\ Mapped(Own(p), va)' <=> Mapped(Own(p), va)
                           /\ Mapped(Own(p), va) => pt'[Own(p)][va].pa = pt[Own(p)][va].pa,
         \A f \in Frames : content'[f] = content[f] \/ f \in free \/ Holds(p, f)
  PROVE  Same(p)
<1> SUFFICES ASSUME NEW va \in Pages PROVE View(p, va)' = View(p, va)
  BY DEF Same
<1>1. Mapped(Own(p), va) => content'[pt[Own(p)][va].pa] = content[pt[Own(p)][va].pa]
  BY OwnKept
<1> QED
  BY <1>1 DEF View

\* Such a step is not seen by anybody.
LEMMA QuietStep ==
  ASSUME IInv, NEW p \in Procs, Alive(p), Alive(p)', \A q \in Procs : q # p => op'[q] = op[q],
         op[p].pc \notin {"kfreeold", "set"}, op'[p].pc \notin {"kfreeold", "set"},
         \A va \in Pages : ~Limbo(p, Own(p), va),
         \A t \in Tables : t \notin Mine(p) => pt'[t] = pt[t],
         \A va \in Pages : /\ Mapped(Own(p), va)' <=> Mapped(Own(p), va)
                           /\ Mapped(Own(p), va) => pt'[Own(p)][va].pa = pt[Own(p)][va].pa,
         \A f \in Frames : content'[f] = content[f] \/ f \in free \/ Holds(p, f)
  PROVE  Mem' = Mem
<1>1. Same(p)
  BY ViewOwn
<1>2. \A q \in Procs : q # p => Same(q)
  BY ViewOther DEF Overwritten
<1> QED
  BY <1>1, <1>2, AbsSame

\* Also a step that moves processes which are not Alive, and no memory.
LEMMA StillStep ==
  ASSUME UNCHANGED <<pt, content>>,
         \A q \in Procs : \/ op'[q] = op[q]
                          \/ ~Alive(q) /\ ~Alive(q)'
                          \/ /\ Alive(q) /\ Alive(q)'
                             /\ op[q].pc \notin {"kfreeold", "set"} /\ op'[q].pc \notin {"kfreeold", "set"}
  PROVE  Mem' = Mem
<1>1. ASSUME NEW q \in Procs PROVE Same(q)
  <2> SUFFICES ASSUME NEW va \in Pages PROVE View(q, va)' = View(q, va)
    BY DEF Same
  <2>1. CASE op'[q] = op[q]
    BY <2>1 DEF View, Alive, Mapped
  <2>2. CASE ~Alive(q) /\ ~Alive(q)'
    BY <2>2 DEF View
  <2>3. CASE /\ Alive(q) /\ Alive(q)'
             /\ op[q].pc \notin {"kfreeold", "set"} /\ op'[q].pc \notin {"kfreeold", "set"}
    BY <2>3 DEF View, Mapped
  <2> QED
    BY <2>1, <2>2, <2>3
<1> QED
  BY <1>1, AbsSame

\* p goes on without touching memory.
LEMMA SilentMove ==
  ASSUME TypeOK, NEW p \in Procs, NEW o, op' = [op EXCEPT ![p] = o], UNCHANGED <<pt, content>>,
         Alive(p), op[p].pc \notin {"kfreeold", "set"},
         o.pc \notin {"kfreeold", "set", "unused", "used", "zombie"}
  PROVE  Mem' = Mem
<1>1. op'[p] = o /\ \A q \in Procs : q # p => op'[q] = op[q]
  BY OpMove
<1>2. Alive(p)'
  BY <1>1 DEF Alive
<1> QED
  BY <1>1, <1>2, StillStep

\* A process dies, or the kernel does.
LEMMA DieView ==
  ASSUME TypeOK, NEW p \in Procs, Die(p), UNCHANGED <<pt, content>>
  PROVE  Mem' = Mem \/ PM!Next
<1>1. CASE p = initproc
  <2>1. \A q \in Procs : op'[q] = op[q]
    BY <1>1 DEF Die
  <2>2. Mem' = Mem
    BY <2>1, StillStep
  <2> QED
    BY <2>2
<1>2. CASE p # initproc
  <2>1. op' = [op EXCEPT ![p] = At("zombie")]
    BY <1>2 DEF Die, Goto
  <2>2. op'[p].pc = "zombie" /\ \A q \in Procs : q # p => op'[q] = op[q]
    <3>1. At("zombie").pc = "zombie"
      BY AtFields
    <3> QED
      BY <2>1, <3>1, OpMove
  <2>3. ASSUME NEW q \in Procs, q # p PROVE Same(q)
    <3>1. op'[q] = op[q]
      BY <2>2, <2>3
    <3> QED
      BY <3>1 DEF Same, View, Alive, Mapped
  <2>4. \A va \in Pages : View(p, va)' = NoPage
    BY <2>2 DEF View, Alive
  <2> QED
    BY <2>3, <2>4, AbsExit
<1> QED
  BY <1>1, <1>2

LEMMA PageKallocFailsView ==
  ASSUME IInv, NEW p \in Procs, PageKallocFails(p)
  PROVE  Mem' = Mem \/ PM!Next
<1>0. /\ op[p].pc = "kalloc" /\ UNCHANGED <<pt, content>> /\ TypeOK /\ Alive(p)
      /\ IF op[p].v = NoPage THEN Die(p) ELSE op' = [op EXCEPT ![p] = Idle]
  BY DEF PageKallocFails, Is, Goto, IInv, Alive
<1>1. CASE op[p].v = NoPage
  BY <1>0, <1>1, DieView
<1>2. CASE op[p].v # NoPage
  <2>1. Idle.pc = "user"
    BY DEF Idle
  <2> QED
    BY <1>0, <1>2, <2>1, SilentMove
<1> QED
  BY <1>1, <1>2

\* System calls that begin.
LEMMA CallView ==
  ASSUME IInv, NEW p \in Procs,
         \/ \E n \in Pages : sbrk(p, n + 1)
         \/ \E n \in Pages : Shrink(p, n)
         \/ exec(p)
         \/ UvmallocFails(p)
         \/ UvmcopyIncref(p)
         \/ UvmallocDone(p) /\ op[p].t = Own(p)
         \/ \E va \in Pages, v \in Vals \cup {NoPage} :
              InUser(p) /\ Shared(pt[Own(p)][va].pa) /\ page_change(p, va, v) /\ UNCHANGED content
  PROVE  Mem' = Mem
<1>1. TypeOK
  BY DEF IInv
<1>2. UNCHANGED <<pt, content>> /\ op[p].pc \in {"user", "uvmalloc", "incref"} /\ Alive(p)
  BY DEF sbrk, Shrink, exec, UvmallocFails, UvmcopyIncref, UvmallocDone, page_change, InUser, Is, Alive
<1>3. ASSUME NEW n \in Pages, sbrk(p, n + 1) PROVE Mem' = Mem
  <2> DEFINE o == [At("uvmalloc") EXCEPT !.t = Own(p), !.i = Size(Own(p)),
                                         !.from = Size(Own(p)), !.end = n + 1]
  <2>1. op' = [op EXCEPT ![p] = o]
    BY <1>3 DEF sbrk, Goto
  <2>2. o.pc = "uvmalloc"
    BY DEF At, Idle
  <2> HIDE DEF o
  <2> QED
    BY <1>1, <1>2, <2>1, <2>2, SilentMove
<1>4. ASSUME NEW n \in Pages, Shrink(p, n) PROVE Mem' = Mem
  <2> DEFINE o == [At("unmap") EXCEPT !.t = Own(p), !.i = n, !.end = Size(Own(p)), !.kid = NoPage]
  <2>1. op' = [op EXCEPT ![p] = o]
    BY <1>4 DEF Shrink, Unmap, Goto
  <2>2. o.pc = "unmap"
    BY DEF At, Idle
  <2> HIDE DEF o
  <2> QED
    BY <1>1, <1>2, <2>1, <2>2, SilentMove
<1>5. ASSUME exec(p) PROVE Mem' = Mem
  <2> DEFINE o == [At("uvmalloc") EXCEPT !.t = New(p), !.i = 0, !.end = load.image]
  <2>1. op' = [op EXCEPT ![p] = o]
    BY <1>5 DEF exec, Goto
  <2>2. o.pc = "uvmalloc"
    BY DEF At, Idle
  <2> HIDE DEF o
  <2> QED
    BY <1>1, <1>2, <2>1, <2>2, SilentMove
<1>6. ASSUME UvmallocFails(p) PROVE Mem' = Mem
  <2> DEFINE o == [At("unmap") EXCEPT !.t = op[p].t, !.i = op[p].from, !.end = op[p].i, !.kid = NoPage]
  <2>1. op' = [op EXCEPT ![p] = o]
    BY <1>6 DEF UvmallocFails, Unmap, Goto
  <2>2. o.pc = "unmap"
    BY DEF At, Idle
  <2> HIDE DEF o
  <2> QED
    BY <1>1, <1>2, <2>1, <2>2, SilentMove
<1>7. ASSUME UvmcopyIncref(p) PROVE Mem' = Mem
  <2> DEFINE o == [op[p] EXCEPT !.pc = "uvmcopy", !.i = @ + 1]
  <2>1. op' = [op EXCEPT ![p] = o]
    BY <1>7 DEF UvmcopyIncref, Goto
  <2>2. o.pc = "uvmcopy"
    BY <1>1 DEF TypeOK
  <2> HIDE DEF o
  <2> QED
    BY <1>1, <1>2, <2>1, <2>2, SilentMove
<1>8. ASSUME UvmallocDone(p), op[p].t = Own(p) PROVE Mem' = Mem
  <2> DEFINE o == Idle
  <2>1. op' = [op EXCEPT ![p] = o]
    BY <1>8 DEF UvmallocDone, Goto
  <2>2. o.pc = "user"
    BY DEF At, Idle
  <2> HIDE DEF o
  <2> QED
    BY <1>1, <1>2, <2>1, <2>2, SilentMove
<1>9. ASSUME NEW va \in Pages, NEW v \in Vals \cup {NoPage}, InUser(p),
             Shared(pt[Own(p)][va].pa), page_change(p, va, v), UNCHANGED content PROVE Mem' = Mem
  <2> DEFINE o == [At("kalloc") EXCEPT !.i = va, !.v = v]
  <2>1. op' = [op EXCEPT ![p] = o]
    BY <1>9 DEF page_change, Goto
  <2>2. o.pc = "kalloc"
    BY DEF At, Idle
  <2> HIDE DEF o
  <2> QED
    BY <1>1, <1>2, <2>1, <2>2, SilentMove
<1> QED
  BY <1>3, <1>4, <1>5, <1>6, <1>7, <1>8, <1>9

\* fork() and wait() begin: the child is not running.
LEMMA ForkWaitView ==
  ASSUME IInv, NEW p \in Procs, NEW k \in Procs, fork(p, k) \/ wait(p, k)
  PROVE  Mem' = Mem
<1>1. TypeOK /\ UNCHANGED <<pt, content>> /\ op[p].pc = "user" /\ op[k].pc \in {"unused", "zombie"} /\ k # p
  BY DEF IInv, fork, wait, InUser, Is
<1>2. /\ op'[k].pc = "used" /\ op'[p].pc \in {"uvmcopy", "unmap"}
      /\ \A q \in Procs : q # p /\ q # k => op'[q] = op[q]
  <2>1. CASE fork(p, k)
    <3> DEFINE o == [At("uvmcopy") EXCEPT !.kid = k, !.end = Size(Own(p))]
    <3>1. op' = [op EXCEPT ![k] = At("used"), ![p] = o] /\ o.pc = "uvmcopy" /\ At("used").pc = "used"
      BY <2>1 DEF fork, At, Idle
    <3> HIDE DEF o
    <3> QED
      BY <1>1, <3>1 DEF TypeOK
  <2>2. CASE wait(p, k)
    <3> DEFINE o == [At("unmap") EXCEPT !.t = Own(k), !.end = Size(Own(k)), !.kid = k]
    <3>1. op' = [op EXCEPT ![k] = At("used"), ![p] = o] /\ o.pc = "unmap" /\ At("used").pc = "used"
      BY <2>2 DEF wait, At, Idle
    <3> HIDE DEF o
    <3> QED
      BY <1>1, <3>1 DEF TypeOK
  <2> QED
    BY <2>1, <2>2
<1>3. Alive(p) /\ Alive(p)' /\ ~Alive(k) /\ ~Alive(k)'
  BY <1>1, <1>2 DEF Alive
<1> QED
  BY <1>1, <1>2, <1>3, StillStep

LEMMA UnmapDoneView ==
  ASSUME IInv, NEW p \in Procs, UnmapDone(p)
  PROVE  Mem' = Mem
<1>1. /\ TypeOK /\ Kids /\ UNCHANGED <<pt, content>> /\ op[p].pc = "unmap"
      /\ op' = [q \in Procs |-> IF q = p THEN Idle ELSE IF q = op[p].kid THEN At("unused") ELSE op[q]]
  BY DEF IInv, UnmapDone, Is
<1>2. Idle.pc = "user" /\ At("unused").pc = "unused"
  BY DEF At, Idle
<1>3. ASSUME NEW q \in Procs
      PROVE  \/ op'[q] = op[q]
             \/ ~Alive(q) /\ ~Alive(q)'
             \/ /\ Alive(q) /\ Alive(q)'
                /\ op[q].pc \notin {"kfreeold", "set"} /\ op'[q].pc \notin {"kfreeold", "set"}
  <2>1. CASE q = p
    BY <1>1, <1>2, <2>1 DEF Alive
  <2>2. CASE q # p /\ q = op[p].kid
    <3>1. op[q].pc = "used"
      BY <1>1, <2>2, ContentsAssumption DEF Kids
    <3> QED
      BY <1>1, <1>2, <2>2, <3>1 DEF Alive
  <2>3. CASE q # p /\ q # op[p].kid
    BY <1>1, <2>3
  <2> QED
    BY <2>1, <2>2, <2>3
<1> QED
  BY <1>1, <1>3, StillStep

\* page_change() takes a frame, and copies.
LEMMA PageKallocView ==
  ASSUME IInv, NEW p \in Procs, PageKalloc(p)
  PROVE  Mem' = Mem
<1>1. TypeOK /\ UNCHANGED pt /\ op[p].pc = "kalloc" /\ Alive(p)
  BY DEF IInv, PageKalloc, Is, Alive
<1>2. PICK f \in free : content' = [content EXCEPT ![f] = Junk]
                        /\ op' = [op EXCEPT ![p] = [op[p] EXCEPT !.pc = "copy", !.pa = f]]
  BY DEF PageKalloc, Goto
<1>3. \A g \in Frames : content'[g] = content[g] \/ g \in free
  BY <1>1, <1>2 DEF TypeOK
<1>4. op'[p].pc = "copy" /\ \A q \in Procs : q # p => op'[q] = op[q]
  <2> DEFINE o == [op[p] EXCEPT !.pc = "copy", !.pa = f]
  <2>1. o.pc = "copy"
    BY <1>1 DEF TypeOK
  <2>2. op' = [op EXCEPT ![p] = o]
    BY <1>2
  <2> HIDE DEF o
  <2> QED
    BY <1>1, <2>1, <2>2, OpMove
<1>5. Alive(p)' /\ \A va \in Pages : ~Limbo(p, Own(p), va)
  BY <1>1, <1>4 DEF Alive, Limbo
<1> QED
  BY <1>1, <1>3, <1>4, <1>5, QuietStep DEF Mapped

LEMMA PageCopyView ==
  ASSUME IInv, NEW p \in Procs, PageCopy(p)
  PROVE  Mem' = Mem
<1>0. /\ op[p].pc = "copy" /\ UNCHANGED pt
      /\ content' = [content EXCEPT ![op[p].pa] = content[OldFrame(p)]]
      /\ op' = [op EXCEPT ![p] = [op[p] EXCEPT !.pc = "dec"]]
  BY DEF PageCopy, Is, Goto
<1>1. TypeOK /\ Alive(p) /\ Holds(p, op[p].pa)
  BY <1>0, FaultFacts
<1>2. op'[p].pc = "dec" /\ \A q \in Procs : q # p => op'[q] = op[q]
  BY <1>0, <1>1, OpStep DEF PCs
<1>3. \A f \in Frames : content'[f] = content[f] \/ Holds(p, f)
  BY <1>0, <1>1 DEF TypeOK
<1>4. Alive(p)' /\ \A va \in Pages : ~Limbo(p, Own(p), va)
  BY <1>0, <1>2 DEF Alive, Limbo
<1> QED
  BY <1>0, <1>1, <1>2, <1>3, <1>4, QuietStep DEF Mapped

\* It drops the old frame, whose content is that of the new one.
LEMMA PageDecrementView ==
  ASSUME IInv, NEW p \in Procs, PageDecrement(p)
  PROVE  Mem' = Mem
<1>0. op[p].pc = "dec" /\ UNCHANGED <<pt, content>>
  BY DEF PageDecrement, Is
<1>1. /\ TypeOK /\ Alive(p) /\ Mapped(Own(p), op[p].i) /\ op[p].i \in Pages
      /\ content[op[p].pa] = content[OldFrame(p)]
  <2>1. Copies
    BY DEF IInv
  <2>2. content[op[p].pa] = content[OldFrame(p)]
    BY <1>0, <2>1 DEF Copies, CopiesOf
  <2> QED
    BY <1>0, <2>2, FaultFacts
<1>2. /\ op'[p].pc \in {"kfreeold", "set"} /\ op'[p].i = op[p].i /\ op'[p].pa = op[p].pa
      /\ \A q \in Procs : q # p => op'[q] = op[q]
  <2> DEFINE c == IF LastRef(OldFrame(p)) THEN "kfreeold" ELSE "set"
  <2>1. c \in PCs /\ c \in {"kfreeold", "set"}
    BY DEF PCs
  <2>2. op' = [op EXCEPT ![p] = [op[p] EXCEPT !.pc = c]]
    BY DEF PageDecrement, Goto
  <2> HIDE DEF c
  <2> QED
    BY <1>1, <2>1, <2>2, OpStep
<1>3. Alive(p)'
  BY <1>2 DEF Alive
<1>4. \A q \in Procs : q # p => Same(q)
  BY <1>0, <1>1, <1>2, ViewOther
<1>5. Same(p)
  <2> SUFFICES ASSUME NEW va \in Pages PROVE View(p, va)' = View(p, va)
    BY DEF Same
  <2>1. View(p, va) = IF Mapped(Own(p), va) THEN content[pt[Own(p)][va].pa] ELSE NoPage
    BY <1>0, <1>1, ViewPlain
  <2>2. CASE va = op[p].i
    BY <1>0, <1>1, <1>2, <1>3, <2>1, <2>2 DEF View, Mapped, OldFrame
  <2>3. CASE va # op[p].i
    BY <1>0, <1>1, <1>2, <1>3, <2>1, <2>3 DEF View, Mapped
  <2> QED
    BY <2>2, <2>3
<1> QED
  BY <1>4, <1>5, AbsSame

LEMMA PageKfreeView ==
  ASSUME IInv, NEW p \in Procs, PageKfree(p)
  PROVE  Mem' = Mem
<1>0. /\ op[p].pc = "kfreeold" /\ UNCHANGED pt
      /\ content' = [content EXCEPT ![OldFrame(p)] = Junk]
      /\ op' = [op EXCEPT ![p] = [op[p] EXCEPT !.pc = "set"]]
  BY DEF PageKfree, Is, Goto, kfree
<1>1. /\ TypeOK /\ Alive(p) /\ HandsInv /\ OldFrame(p) \in Frames /\ op[p].pa \in Frames /\ op[p].i \in Pages
      /\ Mapped(Own(p), op[p].i)
  BY <1>0, FaultFacts
<1>2. /\ op'[p].pc = "set" /\ op'[p].i = op[p].i /\ op'[p].pa = op[p].pa
      /\ \A q \in Procs : q # p => op'[q] = op[q]
  BY <1>0, <1>1, OpStep DEF PCs
<1>3. Holds(p, OldFrame(p)) /\ op[p].pa # OldFrame(p)
  BY <1>0, <1>1 DEF HandsInv, Holds
<1>4. Alive(p)'
  BY <1>2 DEF Alive
<1>5. \A f \in Frames : content'[f] = content[f] \/ Holds(p, f)
  BY <1>0, <1>1, <1>3 DEF TypeOK
<1>6. \A q \in Procs : q # p => Same(q)
  BY <1>0, <1>1, <1>2, <1>5, ViewOther DEF Overwritten
<1>7. content'[op[p].pa] = content[op[p].pa]
  BY <1>0, <1>1, <1>3 DEF TypeOK
<1>8. Same(p)
  <2> SUFFICES ASSUME NEW va \in Pages PROVE View(p, va)' = View(p, va)
    BY DEF Same
  <2>1. CASE va = op[p].i
    BY <1>0, <1>1, <1>2, <1>4, <1>7, <2>1 DEF View, Mapped
  <2>2. CASE va # op[p].i
    <3>1. ~Limbo(p, Own(p), va)
      BY <2>2 DEF Limbo
    <3>2. Mapped(Own(p), va) => content'[pt[Own(p)][va].pa] = content[pt[Own(p)][va].pa]
      BY <1>1, <1>5, <3>1, OwnKept
    <3> QED
      BY <1>0, <1>1, <1>2, <1>4, <2>2, <3>2 DEF View, Mapped
  <2> QED
    BY <2>1, <2>2
<1> QED
  BY <1>6, <1>8, AbsSame

LEMMA PageSetView ==
  ASSUME IInv, NEW p \in Procs, PageSet(p)
  PROVE  Mem' = Mem
<1> DEFINE e == Writable(pt[Own(p)][op[p].i], op[p].pa)
           o == Resumed(op[p].v, op[p].i)
<1>0. /\ op[p].pc = "set" /\ UNCHANGED content
      /\ pt' = [pt EXCEPT ![Own(p)][op[p].i] = e]
      /\ op' = [op EXCEPT ![p] = o]
  BY DEF PageSet, Is, Goto, Resumed
<1>1. /\ TypeOK /\ Alive(p) /\ op[p].i \in Pages /\ Mapped(Own(p), op[p].i)
      /\ Own(p) \in Tables /\ Own(p) \in Mine(p) /\ op[p].pa \in Frames /\ op[p].v \in Vals \cup {NoPage}
  BY <1>0, FaultFacts, Types
<1>2. o.pc \in {"user", "write"}
  BY <1>1, ResumeFields
<1>3. e.pa = op[p].pa /\ e # NoPage
  <2>1. pt[Own(p)][op[p].i] \in PTEs
    BY <1>1, Types
  <2>2. e \in PTEs /\ e.pa = op[p].pa
    BY <1>1, <2>1 DEF Writable, PTEs
  <2> QED
    BY <2>2, ContentsAssumption DEF PTEs
<1> HIDE DEF e, o
<1>4. op'[p] = o /\ \A q \in Procs : q # p => op'[q] = op[q]
  BY <1>0, <1>1, OpMove
<1>5. Alive(p)' /\ op'[p].pc \notin {"kfreeold", "set"}
  BY <1>2, <1>4 DEF Alive
<1>6. /\ \A t \in Tables : t # Own(p) => pt'[t] = pt[t]
      /\ pt'[Own(p)][op[p].i] = e
      /\ \A va \in Pages : va # op[p].i => pt'[Own(p)][va] = pt[Own(p)][va]
  BY <1>0, <1>1 DEF TypeOK
<1>7. \A q \in Procs : q # p => Same(q)
  <2>1. \A t \in Tables : t \notin Mine(p) => pt'[t] = pt[t]
    BY <1>1, <1>6
  <2> QED
    BY <1>0, <1>1, <1>4, <2>1, ViewOther
<1>8. Same(p)
  <2> SUFFICES ASSUME NEW va \in Pages PROVE View(p, va)' = View(p, va)
    BY DEF Same
  <2>1. CASE va = op[p].i
    BY <1>0, <1>1, <1>3, <1>5, <1>6, <2>1 DEF View, Mapped
  <2>2. CASE va # op[p].i
    BY <1>0, <1>1, <1>5, <1>6, <2>2 DEF View, Mapped
  <2> QED
    BY <2>1, <2>2
<1> QED
  BY <1>7, <1>8, AbsSame

LEMMA PageAloneView ==
  ASSUME IInv, NEW p \in Procs, NEW va \in Pages, NEW v \in Vals \cup {NoPage}, InUser(p),
         Mapped(Own(p), va), ~Shared(pt[Own(p)][va].pa), page_change(p, va, v), UNCHANGED content
  PROVE  Mem' = Mem
<1> DEFINE e == Writable(pt[Own(p)][va], pt[Own(p)][va].pa)
           o == Resumed(v, va)
<1>0. op' = [op EXCEPT ![p] = o] /\ pt' = [pt EXCEPT ![Own(p)][va] = e]
  BY DEF page_change, Goto, Resumed
<1>1. TypeOK /\ Kids /\ Alive(p) /\ op[p].pc = "user" /\ Own(p) \in Tables
  BY InUserFacts, Names DEF IInv
<1>2. o.pc \in {"user", "write"}
  BY ResumeFields
<1>3. e.pa = pt[Own(p)][va].pa /\ e # NoPage
  <2>1. pt[Own(p)][va] \in PTEs /\ pt[Own(p)][va].pa \in Frames
    BY <1>1, Types
  <2>2. e \in PTEs /\ e.pa = pt[Own(p)][va].pa
    BY <2>1 DEF Writable, PTEs
  <2> QED
    BY <2>2, ContentsAssumption DEF PTEs
<1> HIDE DEF e, o
<1>4. op'[p] = o /\ \A q \in Procs : q # p => op'[q] = op[q]
  BY <1>0, <1>1, OpMove
<1>5. Alive(p)' /\ op'[p].pc \notin {"kfreeold", "set"} /\ \A wa \in Pages : ~Limbo(p, Own(p), wa)
  BY <1>1, <1>2, <1>4 DEF Alive, Limbo
<1>6. /\ \A t \in Tables : t # Own(p) => pt'[t] = pt[t]
      /\ pt'[Own(p)][va] = e
      /\ \A wa \in Pages : wa # va => pt'[Own(p)][wa] = pt[Own(p)][wa]
  BY <1>0, <1>1 DEF TypeOK
<1>7. /\ \A t \in Tables : t \notin Mine(p) => pt'[t] = pt[t]
      /\ \A wa \in Pages : /\ Mapped(Own(p), wa)' <=> Mapped(Own(p), wa)
                           /\ Mapped(Own(p), wa) => pt'[Own(p)][wa].pa = pt[Own(p)][wa].pa
  BY <1>1, <1>3, <1>6, MineOp DEF Mapped
<1> QED
  BY <1>1, <1>4, <1>5, <1>7, QuietStep

\* Stores, by the program and by copyout(): the written frame is in no other
\* entry of this process.
LEMMA WriteView ==
  ASSUME IInv, NEW p \in Procs, op[p].pc \in {"user", "write"}, op'[p].pc = "user",
         \A q \in Procs : q # p => op'[q] = op[q], UNCHANGED pt,
         NEW va \in Pages, NEW v \in Vals, Mapped(Own(p), va), pt[Own(p)][va].w,
         content' = [content EXCEPT ![pt[Own(p)][va].pa] = v]
  PROVE  PM!Next
<1>1. TypeOK /\ Exclusive /\ Alive(p) /\ Alive(p)' /\ Own(p) \in Tables
  BY Names DEF IInv, Alive
<1>2. pt[Own(p)][va].pa \in Frames /\ ~pt[Own(p)][va].cow
  BY <1>1, Types
<1>3. content'[pt[Own(p)][va].pa] = v /\ \A f \in Frames : f # pt[Own(p)][va].pa => content'[f] = content[f]
  BY <1>1, <1>2 DEF TypeOK
<1>4. \A f \in Frames : content'[f] = content[f] \/ Overwritten(p, f)
  BY <1>3 DEF Overwritten
<1>5. \A q \in Procs : q # p => Same(q)
  BY <1>1, <1>4, ViewOther
<1>6. ASSUME NEW wa \in Pages
      PROVE  /\ View(p, wa) = IF Mapped(Own(p), wa) THEN content[pt[Own(p)][wa].pa] ELSE NoPage
             /\ View(p, wa)' = IF Mapped(Own(p), wa) THEN content'[pt[Own(p)][wa].pa] ELSE NoPage
  BY <1>1 DEF View, Mapped
<1>7. View(p, va) # NoPage /\ View(p, va)' = v
  <2>1. content[pt[Own(p)][va].pa] \in Vals \cup {Zero, Junk}
    BY <1>1, <1>2 DEF TypeOK
  <2> QED
    BY <1>3, <1>6, <2>1, ContentsAssumption
<1>8. ASSUME NEW wa \in Pages, wa # va PROVE View(p, wa)' = View(p, wa)
  <2>1. CASE ~Mapped(Own(p), wa)
    BY <1>6, <2>1
  <2>2. CASE Mapped(Own(p), wa)
    <3>1. ~DroppedAt(Own(p), wa)
      <4> SUFFICES ASSUME NEW q \in Procs, op[q].pc \in {"kfreeold", "set"}, Own(p) = Own(q) PROVE FALSE
        BY DEF DroppedAt
      <4>1. q = p
        BY Names
      <4> QED
        BY <4>1
    <3>2. pt[Own(p)][wa].pa # pt[Own(p)][va].pa
      BY <1>1, <1>2, <1>8, <2>2, <3>1 DEF Exclusive
    <3>3. pt[Own(p)][wa].pa \in Frames
      BY <1>1, <2>2, Types
    <3> QED
      BY <1>3, <1>6, <2>2, <3>2, <3>3
  <2> QED
    BY <2>1, <2>2
<1> QED
  BY <1>5, <1>7, <1>8, AbsWrite

LEMMA StoreView ==
  ASSUME IInv, NEW p \in Procs, NEW va \in Pages, NEW v \in Vals, Store(p, va, v)
  PROVE  PM!Next
<1>0. /\ InUser(p) /\ Mapped(Own(p), va) /\ pt[Own(p)][va].w
      /\ content' = [content EXCEPT ![pt[Own(p)][va].pa] = v]
      /\ UNCHANGED <<pt, op>>
  BY DEF Store
<1>1. op[p].pc = "user" /\ op'[p].pc = "user" /\ \A q \in Procs : q # p => op'[q] = op[q]
  BY <1>0 DEF InUser, Is
<1> QED
  BY <1>0, <1>1, WriteView

LEMMA CopyoutWriteView ==
  ASSUME IInv, NEW p \in Procs, CopyoutWrite(p)
  PROVE  PM!Next
<1>0. /\ op[p].pc = "write"
      /\ content' = [content EXCEPT ![pt[Own(p)][op[p].i].pa] = op[p].v]
      /\ op' = [op EXCEPT ![p] = Idle]
      /\ UNCHANGED pt
  BY DEF CopyoutWrite, Is, Goto, OldFrame
<1>1. TypeOK /\ Layout(p)
  BY DEF IInv, LayoutInv
<1>2. op'[p].pc = "user" /\ \A q \in Procs : q # p => op'[q] = op[q]
  BY <1>0, <1>1, OpMove, AtFields DEF PCs
<1>3. op[p].i \in Pages /\ Mapped(Own(p), op[p].i) /\ pt[Own(p)][op[p].i].w /\ op[p].v \in Vals
  BY <1>0, <1>1, Types DEF Layout
<1> QED
  BY <1>0, <1>2, <1>3, WriteView

\* The parent's entries are made copy-on-write one by one, the child's are not
\* yet in use.
LEMMA UvmcopyView ==
  ASSUME IInv, NEW p \in Procs, uvmcopy(p) \/ UvmcopyFails(p)
  PROVE  Mem' = Mem
<1> DEFINE e == CowEntry(pt[Own(p)][op[p].i])
<1>0. /\ op[p].pc = "uvmcopy" /\ op[p].i < op[p].end /\ UNCHANGED content
      /\ \/ pt' = [pt EXCEPT ![Own(p)][op[p].i] = e, ![Own(op[p].kid)][op[p].i] = e]
         \/ pt' = [pt EXCEPT ![Own(p)][op[p].i] = e]
  BY DEF uvmcopy, UvmcopyFails, Is
<1>1. /\ TypeOK /\ Alive(p) /\ Own(p) \in Tables /\ Own(op[p].kid) \in Tables /\ Own(p) # Own(op[p].kid)
      /\ Own(p) \in Mine(p) /\ Own(op[p].kid) \in Mine(p)
      /\ op[p].i \in Pages /\ Mapped(Own(p), op[p].i)
  BY <1>0, CopyFacts
<1>2. e.pa = pt[Own(p)][op[p].i].pa /\ e # NoPage
  <2>1. pt[Own(p)][op[p].i] \in PTEs
    BY <1>1, Types
  <2> QED
    BY <2>1, CowEntryFacts
<1>3. op'[p].pc \in {"incref", "unmap"} /\ \A q \in Procs : q # p => op'[q] = op[q]
  <2>1. CASE uvmcopy(p)
    <3>1. op' = [op EXCEPT ![p] = [op[p] EXCEPT !.pc = "incref"]]
      BY <2>1 DEF uvmcopy, Goto
    <3> QED
      BY <1>1, <3>1, OpStep DEF PCs
  <2>2. CASE UvmcopyFails(p)
    <3> DEFINE o == [At("unmap") EXCEPT !.t = Own(op[p].kid), !.i = 0, !.end = op[p].i, !.kid = op[p].kid]
    <3>1. op' = [op EXCEPT ![p] = o] /\ o.pc = "unmap"
      BY <2>2 DEF UvmcopyFails, Unmap, Goto, At, Idle
    <3> HIDE DEF o
    <3> QED
      BY <1>1, <3>1, OpMove
  <2> QED
    BY <2>1, <2>2
<1> HIDE DEF e
<1>4. /\ \A t \in Tables : t # Own(p) /\ t # Own(op[p].kid) => pt'[t] = pt[t]
      /\ pt'[Own(p)][op[p].i] = e
      /\ \A wa \in Pages : wa # op[p].i => pt'[Own(p)][wa] = pt[Own(p)][wa]
  BY <1>0, <1>1, ZenonT(60) DEF TypeOK
<1>5. /\ \A t \in Tables : t \notin Mine(p) => pt'[t] = pt[t]
      /\ \A wa \in Pages : /\ Mapped(Own(p), wa)' <=> Mapped(Own(p), wa)
                           /\ Mapped(Own(p), wa) => pt'[Own(p)][wa].pa = pt[Own(p)][wa].pa
  BY <1>1, <1>2, <1>4 DEF Mapped
<1>6. Alive(p)' /\ \A wa \in Pages : ~Limbo(p, Own(p), wa)
  BY <1>0, <1>3 DEF Alive, Limbo
<1> QED
  BY <1>0, <1>1, <1>3, <1>5, <1>6, QuietStep

\* fork() returns: the child's memory is its parent's.
LEMMA ForkDoneView ==
  ASSUME IInv, NEW p \in Procs, ForkDone(p)
  PROVE  PM!Next
<1>0. /\ op[p].pc = "uvmcopy" /\ op[p].i = op[p].end /\ UNCHANGED <<pt, content>>
      /\ op' = [op EXCEPT ![p] = Idle, ![op[p].kid] = Idle]
  BY DEF ForkDone, Is
<1>1. TypeOK /\ Kids /\ Layout(p)
  BY DEF IInv, LayoutInv
<1>2. PICK k \in Procs : k = op[p].kid
  BY <1>0, <1>1, Types DEF Kids
<1>3. k # p /\ op[k].pc = "used"
  BY <1>0, <1>1, <1>2, ContentsAssumption DEF Kids
<1>4. op'[p].pc = "user" /\ op'[k].pc = "user" /\ \A q \in Procs : q # p /\ q # k => op'[q] = op[q]
  BY <1>0, <1>1, <1>2, <1>3 DEF TypeOK, Idle
<1>5. Alive(p) /\ Alive(p)' /\ ~Alive(k) /\ Alive(k)'
  BY <1>0, <1>3, <1>4 DEF Alive
<1>6. ASSUME NEW va \in Pages
      PROVE  /\ Mapped(Own(k), va) <=> Mapped(Own(p), va)
             /\ Mapped(Own(k), va) => pt[Own(k)][va] = pt[Own(p)][va]
  BY <1>0, <1>1, <1>2 DEF Layout, Dense
<1>7. ASSUME NEW q \in Procs, q # k PROVE Same(q)
  <2>1. CASE q = p
    BY <1>0, <1>4, <1>5, <2>1 DEF Same, View, Mapped
  <2>2. CASE q # p
    <3>1. op'[q] = op[q]
      BY <1>4, <1>7, <2>2
    <3> QED
      BY <1>0, <3>1 DEF Same, View, Alive, Mapped
  <2> QED
    BY <2>1, <2>2
<1>8. ASSUME NEW va \in Pages PROVE View(k, va) = NoPage /\ View(k, va)' = View(p, va)
  <2>1. View(k, va) = NoPage
    BY <1>5 DEF View
  <2>2. View(p, va) = IF Mapped(Own(p), va) THEN content[pt[Own(p)][va].pa] ELSE NoPage
    BY <1>0, <1>5, ViewPlain
  <2>3. View(k, va)' = IF Mapped(Own(k), va) THEN content[pt[Own(k)][va].pa] ELSE NoPage
    BY <1>0, <1>4, <1>5 DEF View, Mapped
  <2> QED
    BY <1>6, <2>1, <2>2, <2>3
<1> QED
  BY <1>3, <1>7, <1>8, AbsFork

\* A step of p in a table that is not the one it runs on.
LEMMA AsideStep ==
  ASSUME IInv, NEW p \in Procs, Alive(p), \A q \in Procs : q # p => op'[q] = op[q],
         op[p].pc \in {"unmap", "kfree", "uvmalloc", "map"}, op'[p].pc \in {"unmap", "kfree", "uvmalloc", "map"},
         op[p].t # Own(p) \/ op[p].pc # "kfree",
         pt'[Own(p)] = pt[Own(p)],
         \A t \in Tables : t \notin Mine(p) => pt'[t] = pt[t],
         \A f \in Frames : content'[f] = content[f] \/ f \in free \/ Holds(p, f)
  PROVE  Mem' = Mem
<1>1. Alive(p)' /\ \A va \in Pages : ~Limbo(p, Own(p), va)
  BY DEF Alive, Limbo
<1> QED
  BY <1>1, QuietStep DEF Mapped

LEMMA UvmallocView ==
  ASSUME IInv, NEW p \in Procs, uvmalloc(p)
  PROVE  Mem' = Mem
<1>1. TypeOK /\ UNCHANGED pt /\ op[p].pc = "uvmalloc" /\ Alive(p)
  BY DEF IInv, uvmalloc, Is, Alive
<1>2. PICK f \in free : content' = [content EXCEPT ![f] = Zero]
                        /\ op' = [op EXCEPT ![p] = [op[p] EXCEPT !.pc = "map", !.pa = f]]
  BY DEF uvmalloc, Goto
<1>3. \A g \in Frames : content'[g] = content[g] \/ g \in free
  BY <1>1, <1>2 DEF TypeOK
<1>4. op'[p].pc = "map" /\ \A q \in Procs : q # p => op'[q] = op[q]
  <2> DEFINE o == [op[p] EXCEPT !.pc = "map", !.pa = f]
  <2>1. o.pc = "map"
    BY <1>1 DEF TypeOK
  <2>2. op' = [op EXCEPT ![p] = o]
    BY <1>2
  <2> HIDE DEF o
  <2> QED
    BY <1>1, <2>1, <2>2, OpMove
<1> QED
  BY <1>1, <1>3, <1>4, AsideStep

LEMMA UvmallocMapFailsView ==
  ASSUME IInv, NEW p \in Procs, UvmallocMapFails(p)
  PROVE  Mem' = Mem
<1> DEFINE o == [At("unmap") EXCEPT !.t = op[p].t, !.i = op[p].from, !.end = op[p].i, !.kid = NoPage]
<1>1. /\ TypeOK /\ UNCHANGED pt /\ op[p].pc = "map" /\ Alive(p)
      /\ content' = [content EXCEPT ![op[p].pa] = Junk]
      /\ op' = [op EXCEPT ![p] = o]
  BY DEF IInv, UvmallocMapFails, Is, Alive, GiveBack, kfree, Unmap, Goto
<1>2. o.pc = "unmap"
  BY DEF At, Idle
<1> HIDE DEF o
<1>3. op'[p].pc = "unmap" /\ \A q \in Procs : q # p => op'[q] = op[q]
  BY <1>1, <1>2, OpMove
<1>4. \A f \in Frames : content'[f] = content[f] \/ Holds(p, f)
  BY <1>1 DEF TypeOK, Holds
<1> QED
  BY <1>1, <1>3, <1>4, AsideStep

\* uvmalloc() maps a page of zeroes, at once if not for exec().
LEMMA UvmallocMapView ==
  ASSUME IInv, NEW p \in Procs, UvmallocMap(p)
  PROVE  Mem' = Mem \/ PM!Next
<1> DEFINE e == [pa |-> op[p].pa, w |-> ~(op[p].t = New(p) /\ op[p].i \in load.text), cow |-> FALSE]
           o == [op[p] EXCEPT !.pc = "uvmalloc", !.i = @ + 1, !.pa = NoPage]
<1>0. /\ op[p].pc = "map" /\ UNCHANGED content
      /\ pt' = [pt EXCEPT ![op[p].t][op[p].i] = e]
      /\ op' = [op EXCEPT ![p] = o]
  BY DEF UvmallocMap, Is, Goto
<1>1. /\ TypeOK /\ Kids /\ Alive(p) /\ op[p].t \in Tables /\ op[p].t \in Mine(p)
      /\ op[p].i \in Pages /\ ~Mapped(op[p].t, op[p].i) /\ Own(p) \in Tables
      /\ content[op[p].pa] = Zero
  <2>1. Copies
    BY DEF IInv
  <2>2. content[op[p].pa] = Zero
    BY <1>0, <2>1 DEF Copies, CopiesOf
  <2> QED
    BY <1>0, <2>2, AllocFacts, Names
<1>2. e.pa = op[p].pa /\ e # NoPage
  <2>1. op[p].pa \in Frames
    BY <1>0, <1>1, Types DEF IInv, HandsInv
  <2>2. (~(op[p].t = New(p) /\ op[p].i \in load.text)) \in BOOLEAN
    OBVIOUS
  <2>3. e \in PTEs /\ e.pa = op[p].pa
    BY <2>1, <2>2 DEF PTEs
  <2> QED
    BY <2>3, ContentsAssumption DEF PTEs
<1>3. o.pc = "uvmalloc"
  BY <1>1 DEF TypeOK
<1> HIDE DEF e, o
<1>4. op'[p].pc = "uvmalloc" /\ \A q \in Procs : q # p => op'[q] = op[q]
  BY <1>0, <1>1, <1>3, OpMove
<1>5. /\ \A t \in Tables : t # op[p].t => pt'[t] = pt[t]
      /\ pt'[op[p].t][op[p].i] = e
      /\ \A wa \in Pages : wa # op[p].i => pt'[op[p].t][wa] = pt[op[p].t][wa]
  BY <1>0, <1>1 DEF TypeOK
<1>6. \A t \in Tables : t \notin Mine(p) => pt'[t] = pt[t]
  BY <1>1, <1>5
<1>7. CASE op[p].t # Own(p)
  <2>1. pt'[Own(p)] = pt[Own(p)]
    BY <1>1, <1>5, <1>7
  <2>2. Mem' = Mem
    BY <1>0, <1>1, <1>4, <1>6, <1>7, <2>1, AsideStep
  <2> QED
    BY <2>2
<1>8. CASE op[p].t = Own(p)
  <2>1. \A q \in Procs : q # p => Same(q)
    BY <1>0, <1>1, <1>4, <1>6, ViewOther
  <2>2. Alive(p)'
    BY <1>4 DEF Alive
  <2>3. PICK m \in Pages : m = op[p].i
    BY <1>1
  <2>4. View(p, m) = NoPage
    BY <1>1, <1>8, <2>3 DEF View
  <2>5. View(p, m)' = Zero
    <3>1. pt'[Own(p)][m] = e
      BY <1>5, <1>8, <2>3
    <3> QED
      BY <1>0, <1>1, <1>2, <1>4, <2>2, <3>1 DEF View, Mapped
  <2>6. ASSUME NEW wa \in Pages, wa # m PROVE View(p, wa)' = View(p, wa)
    <3>1. pt'[Own(p)][wa] = pt[Own(p)][wa]
      BY <1>5, <1>8, <2>3, <2>6
    <3> QED
      BY <1>0, <1>1, <1>4, <2>2, <3>1 DEF View, Mapped
  <2> QED
    BY <2>1, <2>4, <2>5, <2>6, AbsMap
<1> QED
  BY <1>7, <1>8

\* exec() switches to the new table, which holds nothing but pages of zeroes.
LEMMA UvmallocDoneView ==
  ASSUME IInv, NEW p \in Procs, UvmallocDone(p), op[p].t # Own(p)
  PROVE  PM!Next
<1> DEFINE o == [At("unmap") EXCEPT !.t = New(p), !.i = 0, !.end = Size(Own(p)), !.kid = NoPage]
<1>0. /\ op[p].pc = "uvmalloc" /\ op[p].i = op[p].end /\ UNCHANGED content
      /\ pt' = [pt EXCEPT ![Own(p)] = pt[New(p)], ![New(p)] = pt[Own(p)]]
      /\ op' = [op EXCEPT ![p] = o]
  BY DEF UvmallocDone, Is, Goto, Unmap
<1>1. /\ TypeOK /\ Kids /\ Layout(p) /\ Copies /\ Alive(p)
      /\ Own(p) \in Tables /\ New(p) \in Tables /\ Own(p) # New(p)
  BY <1>0, Names DEF IInv, LayoutInv, Alive
<1>2. op[p].t = New(p)
  BY <1>0, <1>1 DEF Kids
<1>3. op[p].i \in 1 .. NPages /\ Dense(New(p), op[p].i)
  <2>1. Dense(New(p), op[p].i) /\ 1 <= op[p].end
    BY <1>0, <1>1, <1>2 DEF Layout
  <2>2. op[p].i \in 0 .. NPages
    BY <1>1, Types
  <2> QED
    BY <1>0, <2>1, <2>2, PagesAssumption
<1>4. PICK n \in 1 .. NPages : n = op[p].i
  BY <1>3
<1>5. ASSUME NEW va \in Pages PROVE Mapped(New(p), va) => content[pt[New(p)][va].pa] = Zero
  BY <1>0, <1>1, <1>2 DEF Copies, CopiesOf
<1>6. o.pc = "unmap"
  BY DEF At, Idle
<1> HIDE DEF o
<1>7. op'[p].pc = "unmap" /\ \A q \in Procs : q # p => op'[q] = op[q]
  BY <1>0, <1>1, <1>6, OpMove
<1>8. pt'[Own(p)] = pt[New(p)] /\ \A t \in Tables : t # Own(p) /\ t # New(p) => pt'[t] = pt[t]
  BY <1>0, <1>1 DEF TypeOK
<1>9. \A q \in Procs : q # p => Same(q)
  <2>1. \A t \in Tables : t \notin Mine(p) => pt'[t] = pt[t]
    BY <1>1, <1>8, MineOp
  <2> QED
    BY <1>0, <1>1, <1>7, <2>1, ViewOther
<1>10. Alive(p)'
  BY <1>7 DEF Alive
<1>11. ASSUME NEW va \in Pages PROVE View(p, va)' = IF va < n THEN Zero ELSE NoPage
  <2>1. Mapped(New(p), va) <=> va < n
    BY <1>3, <1>4 DEF Dense
  <2>2. View(p, va)' = IF Mapped(New(p), va) THEN content[pt[New(p)][va].pa] ELSE NoPage
    BY <1>0, <1>7, <1>8, <1>10 DEF View, Mapped
  <2> QED
    BY <1>5, <2>1, <2>2
<1> QED
  BY <1>9, <1>11, AbsExec

\* uvmunmap() takes a page from the process that shrinks; other tables that it
\* frees are not in use.
LEMMA ClearView ==
  ASSUME IInv, NEW p \in Procs, Alive(p), op[p].pc \in {"unmap", "kfree"}, op'[p].pc = "unmap",
         op[p].t \in Tables, op[p].t \in Mine(p), op[p].i \in Pages,
         \A q \in Procs : q # p => op'[q] = op[q],
         pt' = [pt EXCEPT ![op[p].t][op[p].i] = NoPage],
         \A f \in Frames : content'[f] = content[f] \/ Holds(p, f)
  PROVE  Mem' = Mem \/ PM!Next
<1>1. TypeOK /\ Own(p) \in Tables
  BY Names DEF IInv
<1>2. /\ \A t \in Tables : t # op[p].t => pt'[t] = pt[t]
      /\ pt'[op[p].t][op[p].i] = NoPage
      /\ \A wa \in Pages : wa # op[p].i => pt'[op[p].t][wa] = pt[op[p].t][wa]
  BY <1>1 DEF TypeOK
<1>3. \A t \in Tables : t \notin Mine(p) => pt'[t] = pt[t]
  BY <1>2
<1>4. CASE op[p].t # Own(p)
  <2>1. pt'[Own(p)] = pt[Own(p)]
    BY <1>1, <1>2, <1>4
  <2>2. Mem' = Mem
    BY <1>3, <1>4, <2>1, AsideStep
  <2> QED
    BY <2>2
<1>5. CASE op[p].t = Own(p)
  <2>1. \A q \in Procs : q # p => Same(q)
    BY <1>3, ViewOther DEF Overwritten
  <2>2. PICK m \in Pages : m = op[p].i
    OBVIOUS
  <2>3. View(p, m)' = NoPage
    <3>1. pt'[Own(p)][m] = NoPage
      BY <1>2, <1>5, <2>2
    <3> QED
      BY <3>1 DEF View, Mapped
  <2>4. ASSUME NEW wa \in Pages, wa # m PROVE View(p, wa)' = View(p, wa)
    <3>1. pt'[Own(p)][wa] = pt[Own(p)][wa]
      BY <1>2, <1>5, <2>2, <2>4
    <3>2. ~Limbo(p, Own(p), wa)
      BY <2>2, <2>4 DEF Limbo
    <3>3. Mapped(Own(p), wa) => content'[pt[Own(p)][wa].pa] = content[pt[Own(p)][wa].pa]
      BY <3>2, OwnKept
    <3>4. Alive(p)'
      BY DEF Alive
    <3> QED
      BY <3>1, <3>3, <3>4 DEF View, Mapped
  <2> QED
    BY <2>1, <2>3, <2>4, AbsUnmap
<1> QED
  BY <1>4, <1>5

LEMMA UvmunmapView ==
  ASSUME IInv, NEW p \in Procs, uvmunmap(p)
  PROVE  Mem' = Mem \/ PM!Next
<1> DEFINE g == pt[op[p].t][op[p].i].pa
<1>0. /\ op[p].pc = "unmap" /\ op[p].i < op[p].end /\ UNCHANGED content
      /\ \/ op' = [op EXCEPT ![p] = [op[p] EXCEPT !.pc = "kfree"]] /\ UNCHANGED pt
         \/ /\ pt' = [pt EXCEPT ![op[p].t][op[p].i] = NoPage]
            /\ op' = [op EXCEPT ![p] = [op[p] EXCEPT !.i = @ + 1]]
  BY DEF uvmunmap, Is, Goto
<1>1. /\ TypeOK /\ Alive(p) /\ op[p].t \in Tables /\ op[p].t \in Mine(p) /\ op[p].i \in Pages
      /\ op[p].i + 1 \in 0 .. NPages
  BY <1>0, UnmapFacts
<1>2. CASE op' = [op EXCEPT ![p] = [op[p] EXCEPT !.pc = "kfree"]] /\ UNCHANGED pt
  <2>1. op'[p].pc = "kfree"
    BY <1>1, <1>2, OpStep DEF PCs
  <2>2. \A q \in Procs : q # p => op'[q] = op[q]
    BY <1>1, <1>2, OpStep DEF PCs
  <2>3. Mem' = Mem
    BY <1>0, <1>1, <1>2, <2>1, <2>2, AsideStep
  <2> QED
    BY <2>3
<1>3. CASE /\ pt' = [pt EXCEPT ![op[p].t][op[p].i] = NoPage]
           /\ op' = [op EXCEPT ![p] = [op[p] EXCEPT !.i = @ + 1]]
  <2> DEFINE o == [op[p] EXCEPT !.i = @ + 1]
  <2>1. o.pc = "unmap"
    BY <1>0, <1>1 DEF TypeOK
  <2>2. op' = [op EXCEPT ![p] = o]
    BY <1>3
  <2> HIDE DEF o
  <2>3. op'[p].pc = "unmap" /\ \A q \in Procs : q # p => op'[q] = op[q]
    BY <1>1, <2>1, <2>2, OpMove
  <2> QED
    BY <1>0, <1>1, <1>3, <2>3, ClearView
<1> QED
  BY <1>0, <1>2, <1>3

LEMMA UnmapKfreeView ==
  ASSUME IInv, NEW p \in Procs, UnmapKfree(p)
  PROVE  Mem' = Mem \/ PM!Next
<1>0. /\ op[p].pc = "kfree"
      /\ content' = [content EXCEPT ![pt[op[p].t][op[p].i].pa] = Junk]
      /\ pt' = [pt EXCEPT ![op[p].t][op[p].i] = NoPage]
      /\ op' = [op EXCEPT ![p] = [op[p] EXCEPT !.pc = "unmap", !.i = @ + 1]]
  BY DEF UnmapKfree, Is, Goto, kfree
<1>1. /\ TypeOK /\ Alive(p) /\ op[p].t \in Tables /\ op[p].t \in Mine(p) /\ op[p].i \in Pages
      /\ op[p].i + 1 \in 0 .. NPages
  BY <1>0, UnmapFacts
<1>2. op'[p].pc = "unmap" /\ \A q \in Procs : q # p => op'[q] = op[q]
  BY <1>0, <1>1, OpNext DEF PCs
<1>3. \A f \in Frames : content'[f] = content[f] \/ Holds(p, f)
  BY <1>0, <1>1 DEF TypeOK, Holds
<1> QED
  BY <1>0, <1>1, <1>2, <1>3, ClearView

\* Every step is one of private memory, or is not seen.
LEMMA NextView ==
  ASSUME IInv, [Next]_vars
  PROVE  Mem' = Mem \/ PM!Next
<1>1. ASSUME UNCHANGED <<pt, content, op>> PROVE Mem' = Mem
  <2>1. \A q \in Procs : op'[q] = op[q]
    BY <1>1
  <2> QED
    BY <1>1, <2>1, StillStep
<1>2. CASE UNCHANGED vars
  BY <1>1, <1>2 DEF vars
<1>3. CASE Halted
  BY <1>1, <1>3 DEF Halted, vars
<1>4. ASSUME NEW p \in Procs, Step(p) PROVE Mem' = Mem \/ PM!Next
  <2>0. TypeOK
    BY DEF IInv
  <2>1. ASSUME NEW va \in Pages, NEW v \in Vals \cup {NoPage}, InUser(p), Mapped(Own(p), va),
               page_change(p, va, v), UNCHANGED content
        PROVE  Mem' = Mem
    BY <2>1, CallView, PageAloneView
  <2>2. ASSUME NEW va \in Pages, NEW v \in Vals, copyout(p, va, v) PROVE Mem' = Mem
    BY <2>1, <2>2 DEF copyout
  <2>3. ASSUME NEW va \in Pages, PageFault(p, va) PROVE Mem' = Mem
    BY <2>1, <2>3 DEF PageFault
  <2>4. ASSUME NEW va \in Pages, BadFault(p, va) PROVE Mem' = Mem \/ PM!Next
    BY <2>0, <2>4, DieView DEF BadFault
  <2>5. ASSUME exit(p) PROVE Mem' = Mem \/ PM!Next
    BY <2>0, <2>5, DieView DEF exit
  <2>6. ASSUME StoreBeyondMAXVA(p) PROVE Mem' = Mem
    BY <1>1, <2>6 DEF StoreBeyondMAXVA
  <2>7. ASSUME \/ \E n \in Pages : sbrk(p, n + 1)
               \/ \E n \in Pages : Shrink(p, n)
               \/ exec(p)
               \/ UvmallocFails(p)
               \/ UvmcopyIncref(p)
        PROVE  Mem' = Mem
    BY <2>7, CallView
  <2>8. ASSUME UvmallocDone(p) PROVE Mem' = Mem \/ PM!Next
    BY <2>8, CallView, UvmallocDoneView
  <2> QED
    BY <1>4, <2>2, <2>3, <2>4, <2>5, <2>6, <2>7, <2>8, PageKallocView, PageKallocFailsView, PageCopyView,
       PageDecrementView, PageKfreeView, PageSetView, StoreView, CopyoutWriteView, UvmunmapView,
       UnmapKfreeView, UnmapDoneView, ForkWaitView, UvmcopyView, ForkDoneView, UvmallocView,
       UvmallocMapView, UvmallocMapFailsView DEF Step
<1> QED
  BY <1>2, <1>3, <1>4 DEF Next

LEMMA InitView == Init => PM!Init
<1> SUFFICES ASSUME Init PROVE PM!Init
  OBVIOUS
<1>1. PICK f \in Frames :
        /\ pt = [t \in Tables |->
                   IF t = Own(initproc)
                   THEN [NoTable EXCEPT ![0] = [pa |-> f, w |-> TRUE, cow |-> FALSE]]
                   ELSE NoTable]
        /\ content = [g \in Frames |-> IF g = f THEN Zero ELSE Junk]
        /\ op = [p \in Procs |-> IF p = initproc THEN Idle ELSE At("unused")]
  BY DEF Init
<1> DEFINE e == [pa |-> f, w |-> TRUE, cow |-> FALSE]
<1>2. e.pa = f /\ e # NoPage
  <2>1. e \in [pa : Frames, w : BOOLEAN, cow : BOOLEAN]
    OBVIOUS
  <2> QED
    BY <2>1, ContentsAssumption
<1> HIDE DEF e
<1>3. initproc \in Procs /\ Own(initproc) \in Tables /\ 0 \in Pages
  BY SlotsAssumption, PagesAssumption, Names DEF Pages
<1>4. pt[Own(initproc)] = [va \in Pages |-> IF va = 0 THEN e ELSE NoPage]
  BY <1>1, <1>3 DEF NoTable, e
<1>5. Idle.pc = "user" /\ At("unused").pc = "unused"
  BY DEF At, Idle
<1>6. ASSUME NEW p \in Procs, NEW va \in Pages
      PROVE  View(p, va) = IF p = initproc /\ va = 0 THEN Zero ELSE NoPage
  <2>1. CASE p # initproc
    <3>1. op[p].pc = "unused"
      BY <1>1, <1>5, <2>1
    <3> QED
      BY <2>1, <3>1 DEF View, Alive
  <2>2. CASE p = initproc
    <3>1. op[p].pc = "user"
      BY <1>1, <1>5, <2>2
    <3>2. pt[Own(p)][va] = IF va = 0 THEN e ELSE NoPage
      BY <1>4, <2>2
    <3>3. content[f] = Zero
      BY <1>1
    <3> QED
      BY <1>2, <2>2, <3>1, <3>2, <3>3 DEF View, Alive, Mapped
  <2> QED
    BY <2>1, <2>2
<1>7. Mem = [p \in Procs |-> [va \in Pages |-> IF p = initproc /\ va = 0 THEN Zero ELSE NoPage]]
  BY <1>6 DEF Mem
<1> QED
  BY <1>3, <1>7 DEF PM!Init, PM!Pages, Pages, Mem

\* Copy-on-write cannot be told from copying: fork(), exec(), sbrk(), faults and
\* stores, interleaved in any way and failing half-way, show each process a
\* memory of its own.
THEOREM PrivateMemoryCorrect == Spec => ImplementsPrivateMemory
<1>1. IInv /\ [Next]_vars => [PM!Next]_Mem
  BY NextView
<1>2. [PM!Next]_Mem <=> [PM!Next]_[p \in Procs |-> [va \in Pages |-> View(p, va)]]
  BY DEF Mem
<1> QED
  BY <1>1, <1>2, InitView, IInvCorrect, PTL DEF Spec, ImplementsPrivateMemory, PM!Spec
=============================================================================
