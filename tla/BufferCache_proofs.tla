------------------------- MODULE BufferCache_proofs -------------------------
(***************************************************************************)
(* Proofs about BufferCache with VirtioDisk, for any number of processes,  *)
(* buffers, blocks and descriptors: reference counts are exact, no         *)
(* descriptor and no wakeup is lost, and the cache over the driver         *)
(* implements a store of blocks with one content and one user each.        *)
(***************************************************************************)
EXTENDS BufferCache, FiniteSetTheorems, SequenceTheorems, WellFoundedInduction, TLAPS

-----------------------------------------------------------------------------
(* The inductive invariant.                                                *)

Distinct(s) == \A i, j \in 1 .. Len(s) : s[i] = s[j] => i = j

\* The buffers p has locked.
H(p) == ToSet(held[p])

IoSet ==
  [at : {"none", "start", "nodesc", "asleep", "woken"}, b : Bufs \cup {None}, write : BOOLEAN, idx : Desc]

OpSet ==
  [at : {"user", "acquire", "asleep", "reading", "writing", "unlocked"}, b : Bufs \cup {None}]

DiskTypes ==
  /\ platter \in [Blocks -> Vals]
  /\ data \in [Bufs -> Vals]
  /\ blockno \in [Bufs -> Blocks \cup {None}]
  /\ free \in SUBSET Desc
  /\ chain \in [Desc -> SUBSET Desc]
  /\ info \in [Desc -> [b : Bufs \cup {None}, write : BOOLEAN]]
  /\ avail \in SUBSET Desc
  /\ used \in Seq(Desc)
  /\ bdisk \in [Bufs -> BOOLEAN]
  /\ isr \in BOOLEAN /\ intr \in BOOLEAN
  /\ io \in [Procs -> IoSet]

CacheTypes ==
  /\ list \in Seq(Bufs) /\ Len(list) = Cardinality(Bufs) /\ ToSet(list) = Bufs
  /\ refcnt \in [Bufs -> Nat]
  /\ valid \in [Bufs -> BOOLEAN]
  /\ holder \in [Bufs -> Procs \cup {None}]
  /\ op \in [Procs -> OpSet]
  /\ held \in [Procs -> Seq(Bufs)] /\ \A p \in Procs : Len(held[p]) <= 2
  /\ pinned \in SUBSET Bufs
  /\ panicked \in BOOLEAN

\* Where p is in the cache, where it is in the driver, and what it has locked.
Link(p) ==
  /\ op[p].at = "user" <=> op[p].b = None
  /\ io[p].at # "none" <=> op[p].at \in {"reading", "writing"}
  /\ io[p].at # "none" => io[p].b = op[p].b /\ (io[p].write <=> op[p].at = "writing")
  /\ Distinct(held[p])
  /\ op[p].at \in {"acquire", "asleep", "reading", "unlocked"} => Len(held[p]) <= 1 /\ op[p].b \notin H(p)
  /\ op[p].at = "writing" => op[p].b \in H(p)
  /\ op[p].at = "reading" => holder[op[p].b] = p /\ ~valid[op[p].b]
  /\ op[p].at = "asleep" => holder[op[p].b] # None
  /\ op[p].b # None => blockno[op[p].b] # None
  /\ \A b \in H(p) : holder[b] = p /\ valid[b]

Links ==
  /\ \A p \in Procs : Link(p)
  /\ \A b \in Bufs : valid[b] => blockno[b] # None
  /\ \A b \in pinned : valid[b]

\* p waits for a request that has descriptors.
Waits(p) == io[p].at \in {"asleep", "woken"}

\* The requests that the device has, or has finished and not yet reported.
Queued == avail \cup ToSet(used)

\* The chain of a waiting process is its own, and everything queued is waited for.
Chains ==
  /\ \A p \in Procs : Waits(p) =>
       /\ io[p].idx \in chain[io[p].idx] /\ chain[io[p].idx] \cap free = {}
       /\ info[io[p].idx] = [b |-> io[p].b, write |-> io[p].write]
  /\ \A p, q \in Procs : Waits(p) /\ Waits(q) /\ p # q => chain[io[p].idx] \cap chain[io[q].idx] = {}
  /\ \A i \in Desc : i \in free \/ \E p \in Procs : Waits(p) /\ i \in chain[io[p].idx]

Rings ==
  /\ \A p \in Procs : io[p].at = "asleep" => io[p].idx \in Queued
  /\ \A i \in Queued : \E p \in Procs : io[p].at = "asleep" /\ io[p].idx = i
  /\ avail \cap ToSet(used) = {} /\ Distinct(used)
  /\ used # <<>> => isr \/ intr
  /\ \A p \in Procs : io[p].at = "nodesc" => Cardinality(free) < 3

\* The device has carried out the request of p.
Finished(p) == io[p].at = "woken" \/ (io[p].at = "asleep" /\ io[p].idx \in ToSet(used))

\* A bwrite() of b has not reached the disk.
Dirty(b) == \E p \in Procs : op[p].at = "writing" /\ op[p].b = b /\ ~Finished(p)

Copies ==
  /\ \A b \in Bufs : valid[b] /\ b \notin pinned /\ ~Dirty(b) => data[b] = platter[blockno[b]]
  /\ \A p \in Procs : Finished(p) => data[io[p].b] = platter[blockno[io[p].b]]

IInv == DiskTypes /\ CacheTypes /\ Links /\ Chains /\ Rings /\ RefcntExact /\ NoBuffersMeansAllUsed /\ Copies

-----------------------------------------------------------------------------
(* Constants, sequences and records.                                       *)

LEMMA Constants ==
  /\ None \notin Procs /\ None \notin Bufs /\ None \notin Blocks
  /\ IsFiniteSet(Procs) /\ IsFiniteSet(Bufs)
  /\ Desc \subseteq Nat /\ IsFiniteSet(Desc) /\ Cardinality(Desc) = NUM /\ 0 \in Desc
<1>1. NUM \in Nat /\ NUM >= 3
  BY NumAssumption
<1>2. IsFiniteSet(0 .. NUM - 1) /\ Cardinality(0 .. NUM - 1) = IF 0 > NUM - 1 THEN 0 ELSE NUM - 1 - 0 + 1
  BY <1>1, FS_Interval
<1> QED
  BY <1>1, <1>2, SetsAssumption DEF Desc

LEMMA Least ==
  ASSUME NEW S \in SUBSET Nat, S # {}
  PROVE  Min(S) \in S /\ \A y \in S : Min(S) <= y
<1> DEFINE R == OpToRel(<, Nat)
<1>1. \A x, y \in Nat : <<x, y>> \in R <=> x < y
  BY DEF OpToRel
<1>2. IsWellFoundedOn(R, Nat)
  BY NatLessThanWellFounded
<1> HIDE DEF R
<1>3. PICK x \in S : \A y \in S : ~(<<y, x>> \in R)
  BY <1>2, WFMin
<1>4. \A y \in S : x <= y
  <2> TAKE y \in S
  <2>1. x \in Nat /\ y \in Nat
    OBVIOUS
  <2>2. ~(y < x)
    BY <1>1, <1>3, <2>1
  <2> QED
    BY <2>1, <2>2
<1> QED
  BY <1>4 DEF Min

LEMMA Appended ==
  ASSUME NEW S, NEW s \in Seq(S), NEW e \in S
  PROVE  /\ Append(s, e) \in Seq(S) /\ Len(Append(s, e)) = Len(s) + 1
         /\ ToSet(Append(s, e)) = ToSet(s) \cup {e}
         /\ Distinct(s) /\ e \notin ToSet(s) => Distinct(Append(s, e))
<1>1. /\ Append(s, e) \in Seq(S) /\ Len(Append(s, e)) = Len(s) + 1 /\ Len(s) \in Nat
      /\ \A i \in 1 .. Len(s) : Append(s, e)[i] = s[i]
      /\ Append(s, e)[Len(s) + 1] = e
      /\ DOMAIN s = 1 .. Len(s) /\ DOMAIN Append(s, e) = 1 .. Len(s) + 1
  OBVIOUS
<1> DEFINE t == Append(s, e)
<1> HIDE DEF t
<1>2. \A i \in 1 .. Len(s) + 1 : i \in 1 .. Len(s) \/ i = Len(s) + 1
  BY <1>1
<1>3. ToSet(t) = ToSet(s) \cup {e}
  BY <1>1, <1>2 DEF ToSet, t
<1>4. Distinct(s) /\ e \notin ToSet(s) => Distinct(t)
  BY <1>1, <1>2 DEF ToSet, Distinct, t
<1> QED
  BY <1>1, <1>3, <1>4 DEF t

LEMMA Shortened ==
  ASSUME NEW S, NEW s \in Seq(S), s # <<>>, Distinct(s)
  PROVE  /\ Front(s) \in Seq(S) /\ Len(Front(s)) = Len(s) - 1 /\ Len(s) \in Nat /\ Len(s) # 0
         /\ Last(s) \in ToSet(s) /\ Last(s) \in S
         /\ ToSet(Front(s)) = ToSet(s) \ {Last(s)} /\ Distinct(Front(s))
<1>1. Len(s) \in Nat /\ Len(s) # 0 /\ DOMAIN s = 1 .. Len(s)
  OBVIOUS
<1>2. /\ Front(s) \in Seq(S) /\ Len(Front(s)) = Len(s) - 1
      /\ \A i \in 1 .. Len(s) - 1 : Front(s)[i] = s[i]
      /\ DOMAIN Front(s) = 1 .. Len(s) - 1
  BY <1>1 DEF Front
<1> DEFINE t == Front(s)
<1> HIDE DEF t
<1>3. Last(s) \in ToSet(s) /\ Last(s) \in S
  BY <1>1 DEF Last, ToSet
<1>4. \A i \in 1 .. Len(s) : i \in 1 .. Len(s) - 1 \/ i = Len(s)
  <2>1. \A n \in Nat : \A i \in 1 .. n : i \in 1 .. n - 1 \/ i = n
    OBVIOUS
  <2> QED
    BY <1>1, <2>1
<1>5. \A i \in 1 .. Len(s) - 1 : i \in 1 .. Len(s) /\ s[i] # Last(s)
  BY <1>1 DEF Distinct, Last
<1>6. ToSet(t) = ToSet(s) \ {Last(s)}
  BY <1>1, <1>2, <1>4, <1>5 DEF ToSet, Last, t
<1>7. Distinct(t)
  BY <1>1, <1>2, <1>5 DEF Distinct, t
<1> QED
  BY <1>1, <1>2, <1>3, <1>6, <1>7 DEF t

LEMMA Advanced ==
  ASSUME NEW S, NEW s \in Seq(S), s # <<>>, Distinct(s)
  PROVE  /\ Tail(s) \in Seq(S) /\ Len(Tail(s)) = Len(s) - 1
         /\ Head(s) \in ToSet(s) /\ Head(s) \in S
         /\ ToSet(Tail(s)) = ToSet(s) \ {Head(s)} /\ Distinct(Tail(s))
<1>1. Len(s) \in Nat /\ Len(s) # 0 /\ DOMAIN s = 1 .. Len(s)
  OBVIOUS
<1>2. /\ Tail(s) \in Seq(S) /\ Len(Tail(s)) = Len(s) - 1 /\ Head(s) = s[1]
      /\ \A i \in 1 .. Len(s) - 1 : Tail(s)[i] = s[i + 1]
      /\ DOMAIN Tail(s) = 1 .. Len(s) - 1
  BY <1>1
<1> DEFINE t == Tail(s)
<1> HIDE DEF t
<1>3. Head(s) \in ToSet(s) /\ Head(s) \in S
  BY <1>1, <1>2 DEF ToSet
<1>4. \A i \in 1 .. Len(s) : i = 1 \/ (i - 1 \in 1 .. Len(s) - 1 /\ i = (i - 1) + 1)
  BY <1>1
<1>5. \A i \in 1 .. Len(s) - 1 : i + 1 \in 1 .. Len(s) /\ s[i + 1] # s[1]
  BY <1>1 DEF Distinct
<1>6. ToSet(t) = ToSet(s) \ {Head(s)}
  <2>1. \A x \in ToSet(t) : x \in ToSet(s) /\ x # Head(s)
    BY <1>1, <1>2, <1>5 DEF ToSet, t
  <2>2. \A x \in ToSet(s) : x # Head(s) => x \in ToSet(t)
    <3> SUFFICES ASSUME NEW i \in 1 .. Len(s), s[i] # Head(s)
                 PROVE  s[i] \in ToSet(t)
      BY <1>1 DEF ToSet
    <3>1. i - 1 \in 1 .. Len(s) - 1 /\ i = (i - 1) + 1
      BY <1>2, <1>4
    <3>2. t[i - 1] = s[i] /\ i - 1 \in DOMAIN t
      BY <1>2, <3>1 DEF t
    <3> QED
      BY <3>2 DEF ToSet
  <2> QED
    BY <2>1, <2>2
<1>7. Distinct(t)
  <2> SUFFICES ASSUME NEW i \in 1 .. Len(t), NEW j \in 1 .. Len(t), t[i] = t[j]
               PROVE  i = j
    BY DEF Distinct
  <2>1. s[i + 1] = s[j + 1] /\ i + 1 \in 1 .. Len(s) /\ j + 1 \in 1 .. Len(s)
    BY <1>1, <1>2, <1>5 DEF t
  <2>2. i + 1 = j + 1
    BY <2>1 DEF Distinct
  <2> QED
    BY <2>2
<1> QED
  BY <1>2, <1>3, <1>6, <1>7 DEF t

\* A ring without repetition has at most NUM entries.
LEMMA Short ==
  ASSUME NEW s \in Seq(Desc), Distinct(s)
  PROVE  Len(s) <= NUM
<1>1. Len(s) \in Nat /\ s \in [1 .. Len(s) -> Desc]
  OBVIOUS
<1>2. s \in Injection(1 .. Len(s), Desc)
  BY <1>1 DEF Injection, IsInjective, Distinct
<1>3. Cardinality(1 .. Len(s)) <= NUM
  BY <1>2, Constants, FS_Injection
<1>4. Cardinality(1 .. Len(s)) = Len(s)
  <2>1. Cardinality(1 .. Len(s)) = IF 1 > Len(s) THEN 0 ELSE Len(s) - 1 + 1
    BY <1>1, FS_Interval
  <2> QED
    BY <1>1, <2>1
<1> QED
  BY <1>3, <1>4

-----------------------------------------------------------------------------
(* What the steps of the driver and of the device change.                  *)

\* The three lowest free descriptors are free.
LEMMA Lowest3Free ==
  ASSUME DiskTypes, Cardinality(free) >= 3
  PROVE  Lowest3[1] \in free /\ Lowest3[2] \in free /\ Lowest3[3] \in free
<1> DEFINE a == Min(free)
           b == Min(free \ {a})
           c == Min(free \ {a, b})
<1>0. free \in SUBSET Nat /\ IsFiniteSet(free) /\ Cardinality(free) \in Nat
  BY Constants, FS_Subset, FS_CardinalityType DEF DiskTypes
<1>1. free # {}
  BY <1>0, FS_EmptySet
<1>2. a \in free
  BY <1>0, <1>1, Least
<1> HIDE DEF a
<1>3. IsFiniteSet(free \ {a}) /\ Cardinality(free \ {a}) = Cardinality(free) - 1
  BY <1>0, <1>2, FS_RemoveElement
<1>4. free \ {a} # {}
  <2>1. Cardinality(free \ {a}) # 0
    BY <1>0, <1>3
  <2> QED
    BY <2>1, FS_EmptySet
<1>5. b \in free \ {a}
  BY <1>0, <1>4, Least
<1> HIDE DEF b
<1>6. /\ free \ {a, b} = (free \ {a}) \ {b}
      /\ Cardinality((free \ {a}) \ {b}) = Cardinality(free \ {a}) - 1
  BY <1>3, <1>5, FS_RemoveElement
<1>7. free \ {a, b} # {}
  <2>1. Cardinality(free \ {a, b}) # 0
    BY <1>0, <1>3, <1>6
  <2> QED
    BY <2>1, FS_EmptySet
<1>8. c \in free
  BY <1>0, <1>7, Least
<1>9. Lowest3 = <<a, b, c>>
  BY DEF Lowest3, a, b
<1> QED
  BY <1>2, <1>5, <1>8, <1>9

LEMMA SubmitEffect ==
  ASSUME DiskTypes, NEW p \in Procs, RwSubmit(p)
  PROVE  \E D \in SUBSET free : \E d \in D :
           /\ free' = free \ D /\ avail' = avail \cup {d}
           /\ chain' = [chain EXCEPT ![d] = D]
           /\ info' = [info EXCEPT ![d] = [b |-> io[p].b, write |-> io[p].write]]
           /\ bdisk' = [bdisk EXCEPT ![io[p].b] = TRUE]
           /\ io' \in [Procs -> IoSet]
           /\ io'[p].at = "asleep" /\ io'[p].idx = d /\ io'[p].b = io[p].b /\ io'[p].write = io[p].write
           /\ \A q \in Procs : q # p => io'[q] = io[q]
           /\ Cardinality(free) >= 3
<1> DEFINE d == Lowest3[1]
           D == {Lowest3[1], Lowest3[2], Lowest3[3]}
<1>1. /\ Cardinality(free) >= 3 /\ free' = free \ D /\ avail' = avail \cup {d}
      /\ chain' = [chain EXCEPT ![d] = D]
      /\ info' = [info EXCEPT ![d] = [b |-> io[p].b, write |-> io[p].write]]
      /\ bdisk' = [bdisk EXCEPT ![io[p].b] = TRUE]
      /\ io' = [io EXCEPT ![p].at = "asleep", ![p].idx = d]
  BY DEF RwSubmit
<1>2. D \in SUBSET free /\ d \in D /\ d \in Desc
  BY <1>1, Lowest3Free DEF DiskTypes
<1> HIDE DEF d, D
<1>3. io \in [Procs -> IoSet] /\ io[p] \in IoSet
  BY DEF DiskTypes
<1> DEFINE r == [[io[p] EXCEPT !.at = "asleep"] EXCEPT !.idx = d]
<1>4. r \in IoSet /\ r.at = "asleep" /\ r.idx = d /\ r.b = io[p].b /\ r.write = io[p].write
  BY <1>2, <1>3 DEF IoSet
<1>5. io' = [io EXCEPT ![p] = r]
  BY <1>1, <1>3
<1> HIDE DEF r
<1>6. io' \in [Procs -> IoSet] /\ io'[p] = r /\ \A q \in Procs : q # p => io'[q] = io[q]
  BY <1>3, <1>4, <1>5
<1> QED
  <2>1. /\ io'[p].at = "asleep" /\ io'[p].idx = d /\ io'[p].b = io[p].b /\ io'[p].write = io[p].write
        /\ io' \in [Procs -> IoSet] /\ \A q \in Procs : q # p => io'[q] = io[q]
    BY <1>4, <1>6
  <2> USE <1>2
  <2> WITNESS D \in SUBSET free
  <2> WITNESS d \in D
  <2> QED
    BY <1>1, <2>1

\* Who waited for descriptors tries again.
LEMMA WokenFields ==
  ASSUME DiskTypes
  PROVE  /\ WokenForDesc(io) \in [Procs -> IoSet]
         /\ \A q \in Procs :
              /\ WokenForDesc(io)[q].b = io[q].b /\ WokenForDesc(io)[q].write = io[q].write
              /\ WokenForDesc(io)[q].idx = io[q].idx
              /\ WokenForDesc(io)[q].at = IF io[q].at = "nodesc" THEN "start" ELSE io[q].at
<1>1. \A q \in Procs : io[q] \in IoSet
  BY DEF DiskTypes
<1>2. \A q \in Procs : WokenForDesc(io)[q] = IF io[q].at = "nodesc" THEN [io[q] EXCEPT !.at = "start"] ELSE io[q]
  BY DEF WokenForDesc
<1>3. \A r \in IoSet : /\ [r EXCEPT !.at = "start"] \in IoSet
                       /\ [r EXCEPT !.at = "start"].at = "start" /\ [r EXCEPT !.at = "start"].b = r.b
                       /\ [r EXCEPT !.at = "start"].write = r.write /\ [r EXCEPT !.at = "start"].idx = r.idx
  BY DEF IoSet
<1>4. \A q \in Procs : WokenForDesc(io)[q] \in IoSet
  BY <1>1, <1>2, <1>3
<1>5. WokenForDesc(io) \in [Procs -> IoSet]
  BY <1>4 DEF WokenForDesc
<1>6. ASSUME NEW q \in Procs
      PROVE  /\ WokenForDesc(io)[q].b = io[q].b /\ WokenForDesc(io)[q].write = io[q].write
             /\ WokenForDesc(io)[q].idx = io[q].idx
             /\ WokenForDesc(io)[q].at = IF io[q].at = "nodesc" THEN "start" ELSE io[q].at
  <2>1. CASE io[q].at = "nodesc"
    <3> DEFINE w == [io[q] EXCEPT !.at = "start"]
    <3>1. w.at = "start" /\ w.b = io[q].b /\ w.write = io[q].write /\ w.idx = io[q].idx
      BY <1>1 DEF IoSet
    <3>2. WokenForDesc(io)[q] = w
      BY <1>2, <2>1
    <3> HIDE DEF w
    <3> QED
      BY <2>1, <3>1, <3>2
  <2>2. CASE io[q].at # "nodesc"
    BY <1>2, <2>2
  <2> QED
    BY <2>1, <2>2
<1> QED
  BY <1>5, <1>6

LEMMA NoDescEffect ==
  ASSUME DiskTypes, NEW p \in Procs, RwNoDesc(p)
  PROVE  /\ Cardinality(free) < 3 /\ io' \in [Procs -> IoSet] /\ io'[p].at = "nodesc"
         /\ \A q \in Procs : io'[q].b = io[q].b /\ io'[q].write = io[q].write /\ io'[q].idx = io[q].idx
         /\ \A q \in Procs : q # p => \/ io'[q].at = io[q].at
                                      \/ io[q].at = "nodesc" /\ io'[q].at = "start"
         /\ UNCHANGED <<free, chain, info, bdisk, avail>>
<1> DEFINE f == IF free = {} THEN io ELSE WokenForDesc(io)
<1>1. /\ f \in [Procs -> IoSet]
      /\ \A q \in Procs : f[q].b = io[q].b /\ f[q].write = io[q].write /\ f[q].idx = io[q].idx
      /\ \A q \in Procs : f[q].at = io[q].at \/ (io[q].at = "nodesc" /\ f[q].at = "start")
  BY WokenFields DEF DiskTypes
<1>2. /\ Cardinality(free) < 3 /\ io' = [f EXCEPT ![p].at = "nodesc"]
      /\ UNCHANGED <<free, chain, info, bdisk, avail>>
  BY DEF RwNoDesc
<1> HIDE DEF f
<1> DEFINE r == [f[p] EXCEPT !.at = "nodesc"]
<1>3. r \in IoSet /\ r.at = "nodesc" /\ r.b = io[p].b /\ r.write = io[p].write /\ r.idx = io[p].idx
  BY <1>1 DEF IoSet
<1>4. io' = [f EXCEPT ![p] = r]
  BY <1>1, <1>2
<1> HIDE DEF r
<1>5. io' \in [Procs -> IoSet] /\ io'[p] = r /\ \A q \in Procs : q # p => io'[q] = f[q]
  BY <1>1, <1>3, <1>4
<1> QED
  BY <1>1, <1>2, <1>3, <1>5

LEMMA EntryEffect ==
  ASSUME DiskTypes, Links, Chains, Rings, IntrEntry
  PROVE  \E z \in Procs :
           /\ used # <<>> /\ used' = Tail(used) /\ intr
           /\ io[z].at = "asleep" /\ io[z].idx = Head(used) /\ io'[z].at = "woken"
           /\ io' \in [Procs -> IoSet]
           /\ \A q \in Procs : io'[q].b = io[q].b /\ io'[q].write = io[q].write /\ io'[q].idx = io[q].idx
           /\ \A q \in Procs : q # z => io'[q].at = io[q].at
           /\ bdisk' = [bdisk EXCEPT ![io[z].b] = FALSE]
           /\ UNCHANGED <<platter, data, blockno, free, chain, info, avail, isr, intr>>
<1> DEFINE b == info[Head(used)].b
<1>1. /\ intr /\ used # <<>> /\ used' = Tail(used) /\ bdisk' = [bdisk EXCEPT ![b] = FALSE]
      /\ io' = [p \in Procs |-> IF io[p].at = "asleep" /\ io[p].b = b
                                THEN [io[p] EXCEPT !.at = "woken"] ELSE io[p]]
      /\ UNCHANGED <<platter, data, blockno, free, chain, info, avail, isr, intr>>
  BY DEF IntrEntry
<1>2. Head(used) \in Queued
  BY <1>1, Advanced DEF Rings, DiskTypes, Queued
<1>3. PICK z \in Procs : io[z].at = "asleep" /\ io[z].idx = Head(used)
  BY <1>2 DEF Rings
<1>4. io[z].b = b
  <2>1. info[io[z].idx] = [b |-> io[z].b, write |-> io[z].write]
    BY <1>3 DEF Chains, Waits
  <2> QED
    BY <1>3, <2>1
<1> HIDE DEF b
<1>5. \A q \in Procs : io[q].at = "asleep" /\ io[q].b = b => q = z
  <2> SUFFICES ASSUME NEW q \in Procs, io[q].at = "asleep", io[q].b = b
               PROVE  q = z
    OBVIOUS
  <2>1. ASSUME NEW r \in Procs, io[r].at = "asleep" PROVE holder[io[r].b] = r
    <3>1. Link(r)
      BY DEF Links
    <3>2. io[r].b = op[r].b /\ op[r].at \in {"reading", "writing"}
      BY <2>1, <3>1 DEF Link
    <3> QED
      BY <3>1, <3>2 DEF Link
  <2> QED
    BY <1>3, <1>4, <2>1
<1>6. \A r \in IoSet : /\ [r EXCEPT !.at = "woken"] \in IoSet
                       /\ [r EXCEPT !.at = "woken"].at = "woken" /\ [r EXCEPT !.at = "woken"].b = r.b
                       /\ [r EXCEPT !.at = "woken"].write = r.write /\ [r EXCEPT !.at = "woken"].idx = r.idx
  BY DEF IoSet
<1>7. \A q \in Procs : io[q] \in IoSet
  BY DEF DiskTypes
<1>8. \A q \in Procs : io'[q] = IF io[q].at = "asleep" /\ io[q].b = b THEN [io[q] EXCEPT !.at = "woken"] ELSE io[q]
  BY <1>1
<1>9. io' \in [Procs -> IoSet]
  <2>1. \A q \in Procs : io'[q] \in IoSet
    BY <1>6, <1>7, <1>8
  <2> QED
    BY <1>1, <2>1
<1>10. ASSUME NEW q \in Procs
       PROVE  /\ io'[q].b = io[q].b /\ io'[q].write = io[q].write /\ io'[q].idx = io[q].idx
              /\ io'[q].at = IF q = z THEN "woken" ELSE io[q].at
  <2>1. CASE q = z
    <3> DEFINE w == [io[q] EXCEPT !.at = "woken"]
    <3>1. w.at = "woken" /\ w.b = io[q].b /\ w.write = io[q].write /\ w.idx = io[q].idx
      BY <1>7 DEF IoSet
    <3>2. io'[q] = w
      BY <1>3, <1>4, <1>8, <2>1
    <3> HIDE DEF w
    <3> QED
      BY <2>1, <3>1, <3>2
  <2>2. CASE q # z
    BY <1>5, <1>8, <2>2
  <2> QED
    BY <2>1, <2>2
<1>11. bdisk' = [bdisk EXCEPT ![io[z].b] = FALSE]
  BY <1>1, <1>4
<1>12. io'[z].at = "woken" /\ \A q \in Procs : q # z => io'[q].at = io[q].at
  BY <1>10
<1>13. \A q \in Procs : io'[q].b = io[q].b /\ io'[q].write = io[q].write /\ io'[q].idx = io[q].idx
  BY <1>10
<1> QED
  BY <1>1, <1>3, <1>9, <1>11, <1>12, <1>13

\* A process in virtio_disk_rw() has the buffer's lock.
LEMMA InDriver ==
  ASSUME DiskTypes, CacheTypes, Links, NEW q \in Procs, io[q].at # "none"
  PROVE  /\ io[q].b = op[q].b /\ io[q].b \in Bufs /\ holder[io[q].b] = q
         /\ blockno[io[q].b] \in Blocks /\ op[q].at \in {"reading", "writing"}
         /\ (io[q].write <=> op[q].at = "writing") /\ (valid[io[q].b] <=> op[q].at = "writing")
         /\ \A r \in Procs : io[r].at # "none" /\ io[r].b = io[q].b => r = q
<1>1. ASSUME NEW r \in Procs, io[r].at # "none"
      PROVE  /\ io[r].b = op[r].b /\ op[r].at \in {"reading", "writing"} /\ holder[io[r].b] = r
             /\ op[r].b # None /\ blockno[op[r].b] # None
             /\ (io[r].write <=> op[r].at = "writing") /\ (valid[io[r].b] <=> op[r].at = "writing")
  <2>1. Link(r)
    BY DEF Links
  <2>2. io[r].b = op[r].b /\ op[r].at \in {"reading", "writing"} /\ (io[r].write <=> op[r].at = "writing")
    BY <1>1, <2>1 DEF Link
  <2>3. op[r].b # None /\ blockno[op[r].b] # None
    BY <2>1, <2>2 DEF Link
  <2>4. CASE op[r].at = "reading"
    BY <2>1, <2>2, <2>3, <2>4 DEF Link
  <2>5. CASE op[r].at = "writing"
    BY <2>1, <2>2, <2>3, <2>5 DEF Link
  <2> QED
    BY <2>2, <2>3, <2>4, <2>5
<1>2. op[q] \in OpSet
  BY DEF CacheTypes
<1>3. op[q].b \in Bufs \cup {None}
  BY <1>2 DEF OpSet
<1>4. io[q].b \in Bufs /\ blockno[io[q].b] \in Blocks
  BY <1>1, <1>3 DEF DiskTypes
<1> QED
  BY <1>1, <1>4

\* Descriptors of different requests differ.
LEMMA Apart ==
  ASSUME Chains, NEW p \in Procs, NEW q \in Procs, Waits(p), Waits(q), p # q
  PROVE  /\ io[p].idx # io[q].idx /\ io[p].idx \notin free /\ io[q].idx \notin chain[io[p].idx]
         /\ info[io[p].idx].b = io[p].b /\ info[io[p].idx].write = io[p].write
<1>1. /\ io[p].idx \in chain[io[p].idx] /\ io[q].idx \in chain[io[q].idx]
      /\ chain[io[p].idx] \cap chain[io[q].idx] = {} /\ chain[io[p].idx] \cap free = {}
      /\ info[io[p].idx] = [b |-> io[p].b, write |-> io[p].write]
  BY DEF Chains
<1> QED
  BY <1>1

\* The device completes a request: that of one process, which sleeps.
LEMMA DevEffect ==
  ASSUME DiskTypes, CacheTypes, Links, Chains, Rings, NEW i \in Desc, DevComplete(i)
  PROVE  \E z \in Procs :
           /\ io[z].at = "asleep" /\ io[z].idx = i /\ i \in avail /\ i \notin ToSet(used)
           /\ avail' = avail \ {i} /\ used' = Append(used, i) /\ isr'
           /\ IF io[z].write
              THEN platter' = [platter EXCEPT ![blockno[io[z].b]] = data[io[z].b]] /\ data' = data
              ELSE data' = [data EXCEPT ![io[z].b] = platter[blockno[io[z].b]]] /\ platter' = platter
           /\ \A q \in Procs : io[q].at = "asleep" /\ io[q].idx = i => q = z
           /\ UNCHANGED <<blockno, free, chain, info, bdisk, intr, io>>
<1>1. /\ i \in avail /\ avail' = avail \ {i} /\ used' = Append(used, i) /\ isr'
      /\ IF info[i].write
         THEN platter' = [platter EXCEPT ![blockno[info[i].b]] = data[info[i].b]] /\ data' = data
         ELSE data' = [data EXCEPT ![info[i].b] = platter[blockno[info[i].b]]] /\ platter' = platter
      /\ UNCHANGED <<blockno, free, chain, info, bdisk, intr, io>>
  BY DEF DevComplete
<1>2. i \notin ToSet(used) /\ i \in Queued
  BY <1>1 DEF Rings, Queued
<1>3. PICK z \in Procs : io[z].at = "asleep" /\ io[z].idx = i
  BY <1>2 DEF Rings
<1>4. info[i] = [b |-> io[z].b, write |-> io[z].write]
  BY <1>3 DEF Chains, Waits
<1>5. info[i].b = io[z].b /\ info[i].write = io[z].write
  BY <1>4
<1>6. \A q \in Procs : io[q].at = "asleep" /\ io[q].idx = i => q = z
  BY <1>3, Apart DEF Waits
<1>7. IF io[z].write
      THEN platter' = [platter EXCEPT ![blockno[io[z].b]] = data[io[z].b]] /\ data' = data
      ELSE data' = [data EXCEPT ![io[z].b] = platter[blockno[io[z].b]]] /\ platter' = platter
  BY <1>1, <1>5
<1> QED
  BY <1>1, <1>2, <1>3, <1>6, <1>7

\* The process finds its request done and gives its descriptors back.
LEMMA DoneEffect ==
  ASSUME DiskTypes, NEW p \in Procs, RwDone(p)
  PROVE  /\ io[p].at = "woken" /\ io[p].idx \in Desc
         /\ free' = free \cup chain[io[p].idx] /\ chain' = [chain EXCEPT ![io[p].idx] = {}]
         /\ info' = [info EXCEPT ![io[p].idx] = NoInfo]
         /\ io' \in [Procs -> IoSet] /\ io'[p].at = "none"
         /\ \A q \in Procs : q # p =>
              /\ io'[q].b = io[q].b /\ io'[q].write = io[q].write /\ io'[q].idx = io[q].idx
              /\ io'[q].at = IF io[q].at = "nodesc" THEN "start" ELSE io[q].at
         /\ UNCHANGED <<platter, data, blockno, avail, used, bdisk, isr, intr>>
<1>1. /\ io[p].at = "woken" /\ io' = [WokenForDesc(io) EXCEPT ![p] = NotIo]
      /\ free' = free \cup chain[io[p].idx] /\ chain' = [chain EXCEPT ![io[p].idx] = {}]
      /\ info' = [info EXCEPT ![io[p].idx] = NoInfo]
      /\ UNCHANGED <<platter, data, blockno, avail, used, bdisk, isr, intr>>
  BY DEF RwDone
<1>2. NotIo \in IoSet /\ NotIo.at = "none"
  BY Constants DEF NotIo, IoSet
<1> DEFINE f == WokenForDesc(io)
<1>3. /\ f \in [Procs -> IoSet]
      /\ \A q \in Procs : /\ f[q].b = io[q].b /\ f[q].write = io[q].write /\ f[q].idx = io[q].idx
                          /\ f[q].at = IF io[q].at = "nodesc" THEN "start" ELSE io[q].at
  BY WokenFields
<1> HIDE DEF f
<1>4. io' = [f EXCEPT ![p] = NotIo]
  BY <1>1 DEF f
<1>5. io' \in [Procs -> IoSet] /\ io'[p] = NotIo /\ \A q \in Procs : q # p => io'[q] = f[q]
  BY <1>2, <1>3, <1>4
<1>6. io[p] \in IoSet
  BY DEF DiskTypes
<1>7. io[p].idx \in Desc
  BY <1>6 DEF IoSet
<1> QED
  BY <1>1, <1>2, <1>3, <1>5, <1>7

-----------------------------------------------------------------------------
(* Descriptors and rings.                                                  *)

LEMMA ChainsSame ==
  ASSUME Chains, Rings, UNCHANGED <<free, chain, info, avail, used, isr, intr>>,
         \A q \in Procs : io'[q] = io[q] \/ (io[q].at = "none" /\ io'[q].at = "start")
  PROVE  Chains' /\ Rings'
<1>1. \A q \in Procs : /\ io'[q].at = "asleep" <=> io[q].at = "asleep"
                       /\ io'[q].at = "nodesc" <=> io[q].at = "nodesc"
                       /\ Waits(q)' <=> Waits(q)
                       /\ Waits(q) => io'[q] = io[q]
                       /\ io[q].at = "asleep" => io'[q] = io[q]
  BY DEF Waits
<1>2. Chains'
  BY <1>1 DEF Chains
<1>3. Rings'
  BY <1>1 DEF Rings, Queued
<1> QED
  BY <1>2, <1>3

LEMMA ChainsSubmit ==
  ASSUME DiskTypes, Chains, Rings, NEW p \in Procs, RwAlloc(p), RwSubmit(p)
  PROVE  Chains' /\ Rings'
<1>0. io[p].at = "start" /\ UNCHANGED <<used, isr, intr>> /\ free \in SUBSET Desc /\ chain \in [Desc -> SUBSET Desc]
      /\ info \in [Desc -> [b : Bufs \cup {None}, write : BOOLEAN]] /\ \A q \in Procs : io[q].idx \in Desc
  <2>1. \A q \in Procs : io[q] \in IoSet
    BY DEF DiskTypes
  <2> QED
    BY <2>1 DEF RwAlloc, DiskTypes, IoSet
<1>1. PICK D \in SUBSET free : \E d \in D :
        /\ free' = free \ D /\ avail' = avail \cup {d}
        /\ chain' = [chain EXCEPT ![d] = D]
        /\ info' = [info EXCEPT ![d] = [b |-> io[p].b, write |-> io[p].write]]
        /\ io'[p].at = "asleep" /\ io'[p].idx = d /\ io'[p].b = io[p].b /\ io'[p].write = io[p].write
        /\ \A q \in Procs : q # p => io'[q] = io[q]
        /\ Cardinality(free) >= 3
  BY SubmitEffect
<1>2. PICK d \in D :
        /\ free' = free \ D /\ avail' = avail \cup {d}
        /\ chain' = [chain EXCEPT ![d] = D]
        /\ info' = [info EXCEPT ![d] = [b |-> io[p].b, write |-> io[p].write]]
        /\ io'[p].at = "asleep" /\ io'[p].idx = d /\ io'[p].b = io[p].b /\ io'[p].write = io[p].write
        /\ \A q \in Procs : q # p => io'[q] = io[q]
        /\ Cardinality(free) >= 3
  BY <1>1
<1>3. /\ d \in Desc /\ d \in free /\ chain'[d] = D /\ info'[d] = [b |-> io'[p].b, write |-> io'[p].write]
      /\ \A i \in Desc : i # d => chain'[i] = chain[i] /\ info'[i] = info[i]
  BY <1>0, <1>2
<1>4. \A q \in Procs : Waits(q) =>
        /\ q # p /\ io'[q] = io[q] /\ Waits(q)' /\ io[q].idx # d /\ io[q].idx \in Desc
        /\ chain'[io[q].idx] = chain[io[q].idx] /\ info'[io[q].idx] = info[io[q].idx]
        /\ chain[io[q].idx] \cap D = {}
  <2> SUFFICES ASSUME NEW q \in Procs, Waits(q)
               PROVE  /\ q # p /\ io'[q] = io[q] /\ Waits(q)' /\ io[q].idx # d /\ io[q].idx \in Desc
                      /\ chain'[io[q].idx] = chain[io[q].idx] /\ info'[io[q].idx] = info[io[q].idx]
                      /\ chain[io[q].idx] \cap D = {}
    OBVIOUS
  <2>1. q # p /\ io'[q] = io[q] /\ Waits(q)'
    BY <1>0, <1>2 DEF Waits
  <2>2. io[q].idx \in chain[io[q].idx] /\ chain[io[q].idx] \cap free = {} /\ io[q].idx \in Desc
    BY <1>0 DEF Chains
  <2>3. io[q].idx # d /\ chain[io[q].idx] \cap D = {}
    BY <1>3, <2>2
  <2> QED
    BY <1>3, <2>1, <2>2, <2>3
<1>5. \A q \in Procs : Waits(q)' => q = p \/ Waits(q)
  BY <1>2 DEF Waits
<1>6. Waits(p)' /\ io'[p].idx = d
  BY <1>2 DEF Waits
<1>7. Chains'
  <2>1. ASSUME NEW q \in Procs, Waits(q)'
        PROVE  /\ io'[q].idx \in chain'[io'[q].idx] /\ chain'[io'[q].idx] \cap free' = {}
               /\ info'[io'[q].idx] = [b |-> io'[q].b, write |-> io'[q].write]
    <3>1. CASE q = p
      BY <1>2, <1>3, <3>1
    <3>2. CASE Waits(q)
      BY <1>2, <1>4, <3>2 DEF Chains
    <3> QED
      BY <1>5, <2>1, <3>1, <3>2
  <2>2. ASSUME NEW q \in Procs, NEW r \in Procs, Waits(q)', Waits(r)', q # r
        PROVE  chain'[io'[q].idx] \cap chain'[io'[r].idx] = {}
    <3>1. CASE q = p
      BY <1>3, <1>4, <1>5, <1>6, <2>2, <3>1
    <3>2. CASE r = p
      BY <1>3, <1>4, <1>5, <1>6, <2>2, <3>2
    <3>3. CASE q # p /\ r # p
      BY <1>4, <1>5, <2>2, <3>3 DEF Chains
    <3> QED
      BY <3>1, <3>2, <3>3
  <2>3. ASSUME NEW i \in Desc
        PROVE  i \in free' \/ \E q \in Procs : Waits(q)' /\ i \in chain'[io'[q].idx]
    <3>1. CASE i \in D
      BY <1>3, <1>6, <3>1
    <3>2. CASE i \in free /\ i \notin D
      BY <1>2, <3>2
    <3>3. CASE i \notin free
      <4>1. PICK q \in Procs : Waits(q) /\ i \in chain[io[q].idx]
        BY <3>3 DEF Chains
      <4> QED
        BY <1>4, <4>1
    <3> QED
      BY <3>1, <3>2, <3>3
  <2> QED
    BY <2>1, <2>2, <2>3 DEF Chains
<1>8. Rings'
  <2>1. Queued' = Queued \cup {d}
    BY <1>0, <1>2 DEF Queued
  <2>2. \A q \in Procs : io[q].at # "nodesc"
    <3>1. Cardinality(free) \in Nat
      BY <1>0, Constants, FS_Subset, FS_CardinalityType
    <3> QED
      BY <1>2, <3>1 DEF Rings
  <2>3. \A q \in Procs : io'[q].at = "asleep" => io'[q].idx \in Queued'
    BY <1>2, <2>1 DEF Rings
  <2>4. \A i \in Queued' : \E q \in Procs : io'[q].at = "asleep" /\ io'[q].idx = i
    <3>1. \A i \in Queued : \E q \in Procs : q # p /\ io[q].at = "asleep" /\ io[q].idx = i
      BY <1>0 DEF Rings
    <3> QED
      BY <1>2, <2>1, <3>1
  <2>5. d \notin Queued
    <3>1. \A q \in Procs : io[q].at = "asleep" => io[q].idx # d
      BY <1>4 DEF Waits
    <3> QED
      BY <3>1 DEF Rings
  <2>6. avail' \cap ToSet(used') = {} /\ Distinct(used')
    BY <1>0, <1>2, <2>5 DEF Rings, Queued
  <2>7. (used # <<>> => isr \/ intr)'
    BY <1>0 DEF Rings
  <2>8. \A q \in Procs : io'[q].at # "nodesc"
    BY <1>2, <2>2
  <2> QED
    BY <2>3, <2>4, <2>6, <2>7, <2>8 DEF Rings
<1> QED
  BY <1>7, <1>8

LEMMA ChainsNoDesc ==
  ASSUME DiskTypes, Chains, Rings, NEW p \in Procs, RwAlloc(p), RwNoDesc(p)
  PROVE  Chains' /\ Rings'
<1>1. /\ Cardinality(free) < 3 /\ io'[p].at = "nodesc"
      /\ \A q \in Procs : io'[q].b = io[q].b /\ io'[q].write = io[q].write /\ io'[q].idx = io[q].idx
      /\ \A q \in Procs : q # p => \/ io'[q].at = io[q].at
                                   \/ io[q].at = "nodesc" /\ io'[q].at = "start"
      /\ UNCHANGED <<free, chain, info, avail>>
  BY NoDescEffect
<1>2. io[p].at = "start" /\ UNCHANGED <<used, isr, intr>>
  BY DEF RwAlloc
<1>3. \A q \in Procs : (Waits(q)' <=> Waits(q)) /\ (io'[q].at = "asleep" <=> io[q].at = "asleep")
  BY <1>1, <1>2 DEF Waits
<1>4. Chains'
  BY <1>1, <1>3 DEF Chains
<1>5. Rings'
  BY <1>1, <1>2, <1>3 DEF Rings, Queued
<1> QED
  BY <1>4, <1>5

LEMMA ChainsDev ==
  ASSUME DiskTypes, CacheTypes, Links, Chains, Rings, NEW i \in Desc, DevComplete(i)
  PROVE  Chains' /\ Rings'
<1>1. /\ i \in avail /\ i \notin ToSet(used)
      /\ avail' = avail \ {i} /\ used' = Append(used, i) /\ isr'
      /\ UNCHANGED <<free, chain, info, io>>
  BY DevEffect
<1>2. ToSet(used') = ToSet(used) \cup {i} /\ Distinct(used')
  BY <1>1, Appended DEF Rings, DiskTypes
<1>3. Queued' = Queued
  BY <1>1, <1>2 DEF Queued
<1>4. Chains'
  BY <1>1 DEF Chains, Waits
<1>5. Rings'
  BY <1>1, <1>2, <1>3 DEF Rings
<1> QED
  BY <1>4, <1>5

LEMMA ChainsIntr ==
  ASSUME Chains, Rings, IntrAck \/ IntrEnd
  PROVE  Chains' /\ Rings'
<1>1. UNCHANGED <<free, chain, info, avail, used, io>> /\ (used # <<>> => intr')
  BY DEF IntrAck, IntrEnd
<1>2. Chains'
  BY <1>1 DEF Chains, Waits
<1>3. Rings'
  BY <1>1 DEF Rings, Queued
<1> QED
  BY <1>2, <1>3

LEMMA ChainsEntry ==
  ASSUME DiskTypes, Links, Chains, Rings, IntrEntry
  PROVE  Chains' /\ Rings'
<1>1. PICK z \in Procs :
        /\ used # <<>> /\ used' = Tail(used) /\ intr
        /\ io[z].at = "asleep" /\ io[z].idx = Head(used) /\ io'[z].at = "woken"
        /\ \A q \in Procs : io'[q].b = io[q].b /\ io'[q].write = io[q].write /\ io'[q].idx = io[q].idx
        /\ \A q \in Procs : q # z => io'[q].at = io[q].at
        /\ UNCHANGED <<free, chain, info, avail, isr, intr>>
  BY EntryEffect
<1>2. Head(used) \in ToSet(used) /\ ToSet(used') = ToSet(used) \ {Head(used)} /\ Distinct(used')
  BY <1>1, Advanced DEF Rings, DiskTypes
<1>3. \A q \in Procs : Waits(q)' <=> Waits(q)
  BY <1>1 DEF Waits
<1>4. Chains'
  BY <1>1, <1>3 DEF Chains
<1>5. Queued' = Queued \ {Head(used)}
  BY <1>1, <1>2 DEF Rings, Queued
<1>6. \A q \in Procs : io'[q].at = "asleep" => q # z /\ io[q].at = "asleep" /\ io[q].idx # Head(used)
  BY <1>1, Apart DEF Waits
<1>7. \A q \in Procs : io'[q].at = "asleep" => io'[q].idx \in Queued'
  BY <1>1, <1>5, <1>6 DEF Rings
<1>8. \A j \in Queued' : \E q \in Procs : io'[q].at = "asleep" /\ io'[q].idx = j
  <2>1. \A j \in Queued' : \E q \in Procs : q # z /\ io[q].at = "asleep" /\ io[q].idx = j
    BY <1>1, <1>5 DEF Rings
  <2> QED
    BY <1>1, <2>1
<1>9. \A q \in Procs : io'[q].at = "nodesc" => io[q].at = "nodesc"
  BY <1>1
<1> QED
  BY <1>1, <1>2, <1>4, <1>7, <1>8, <1>9 DEF Rings

LEMMA ChainsDone ==
  ASSUME DiskTypes, Chains, Rings, NEW p \in Procs, RwDone(p)
  PROVE  Chains' /\ Rings'
<1>1. /\ io[p].at = "woken" /\ io[p].idx \in Desc
      /\ free' = free \cup chain[io[p].idx] /\ chain' = [chain EXCEPT ![io[p].idx] = {}]
      /\ info' = [info EXCEPT ![io[p].idx] = NoInfo] /\ io'[p].at = "none"
      /\ \A q \in Procs : q # p =>
           /\ io'[q].b = io[q].b /\ io'[q].write = io[q].write /\ io'[q].idx = io[q].idx
           /\ io'[q].at = IF io[q].at = "nodesc" THEN "start" ELSE io[q].at
      /\ UNCHANGED <<avail, used, isr, intr>>
  BY DoneEffect
<1>2. \A j \in Desc : j # io[p].idx => chain'[j] = chain[j] /\ info'[j] = info[j]
  BY <1>1 DEF DiskTypes
<1>3. \A q \in Procs : Waits(q)' => q # p /\ Waits(q)
  BY <1>1 DEF Waits
<1>4. \A q \in Procs : Waits(q) /\ q # p => Waits(q)'
  BY <1>1 DEF Waits
<1>5. \A q \in Procs : io[q].idx \in Desc
  <2>1. \A q \in Procs : io[q] \in IoSet
    BY DEF DiskTypes
  <2> QED
    BY <2>1 DEF IoSet
<1>6. Waits(p)
  BY <1>1 DEF Waits
<1>7. \A q \in Procs : Waits(q) /\ q # p =>
        /\ io[q].idx # io[p].idx /\ io'[q].idx = io[q].idx
        /\ chain'[io[q].idx] = chain[io[q].idx] /\ info'[io[q].idx] = info[io[q].idx]
        /\ chain[io[q].idx] \cap chain[io[p].idx] = {}
  BY <1>1, <1>2, <1>5, <1>6, Apart DEF Chains
<1>8. Chains'
  <2>1. ASSUME NEW q \in Procs, Waits(q)'
        PROVE  /\ io'[q].idx \in chain'[io'[q].idx] /\ chain'[io'[q].idx] \cap free' = {}
               /\ info'[io'[q].idx] = [b |-> io'[q].b, write |-> io'[q].write]
    BY <1>1, <1>3, <1>7, <2>1 DEF Chains
  <2>2. ASSUME NEW q \in Procs, NEW r \in Procs, Waits(q)', Waits(r)', q # r
        PROVE  chain'[io'[q].idx] \cap chain'[io'[r].idx] = {}
    BY <1>3, <1>7, <2>2 DEF Chains
  <2>3. ASSUME NEW j \in Desc
        PROVE  j \in free' \/ \E q \in Procs : Waits(q)' /\ j \in chain'[io'[q].idx]
    <3>1. CASE j \in free \/ j \in chain[io[p].idx]
      BY <1>1, <3>1
    <3>2. CASE j \notin free /\ j \notin chain[io[p].idx]
      <4>1. PICK q \in Procs : Waits(q) /\ j \in chain[io[q].idx]
        BY <3>2 DEF Chains
      <4> QED
        BY <1>4, <1>7, <3>2, <4>1
    <3> QED
      BY <3>1, <3>2
  <2> QED
    BY <2>1, <2>2, <2>3 DEF Chains
<1>9. \A q \in Procs : io'[q].at = "asleep" <=> io[q].at = "asleep"
  BY <1>1
<1>10. \A q \in Procs : io[q].at = "asleep" => io'[q].idx = io[q].idx
  BY <1>1
<1>11. \A q \in Procs : io'[q].at # "nodesc"
  BY <1>1
<1>12. Rings'
  BY <1>1, <1>9, <1>10, <1>11 DEF Rings, Queued
<1> QED
  BY <1>8, <1>12

-----------------------------------------------------------------------------
(* Contents of buffers and blocks.                                         *)

\* A step that changes neither contents nor who has finished.
LEMMA CopiesSame ==
  ASSUME Copies, UNCHANGED <<data, platter, blockno, valid, pinned>>,
         \A q \in Procs : Finished(q)' <=> Finished(q), \A q \in Procs : Finished(q) => io'[q].b = io[q].b,
         \A q \in Procs : op[q].at = "writing" /\ ~Finished(q) => op'[q].at = "writing" /\ op'[q].b = op[q].b
  PROVE  Copies'
<1>1. \A b \in Bufs : Dirty(b) => Dirty(b)'
  BY DEF Dirty
<1> QED
  BY <1>1 DEF Copies

LEMMA CopiesDriver ==
  ASSUME DiskTypes, Links, Chains, Rings, Copies, UNCHANGED cacheVars,
         (\E p \in Procs : RwAlloc(p)) \/ IntrAck \/ IntrEntry \/ IntrEnd
  PROVE  Copies'
<1>1. UNCHANGED <<data, platter, blockno, valid, pinned, op>>
  BY DEF RwAlloc, IntrAck, IntrEntry, IntrEnd, cacheVars
<1>2. \A q \in Procs : (Finished(q)' <=> Finished(q)) /\ io'[q].b = io[q].b
  <2>1. CASE \E p \in Procs : RwAlloc(p)
    <3>1. PICK p \in Procs : RwAlloc(p)
      BY <2>1
    <3>2. io[p].at = "start" /\ used' = used
      BY <3>1 DEF RwAlloc
    <3>3. CASE RwSubmit(p)
      <4>1. PICK D \in SUBSET free : \E d \in D :
              /\ io'[p].at = "asleep" /\ io'[p].idx = d /\ io'[p].b = io[p].b
              /\ \A q \in Procs : q # p => io'[q] = io[q]
        BY <3>3, SubmitEffect
      <4>2. PICK d \in D :
              /\ io'[p].at = "asleep" /\ io'[p].idx = d /\ io'[p].b = io[p].b
              /\ \A q \in Procs : q # p => io'[q] = io[q]
        BY <4>1
      <4>3. d \notin ToSet(used)
        <5>1. \A q \in Procs : io[q].at = "asleep" => io[q].idx \notin free
          BY DEF Chains, Waits
        <5> QED
          BY <5>1 DEF Rings, Queued
      <4> QED
        BY <3>2, <4>2, <4>3 DEF Finished
    <3>4. CASE RwNoDesc(p)
      <4>1. /\ io'[p].at = "nodesc"
            /\ \A q \in Procs : io'[q].b = io[q].b /\ io'[q].idx = io[q].idx
            /\ \A q \in Procs : q # p => \/ io'[q].at = io[q].at
                                         \/ io[q].at = "nodesc" /\ io'[q].at = "start"
        BY <3>4, NoDescEffect
      <4> QED
        BY <3>2, <4>1 DEF Finished
    <3> QED
      BY <3>1, <3>3, <3>4 DEF RwAlloc
  <2>2. CASE IntrAck \/ IntrEnd
    BY <2>2 DEF IntrAck, IntrEnd, Finished
  <2>3. CASE IntrEntry
    <3>1. PICK z \in Procs :
            /\ used # <<>> /\ used' = Tail(used)
            /\ io[z].at = "asleep" /\ io[z].idx = Head(used) /\ io'[z].at = "woken"
            /\ \A q \in Procs : io'[q].b = io[q].b /\ io'[q].idx = io[q].idx
            /\ \A q \in Procs : q # z => io'[q].at = io[q].at
      BY <2>3, EntryEffect
    <3>2. Head(used) \in ToSet(used) /\ ToSet(used') = ToSet(used) \ {Head(used)}
      BY <3>1, Advanced DEF Rings, DiskTypes
    <3>3. Finished(z) /\ Finished(z)'
      BY <3>1, <3>2 DEF Finished
    <3>4. \A q \in Procs : q # z /\ io[q].at = "asleep" => io[q].idx # Head(used)
      BY <3>1, Apart DEF Waits
    <3>5. \A q \in Procs : q # z => (Finished(q)' <=> Finished(q))
      BY <3>1, <3>2, <3>4 DEF Finished
    <3> QED
      BY <3>1, <3>3, <3>5
  <2> QED
    BY <2>1, <2>2, <2>3
<1> QED
  BY <1>1, <1>2, CopiesSame

\* The device moves the content of one block, which one process has locked.
LEMMA CopiesDev ==
  ASSUME DiskTypes, CacheTypes, Links, Chains, Rings, RefcntExact, Copies, UNCHANGED cacheVars,
         NEW i \in Desc, DevComplete(i)
  PROVE  Copies'
<1>1. PICK z \in Procs :
        /\ io[z].at = "asleep" /\ io[z].idx = i /\ i \notin ToSet(used)
        /\ used' = Append(used, i)
        /\ IF io[z].write
           THEN platter' = [platter EXCEPT ![blockno[io[z].b]] = data[io[z].b]] /\ data' = data
           ELSE data' = [data EXCEPT ![io[z].b] = platter[blockno[io[z].b]]] /\ platter' = platter
        /\ \A q \in Procs : io[q].at = "asleep" /\ io[q].idx = i => q = z
        /\ UNCHANGED <<blockno, io>>
  BY DevEffect
<1>2. UNCHANGED <<valid, pinned, op>>
  BY DEF cacheVars
<1>3. ToSet(used') = ToSet(used) \cup {i}
  BY <1>1, Appended DEF DiskTypes
<1>4. Finished(z)' /\ \A q \in Procs : q # z => (Finished(q)' <=> Finished(q))
  BY <1>1, <1>3 DEF Finished
<1> DEFINE b == io[z].b
<1>5. /\ b \in Bufs /\ blockno[b] \in Blocks /\ b = op[z].b /\ (io[z].write <=> valid[b])
      /\ (io[z].write <=> op[z].at = "writing")
      /\ \A q \in Procs : q # z /\ io[q].at # "none" => io[q].b # b /\ io[q].b \in Bufs /\ blockno[io[q].b] \in Blocks
  BY <1>1, InDriver
<1> HIDE DEF b
<1>6. \A c \in Bufs : c # b /\ blockno[c] # None => blockno[c] # blockno[b]
  BY <1>5 DEF RefcntExact
<1>7. /\ data \in [Bufs -> Vals] /\ platter \in [Blocks -> Vals] /\ blockno \in [Bufs -> Blocks \cup {None}]
  BY DEF DiskTypes
<1>8. data'[b] = platter'[blockno[b]]
  BY <1>1, <1>5, <1>7 DEF b
<1>9. \A c \in Bufs : c # b /\ blockno[c] \in Blocks => data'[c] = data[c] /\ platter'[blockno[c]] = platter[blockno[c]]
  BY <1>1, <1>5, <1>6, <1>7, Constants DEF b
<1>10. ASSUME NEW c \in Bufs, valid'[c], c \notin pinned', ~Dirty(c)'
       PROVE  data'[c] = platter'[blockno'[c]]
  <2>1. CASE c = b
    BY <1>1, <1>8, <2>1
  <2>2. CASE c # b
    <3>1. ~Dirty(c)
      <4> SUFFICES ASSUME NEW q \in Procs, op[q].at = "writing", op[q].b = c, ~Finished(q)
                   PROVE  FALSE
        BY DEF Dirty
      <4>1. q # z
        BY <1>5, <2>2
      <4>2. ~Finished(q)'
        BY <1>4, <4>1
      <4> QED
        BY <1>2, <1>10, <4>2 DEF Dirty
    <3>2. blockno[c] \in Blocks
      BY <1>2, <1>7, <1>10 DEF Links
    <3> QED
      BY <1>1, <1>2, <1>9, <1>10, <2>2, <3>1, <3>2 DEF Copies
  <2> QED
    BY <2>1, <2>2
<1>11. ASSUME NEW q \in Procs, Finished(q)'
       PROVE  data'[io'[q].b] = platter'[blockno'[io'[q].b]]
  <2>1. CASE q = z
    BY <1>1, <1>8, <2>1 DEF b
  <2>2. CASE q # z
    <3>1. Finished(q) /\ io[q].at # "none"
      BY <1>4, <1>11, <2>2 DEF Finished
    <3>2. data[io[q].b] = platter[blockno[io[q].b]]
      BY <3>1 DEF Copies
    <3> QED
      BY <1>1, <1>5, <1>9, <2>2, <3>1, <3>2
  <2> QED
    BY <2>1, <2>2
<1> QED
  BY <1>10, <1>11 DEF Copies

-----------------------------------------------------------------------------
(* Steps of the driver and of the device.                                  *)

LEMMA LinksDisk ==
  ASSUME Links, UNCHANGED cacheVars, blockno' = blockno,
         \A q \in Procs : /\ io'[q].b = io[q].b /\ io'[q].write = io[q].write
                          /\ io'[q].at = "none" <=> io[q].at = "none"
  PROVE  Links'
<1>1. UNCHANGED <<list, refcnt, valid, holder, op, held, pinned, panicked>>
  BY DEF cacheVars
<1>2. ASSUME NEW q \in Procs PROVE Link(q)'
  <2>1. Link(q)
    BY DEF Links
  <2> QED
    BY <1>1, <2>1 DEF Link, H
<1> QED
  BY <1>1, <1>2 DEF Links

LEMMA CacheSame ==
  ASSUME CacheTypes, RefcntExact, NoBuffersMeansAllUsed, UNCHANGED cacheVars, blockno' = blockno
  PROVE  CacheTypes' /\ RefcntExact' /\ NoBuffersMeansAllUsed'
<1>1. UNCHANGED <<list, refcnt, valid, holder, op, held, pinned, panicked>>
  BY DEF cacheVars
<1>2. \A p \in Procs : \A b \in Bufs : Uses(p, b)' <=> Uses(p, b)
  BY <1>1 DEF Uses
<1>3. \A b \in Bufs : {p \in Procs : Uses(p, b)'} = {p \in Procs : Uses(p, b)}
  BY <1>2
<1>4. CacheTypes'
  BY <1>1 DEF CacheTypes
<1>5. RefcntExact'
  BY <1>1, <1>3 DEF RefcntExact
<1>6. NoBuffersMeansAllUsed'
  BY <1>1 DEF NoBuffersMeansAllUsed
<1> QED
  BY <1>4, <1>5, <1>6

\* What every step of the driver keeps.
LEMMA DiskFields ==
  ASSUME DiskTypes, CacheTypes, Links, Chains, Rings, DiskNext
  PROVE  /\ DiskTypes' /\ blockno' = blockno
         /\ \A q \in Procs : /\ io'[q].b = io[q].b /\ io'[q].write = io[q].write
                             /\ io'[q].at = "none" <=> io[q].at = "none"
<1>0. /\ platter \in [Blocks -> Vals] /\ data \in [Bufs -> Vals] /\ blockno \in [Bufs -> Blocks \cup {None}]
      /\ free \in SUBSET Desc /\ chain \in [Desc -> SUBSET Desc]
      /\ info \in [Desc -> [b : Bufs \cup {None}, write : BOOLEAN]]
      /\ avail \in SUBSET Desc /\ used \in Seq(Desc) /\ bdisk \in [Bufs -> BOOLEAN]
      /\ isr \in BOOLEAN /\ intr \in BOOLEAN /\ io \in [Procs -> IoSet]
      /\ \A q \in Procs : io[q] \in IoSet
  BY DEF DiskTypes
<1>1. ASSUME NEW p \in Procs, RwAlloc(p), RwSubmit(p)
      PROVE  /\ DiskTypes' /\ blockno' = blockno
             /\ \A q \in Procs : /\ io'[q].b = io[q].b /\ io'[q].write = io[q].write
                                 /\ io'[q].at = "none" <=> io[q].at = "none"
  <2>1. PICK D \in SUBSET free : \E d \in D :
          /\ free' = free \ D /\ avail' = avail \cup {d}
          /\ chain' = [chain EXCEPT ![d] = D]
          /\ info' = [info EXCEPT ![d] = [b |-> io[p].b, write |-> io[p].write]]
          /\ bdisk' = [bdisk EXCEPT ![io[p].b] = TRUE]
          /\ io' \in [Procs -> IoSet]
          /\ io'[p].at = "asleep" /\ io'[p].b = io[p].b /\ io'[p].write = io[p].write
          /\ \A q \in Procs : q # p => io'[q] = io[q]
    BY <1>1, SubmitEffect
  <2>2. PICK d \in D :
          /\ free' = free \ D /\ avail' = avail \cup {d}
          /\ chain' = [chain EXCEPT ![d] = D]
          /\ info' = [info EXCEPT ![d] = [b |-> io[p].b, write |-> io[p].write]]
          /\ bdisk' = [bdisk EXCEPT ![io[p].b] = TRUE]
          /\ io' \in [Procs -> IoSet]
          /\ io'[p].at = "asleep" /\ io'[p].b = io[p].b /\ io'[p].write = io[p].write
          /\ \A q \in Procs : q # p => io'[q] = io[q]
    BY <2>1
  <2>3. io[p].at = "start" /\ UNCHANGED <<platter, data, blockno, used, isr, intr>>
    BY <1>1 DEF RwAlloc
  <2>4. io[p].b \in Bufs \cup {None} /\ io[p].write \in BOOLEAN
    BY <1>0 DEF IoSet
  <2>5. free' \in SUBSET Desc /\ avail' \in SUBSET Desc /\ chain' \in [Desc -> SUBSET Desc]
    BY <1>0, <2>2
  <2>6. info' \in [Desc -> [b : Bufs \cup {None}, write : BOOLEAN]]
    BY <1>0, <2>2, <2>4
  <2>7. bdisk' \in [Bufs -> BOOLEAN]
    BY <1>0, <2>2
  <2>8. DiskTypes'
    BY <1>0, <2>2, <2>3, <2>5, <2>6, <2>7 DEF DiskTypes
  <2> QED
    BY <2>2, <2>3, <2>8
<1>2. ASSUME NEW p \in Procs, RwAlloc(p), RwNoDesc(p)
      PROVE  /\ DiskTypes' /\ blockno' = blockno
             /\ \A q \in Procs : /\ io'[q].b = io[q].b /\ io'[q].write = io[q].write
                                 /\ io'[q].at = "none" <=> io[q].at = "none"
  <2>1. /\ io' \in [Procs -> IoSet] /\ io'[p].at = "nodesc"
        /\ \A q \in Procs : io'[q].b = io[q].b /\ io'[q].write = io[q].write
        /\ \A q \in Procs : q # p => io'[q].at = io[q].at \/ (io[q].at = "nodesc" /\ io'[q].at = "start")
        /\ UNCHANGED <<free, chain, info, bdisk, avail>>
    BY <1>2, NoDescEffect
  <2>2. io[p].at = "start" /\ UNCHANGED <<platter, data, blockno, used, isr, intr>>
    BY <1>2 DEF RwAlloc
  <2>3. DiskTypes'
    BY <1>0, <2>1, <2>2 DEF DiskTypes
  <2> QED
    BY <2>1, <2>2, <2>3
<1>3. ASSUME NEW i \in Desc, DevComplete(i)
      PROVE  DiskTypes' /\ blockno' = blockno /\ io' = io
  <2>1. PICK z \in Procs :
          /\ io[z].at = "asleep"
          /\ avail' = avail \ {i} /\ used' = Append(used, i) /\ isr'
          /\ IF io[z].write
             THEN platter' = [platter EXCEPT ![blockno[io[z].b]] = data[io[z].b]] /\ data' = data
             ELSE data' = [data EXCEPT ![io[z].b] = platter[blockno[io[z].b]]] /\ platter' = platter
          /\ UNCHANGED <<blockno, free, chain, info, bdisk, intr, io>>
    BY <1>3, DevEffect
  <2>2. isr' = TRUE
    BY <1>3 DEF DevComplete
  <2>3. io[z].b \in Bufs /\ blockno[io[z].b] \in Blocks
    BY <2>1, InDriver
  <2>4. platter' \in [Blocks -> Vals] /\ data' \in [Bufs -> Vals]
    BY <1>0, <2>1, <2>3
  <2>5. used' \in Seq(Desc) /\ avail' \in SUBSET Desc
    BY <1>0, <2>1
  <2> QED
    BY <1>0, <2>1, <2>2, <2>4, <2>5 DEF DiskTypes
<1>4. ASSUME IntrAck \/ IntrEnd
      PROVE  DiskTypes' /\ blockno' = blockno /\ io' = io
  BY <1>0, <1>4 DEF IntrAck, IntrEnd, DiskTypes
<1>5. ASSUME IntrEntry
      PROVE  /\ DiskTypes' /\ blockno' = blockno
             /\ \A q \in Procs : /\ io'[q].b = io[q].b /\ io'[q].write = io[q].write
                                 /\ io'[q].at = "none" <=> io[q].at = "none"
  <2>1. PICK z \in Procs :
          /\ used # <<>> /\ used' = Tail(used)
          /\ io[z].at = "asleep" /\ io'[z].at = "woken"
          /\ io' \in [Procs -> IoSet]
          /\ \A q \in Procs : io'[q].b = io[q].b /\ io'[q].write = io[q].write
          /\ \A q \in Procs : q # z => io'[q].at = io[q].at
          /\ bdisk' = [bdisk EXCEPT ![io[z].b] = FALSE]
          /\ UNCHANGED <<platter, data, blockno, free, chain, info, avail, isr, intr>>
    BY <1>5, EntryEffect
  <2>2. used' \in Seq(Desc) /\ bdisk' \in [Bufs -> BOOLEAN]
    BY <1>0, <2>1, Advanced DEF Rings
  <2>3. DiskTypes'
    BY <1>0, <2>1, <2>2 DEF DiskTypes
  <2> QED
    BY <2>1, <2>3
<1> QED
  BY <1>1, <1>2, <1>3, <1>4, <1>5 DEF DiskNext, RwAlloc

LEMMA DiskIInv ==
  ASSUME IInv, DiskStep
  PROVE  IInv'
<1>0. /\ DiskTypes /\ CacheTypes /\ Links /\ Chains /\ Rings /\ RefcntExact /\ NoBuffersMeansAllUsed /\ Copies
      /\ DiskNext /\ UNCHANGED cacheVars
  BY DEF IInv, DiskStep
<1>1. /\ DiskTypes' /\ blockno' = blockno
      /\ \A q \in Procs : /\ io'[q].b = io[q].b /\ io'[q].write = io[q].write
                          /\ io'[q].at = "none" <=> io[q].at = "none"
  BY <1>0, DiskFields
<1>2. Links'
  BY <1>0, <1>1, LinksDisk
<1>3. CacheTypes' /\ RefcntExact' /\ NoBuffersMeansAllUsed'
  BY <1>0, <1>1, CacheSame
<1>4. CASE \E p \in Procs : RwAlloc(p)
  <2>1. PICK p \in Procs : RwAlloc(p)
    BY <1>4
  <2>2. RwSubmit(p) \/ RwNoDesc(p)
    BY <2>1 DEF RwAlloc
  <2>3. Chains' /\ Rings'
    BY <1>0, <2>1, <2>2, ChainsSubmit, ChainsNoDesc
  <2>4. Copies'
    BY <1>0, <1>4, CopiesDriver
  <2> QED
    BY <1>1, <1>2, <1>3, <2>3, <2>4 DEF IInv
<1>5. CASE \E i \in Desc : DevComplete(i)
  <2>1. PICK i \in Desc : DevComplete(i)
    BY <1>5
  <2>2. Chains' /\ Rings'
    BY <1>0, <2>1, ChainsDev
  <2>3. Copies'
    BY <1>0, <2>1, CopiesDev
  <2> QED
    BY <1>1, <1>2, <1>3, <2>2, <2>3 DEF IInv
<1>6. CASE IntrAck \/ IntrEntry \/ IntrEnd
  <2>1. Chains' /\ Rings'
    BY <1>0, <1>6, ChainsIntr, ChainsEntry
  <2>2. Copies'
    BY <1>0, <1>6, CopiesDriver
  <2> QED
    BY <1>1, <1>2, <1>3, <2>1, <2>2 DEF IInv
<1> QED
  BY <1>0, <1>4, <1>5, <1>6 DEF DiskNext

-----------------------------------------------------------------------------
(* Facts about buffers and their users.                                    *)

Users(b) == {p \in Procs : Uses(p, b)}

LEMMA UsersFinite ==
  ASSUME NEW b
  PROVE  IsFiniteSet(Users(b)) /\ Cardinality(Users(b)) \in Nat
BY Constants, FS_Subset, FS_CardinalityType DEF Users

LEMMA RefcntUsers ==
  RefcntExact <=>
    /\ \A b, c \in Bufs : blockno[b] = blockno[c] /\ blockno[b] # None => b = c
    /\ \A b \in Bufs : refcnt[b] = Cardinality(Users(b)) + (IF b \in pinned THEN 1 ELSE 0)
BY DEF RefcntExact, Users

\* A buffer without references has no user.
LEMMA Unused ==
  ASSUME RefcntExact, NEW b \in Bufs, refcnt[b] = 0
  PROVE  b \notin pinned /\ \A q \in Procs : ~Uses(q, b)
<1>1. IsFiniteSet(Users(b)) /\ Cardinality(Users(b)) \in Nat
  BY UsersFinite
<1>2. refcnt[b] = Cardinality(Users(b)) + (IF b \in pinned THEN 1 ELSE 0)
  BY RefcntUsers
<1>3. b \notin pinned /\ Cardinality(Users(b)) = 0
  BY <1>1, <1>2
<1>4. Users(b) = {}
  BY <1>1, <1>3, FS_EmptySet
<1> QED
  BY <1>3, <1>4 DEF Users

\* A used or pinned buffer has a reference.
LEMMA Referenced ==
  ASSUME RefcntExact, NEW b \in Bufs, refcnt[b] # 0
  PROVE  b \in pinned \/ \E q \in Procs : Uses(q, b)
<1>1. refcnt[b] = Cardinality(Users(b)) + (IF b \in pinned THEN 1 ELSE 0)
  BY RefcntUsers
<1>2. CASE Users(b) = {}
  BY <1>1, <1>2, FS_EmptySet
<1>3. CASE Users(b) # {}
  BY <1>3 DEF Users
<1> QED
  BY <1>2, <1>3

\* A step after which every buffer has the users, and the references, it had.
LEMMA RefcntSame ==
  ASSUME RefcntExact, blockno' = blockno, UNCHANGED <<refcnt, pinned>>,
         \A q \in Procs : \A b \in Bufs : Uses(q, b)' <=> Uses(q, b)
  PROVE  RefcntExact'
<1>1. \A b \in Bufs : {p \in Procs : Uses(p, b)'} = {p \in Procs : Uses(p, b)}
  OBVIOUS
<1> QED
  BY <1>1 DEF RefcntExact

\* What a process has, holds and reads when it may change a buffer.
LEMMA Locked ==
  ASSUME CacheTypes, Links, NEW p \in Procs, HasBuffer(p)
  PROVE  /\ ~panicked /\ op[p].at = "user" /\ io[p].at = "none" /\ op[p].b = None
         /\ Top(p) \in H(p) /\ Top(p) \in Bufs /\ holder[Top(p)] = p /\ valid[Top(p)]
         /\ held[p] \in Seq(Bufs) /\ held[p] # <<>> /\ Distinct(held[p])
<1>1. ~panicked /\ op[p].at = "user" /\ io[p].at = "none" /\ held[p] # <<>>
  BY DEF HasBuffer, Is
<1>2. Link(p) /\ held[p] \in Seq(Bufs)
  BY DEF Links, CacheTypes
<1>3. Distinct(held[p]) /\ op[p].b = None
  BY <1>1, <1>2 DEF Link
<1>4. Top(p) \in H(p) /\ Top(p) \in Bufs
  BY <1>1, <1>2, <1>3, Shortened DEF Top, H
<1>5. holder[Top(p)] = p /\ valid[Top(p)]
  BY <1>2, <1>4 DEF Link
<1> QED
  BY <1>1, <1>2, <1>3, <1>4, <1>5

\* Who holds the lock of a buffer, and what it may not have.
LEMMA HeldBufs ==
  ASSUME CacheTypes, NEW q \in Procs
  PROVE  H(q) \subseteq Bufs /\ op[q] \in OpSet /\ op[q].b \in Bufs \cup {None}
<1>1. held[q] \in Seq(Bufs) /\ op[q] \in OpSet
  BY DEF CacheTypes
<1>2. H(q) \subseteq Bufs
  <2>1. DOMAIN held[q] = 1 .. Len(held[q]) /\ \A i \in 1 .. Len(held[q]) : held[q][i] \in Bufs
    BY <1>1
  <2> QED
    BY <2>1 DEF H, ToSet
<1> QED
  BY <1>1, <1>2 DEF OpSet

\* A process that another one's step does not touch.
LEMMA LinkOther ==
  ASSUME CacheTypes, NEW q \in Procs, Link(q), op'[q] = op[q], held'[q] = held[q],
         io'[q].at = "none" <=> io[q].at = "none", io'[q].b = io[q].b, io'[q].write = io[q].write,
         \A b \in Bufs : holder[b] = q => holder'[b] = q /\ (valid[b] => valid'[b]),
         op[q].at = "asleep" => holder'[op[q].b] # None,
         op[q].at = "reading" => ~valid'[op[q].b],
         \A b \in Bufs : Uses(q, b) => blockno'[b] = blockno[b]
  PROVE  Link(q)'
<1>1. H(q)' = H(q) /\ H(q) \subseteq Bufs
  BY HeldBufs DEF H
<1>2. op[q].b # None => op[q].b \in Bufs
  BY HeldBufs
<1>3. op[q].b # None => blockno'[op[q].b] = blockno[op[q].b]
  BY <1>2 DEF Uses
<1>4. \A b \in H(q) : holder'[b] = q /\ valid'[b]
  BY <1>1 DEF Link
<1>5. op[q].at = "reading" => holder'[op[q].b] = q /\ ~valid'[op[q].b]
  BY <1>2 DEF Link
<1>6. Distinct(held'[q]) /\ op'[q].b = op[q].b /\ op'[q].at = op[q].at
  BY DEF Link
<1> QED
  BY <1>1, <1>3, <1>4, <1>5, <1>6 DEF Link

LEMMA GotoEffect ==
  ASSUME CacheTypes, NEW p \in Procs, NEW b \in Bufs \cup {None},
         NEW w \in {"user", "acquire", "asleep", "reading", "writing", "unlocked"}, Goto(p, w, b)
  PROVE  /\ op' \in [Procs -> OpSet] /\ op'[p].at = w /\ op'[p].b = b
         /\ \A q \in Procs : q # p => op'[q] = op[q]
<1> DEFINE r == [at |-> w, b |-> b]
<1>1. r \in OpSet /\ r.at = w /\ r.b = b
  BY DEF OpSet
<1>2. op' = [op EXCEPT ![p] = r] /\ op \in [Procs -> OpSet]
  BY DEF Goto, CacheTypes
<1> HIDE DEF r
<1> QED
  BY <1>1, <1>2

\* bget() is not asked for a block its caller has.
LEMMA NotMine ==
  ASSUME CacheTypes, NEW p \in Procs, NEW k \in Blocks, MayLock(p, k)
  PROVE  Len(held[p]) <= 1 /\ \A b \in Bufs : blockno[b] = k => b \notin H(p)
<1>1. held[p] \in Seq(Bufs) /\ Len(held[p]) \in Nat
  BY DEF CacheTypes
<1>2. CASE held[p] = <<>>
  BY <1>1, <1>2 DEF H, ToSet
<1>3. CASE Len(held[p]) = 1 /\ k \in Bitmap /\ blockno[held[p][1]] \notin Bitmap
  <2>1. H(p) = {held[p][1]}
    <3>1. DOMAIN held[p] = {1}
      BY <1>1, <1>3
    <3> QED
      BY <3>1 DEF H, ToSet
  <2> QED
    BY <1>3, <2>1
<1> QED
  BY <1>2, <1>3 DEF MayLock

-----------------------------------------------------------------------------
(* bread().                                                                *)

LEMMA HitIInv ==
  ASSUME IInv, NEW p \in Procs, NEW k \in Blocks, bget(p, k), bgetHit(p, k)
  PROVE  IInv'
<1>0. /\ DiskTypes /\ CacheTypes /\ Links /\ Chains /\ Rings /\ RefcntExact /\ Copies
      /\ Is(p, "user") /\ MayLock(p, k)
      /\ UNCHANGED <<list, holder, held, pinned,
                     platter, data, free, chain, info, avail, used, bdisk, isr, intr, io>>
  BY DEF IInv, bget
<1>1. PICK b \in Bufs : /\ blockno[b] = k /\ refcnt' = [refcnt EXCEPT ![b] = @ + 1] /\ Goto(p, "acquire", b)
                        /\ UNCHANGED <<blockno, valid, panicked>>
  BY DEF bgetHit, CachedIn
<1>2. ~panicked /\ op[p].at = "user" /\ io[p].at = "none"
  BY <1>0 DEF Is
<1>3. /\ op' \in [Procs -> OpSet] /\ op'[p].at = "acquire" /\ op'[p].b = b
      /\ \A q \in Procs : q # p => op'[q] = op[q]
  BY <1>0, <1>1, GotoEffect
<1>4. Link(p) /\ op[p].b = None
  BY <1>0, <1>2 DEF Links, Link
<1>5. Len(held[p]) <= 1 /\ b \notin H(p) /\ blockno[b] # None /\ b # None
  BY <1>0, <1>1, NotMine, Constants
<1>6. DiskTypes'
  BY <1>0, <1>1 DEF DiskTypes
<1>7. CacheTypes'
  <2>1. refcnt' \in [Bufs -> Nat]
    BY <1>0, <1>1 DEF CacheTypes
  <2> QED
    BY <1>0, <1>1, <1>3, <2>1 DEF CacheTypes
<1>8. Links'
  <2>1. Link(p)'
    BY <1>0, <1>1, <1>2, <1>3, <1>4, <1>5 DEF Link, H
  <2>2. ASSUME NEW q \in Procs, q # p PROVE Link(q)'
    <3>1. Link(q)
      BY <1>0 DEF Links
    <3> QED
      BY <1>0, <1>1, <1>3, <2>2, <3>1 DEF Link, H
  <2> QED
    BY <1>0, <1>1, <2>1, <2>2 DEF Links
<1>9. Chains' /\ Rings'
  BY <1>0, ChainsSame
<1>10. RefcntExact'
  <2>1. \A c \in Bufs : c # b => \A q \in Procs : Uses(q, c)' <=> Uses(q, c)
    BY <1>0, <1>3, <1>4, Constants DEF Uses
  <2>2. \A q \in Procs : q # p => (Uses(q, b)' <=> Uses(q, b))
    BY <1>0, <1>3 DEF Uses
  <2>3. Uses(p, b)' /\ ~Uses(p, b)
    BY <1>3, <1>4, <1>5, Constants DEF Uses, H
  <2>4. \A c \in Bufs : c # b => Users(c)' = Users(c)
    BY <2>1 DEF Users
  <2>5. Users(b)' = Users(b) \cup {p} /\ p \notin Users(b)
    BY <2>2, <2>3 DEF Users
  <2>6. Cardinality(Users(b)') = Cardinality(Users(b)) + 1
    BY <2>5, UsersFinite, FS_AddElement
  <2>7. ASSUME NEW c \in Bufs
        PROVE  refcnt'[c] = Cardinality(Users(c)') + (IF c \in pinned' THEN 1 ELSE 0)
    <3>1. refcnt[c] = Cardinality(Users(c)) + (IF c \in pinned THEN 1 ELSE 0) /\ Cardinality(Users(c)) \in Nat
      BY <1>0, RefcntUsers, UsersFinite
    <3>2. refcnt'[c] = IF c = b THEN refcnt[c] + 1 ELSE refcnt[c]
      BY <1>0, <1>1 DEF CacheTypes
    <3>3. CASE c = b
      BY <1>0, <2>6, <3>1, <3>2, <3>3
    <3>4. CASE c # b
      BY <1>0, <2>4, <3>1, <3>2, <3>4
    <3> QED
      BY <3>3, <3>4
  <2> QED
    BY <1>0, <1>1, <2>7 DEF RefcntExact, Users
<1>11. NoBuffersMeansAllUsed'
  BY <1>1, <1>2 DEF NoBuffersMeansAllUsed
<1>12. Copies'
  BY <1>0, <1>1, <1>2, <1>3, CopiesSame DEF Finished
<1> QED
  BY <1>6, <1>7, <1>8, <1>9, <1>10, <1>11, <1>12 DEF IInv

\* A bounded set of numbers has a greatest element.
LEMMA Greatest ==
  ASSUME NEW n \in Nat, NEW S \in SUBSET (1 .. n), S # {}
  PROVE  Max(S) \in S
<1> DEFINE T == {n - x : x \in S}
<1>1. T \in SUBSET Nat /\ T # {}
  <2>1. \A x \in 1 .. n : n - x \in Nat
    OBVIOUS
  <2> QED
    BY <2>1
<1>2. PICK m \in T : \A y \in T : m <= y
  BY <1>1, Least
<1>3. PICK x \in S : m = n - x
  BY <1>2
<1>4. \A y \in S : x >= y
  <2> TAKE y \in S
  <2>1. n - x <= n - y /\ x \in Nat /\ y \in Nat
    BY <1>2, <1>3
  <2> QED
    BY <2>1
<1> QED
  BY <1>4 DEF Max

\* The buffer bget() recycles has no user and is not pinned.
LEMMA RecycledUnused ==
  ASSUME CacheTypes, RefcntExact, Recycled # {}
  PROVE  /\ list[Max(Recycled)] \in Bufs /\ refcnt[list[Max(Recycled)]] = 0
         /\ list[Max(Recycled)] \notin pinned /\ \A q \in Procs : ~Uses(q, list[Max(Recycled)])
<1>1. list \in Seq(Bufs) /\ Len(list) \in Nat /\ DOMAIN list = 1 .. Len(list)
  BY DEF CacheTypes
<1>2. Recycled \in SUBSET (1 .. Len(list))
  BY <1>1 DEF Recycled
<1>3. Max(Recycled) \in Recycled
  BY <1>1, <1>2, Greatest
<1>4. list[Max(Recycled)] \in Bufs /\ refcnt[list[Max(Recycled)]] = 0
  BY <1>1, <1>3 DEF Recycled
<1> QED
  BY <1>4, Unused

LEMMA RecycleIInv ==
  ASSUME IInv, NEW p \in Procs, NEW k \in Blocks, bget(p, k), bgetRecycle(p, k)
  PROVE  IInv'
<1>0. /\ DiskTypes /\ CacheTypes /\ Links /\ Chains /\ Rings /\ RefcntExact /\ Copies
      /\ Is(p, "user") /\ MayLock(p, k)
      /\ UNCHANGED <<list, holder, held, pinned,
                     platter, data, free, chain, info, avail, used, bdisk, isr, intr, io>>
  BY DEF IInv, bget
<1>1. Recycled # {} /\ \A c \in Bufs : blockno[c] # k
  BY DEF bgetRecycle, CachedIn
<1>2. PICK b \in Bufs :
        /\ refcnt[b] = 0 /\ b \notin pinned /\ \A q \in Procs : ~Uses(q, b)
        /\ blockno' = [blockno EXCEPT ![b] = k] /\ valid' = [valid EXCEPT ![b] = FALSE]
        /\ refcnt' = [refcnt EXCEPT ![b] = 1] /\ Goto(p, "acquire", b) /\ panicked' = panicked
  BY <1>0, <1>1, RecycledUnused DEF bgetRecycle
<1>3. ~panicked /\ op[p].at = "user" /\ io[p].at = "none"
  BY <1>0 DEF Is
<1>4. /\ op' \in [Procs -> OpSet] /\ op'[p].at = "acquire" /\ op'[p].b = b
      /\ \A q \in Procs : q # p => op'[q] = op[q]
  BY <1>0, <1>2, GotoEffect
<1>5. Link(p) /\ op[p].b = None
  BY <1>0, <1>3 DEF Links, Link
<1>6. Len(held[p]) <= 1 /\ b \notin H(p) /\ k # None /\ b # None
  BY <1>0, <1>1, <1>2, NotMine, Constants DEF Uses, H
<1>7. /\ blockno'[b] = k /\ ~valid'[b] /\ refcnt'[b] = 1
      /\ \A c \in Bufs : c # b => blockno'[c] = blockno[c] /\ valid'[c] = valid[c] /\ refcnt'[c] = refcnt[c]
  BY <1>0, <1>2 DEF CacheTypes, DiskTypes
<1>8. DiskTypes'
  <2>1. blockno' \in [Bufs -> Blocks \cup {None}]
    BY <1>0, <1>2 DEF DiskTypes
  <2> QED
    BY <1>0, <2>1 DEF DiskTypes
<1>9. CacheTypes'
  <2>1. refcnt' \in [Bufs -> Nat] /\ valid' \in [Bufs -> BOOLEAN]
    BY <1>0, <1>2 DEF CacheTypes
  <2> QED
    BY <1>0, <1>2, <1>4, <2>1 DEF CacheTypes
<1>10. Links'
  <2>1. Link(p)'
    <3>1. H(p)' = H(p) /\ \A c \in H(p) : holder'[c] = p /\ valid'[c]
      <4>1. \A c \in H(p) : c \in Bufs /\ c # b /\ holder[c] = p /\ valid[c]
        BY <1>0, <1>2, <1>5, HeldBufs DEF Uses, H, Link
      <4> QED
        BY <1>0, <1>7, <4>1 DEF H
    <3> QED
      BY <1>0, <1>1, <1>3, <1>4, <1>5, <1>6, <1>7, <3>1 DEF Link
  <2>2. ASSUME NEW q \in Procs, q # p PROVE Link(q)'
    <3>1. Link(q)
      BY <1>0 DEF Links
    <3>2. \A c \in Bufs : Uses(q, c) => c # b
      BY <1>2
    <3>3. op[q].at = "reading" => ~valid'[op[q].b]
      <4>1. op[q].at = "reading" => op[q].b \in Bufs /\ ~valid[op[q].b]
        BY <1>0, <3>1, HeldBufs DEF Link
      <4> QED
        BY <1>7, <4>1
    <3>4. H(q)' = H(q) /\ \A c \in H(q) : holder'[c] = q /\ valid'[c]
      <4>1. \A c \in H(q) : c \in Bufs /\ c # b /\ holder[c] = q /\ valid[c]
        BY <1>0, <3>1, <3>2, HeldBufs DEF Uses, H, Link
      <4> QED
        BY <1>0, <1>7, <4>1 DEF H
    <3>5. op[q].b # None => blockno'[op[q].b] # None
      <4>1. op[q].b # None => op[q].b \in Bufs /\ op[q].b # b /\ blockno[op[q].b] # None
        BY <1>0, <3>1, <3>2, HeldBufs DEF Uses, Link
      <4> QED
        BY <1>7, <4>1
    <3>6. op'[q] = op[q] /\ io'[q] = io[q] /\ held'[q] = held[q] /\ holder' = holder
      BY <1>0, <1>4, <2>2
    <3> QED
      BY <3>1, <3>3, <3>4, <3>5, <3>6 DEF Link
  <2>3. \A c \in Bufs : valid'[c] => blockno'[c] # None
    BY <1>0, <1>7 DEF Links
  <2>4. \A c \in pinned' : valid'[c]
    BY <1>0, <1>2, <1>7 DEF Links, CacheTypes
  <2> QED
    BY <2>1, <2>2, <2>3, <2>4 DEF Links
<1>11. Chains' /\ Rings'
  BY <1>0, ChainsSame
<1>12. RefcntExact'
  <2>1. \A c \in Bufs : c # b => \A q \in Procs : Uses(q, c)' <=> Uses(q, c)
    BY <1>0, <1>4, <1>5, Constants DEF Uses
  <2>2. \A q \in Procs : q # p => ~Uses(q, b)'
    BY <1>0, <1>2, <1>4 DEF Uses
  <2>3. Uses(p, b)'
    BY <1>4 DEF Uses
  <2>4. \A c \in Bufs : c # b => Users(c)' = Users(c)
    BY <2>1 DEF Users
  <2>5. Users(b)' = {p}
    BY <2>2, <2>3 DEF Users
  <2>6. Cardinality(Users(b)') = 1
    BY <2>5, FS_Singleton
  <2>7. ASSUME NEW c \in Bufs
        PROVE  refcnt'[c] = Cardinality(Users(c)') + (IF c \in pinned' THEN 1 ELSE 0)
    <3>1. refcnt[c] = Cardinality(Users(c)) + (IF c \in pinned THEN 1 ELSE 0)
      BY <1>0, RefcntUsers
    <3>2. CASE c = b
      BY <1>0, <1>2, <1>7, <2>6, <3>2
    <3>3. CASE c # b
      BY <1>0, <1>7, <2>4, <3>1, <3>3
    <3> QED
      BY <3>2, <3>3
  <2>8. ASSUME NEW c \in Bufs, NEW d \in Bufs, blockno'[c] = blockno'[d], blockno'[c] # None
        PROVE  c = d
    BY <1>0, <1>1, <1>7, <2>8 DEF RefcntExact
  <2> QED
    BY <2>7, <2>8 DEF RefcntExact, Users
<1>13. NoBuffersMeansAllUsed'
  BY <1>2, <1>3 DEF NoBuffersMeansAllUsed
<1>14. Copies'
  <2>1. \A q \in Procs : Finished(q)' <=> Finished(q)
    BY <1>0 DEF Finished
  <2>2. \A c \in Bufs : c # b => (Dirty(c) => Dirty(c)')
    BY <1>3, <1>4, <2>1 DEF Dirty
  <2>3. ASSUME NEW c \in Bufs, valid'[c], c \notin pinned', ~Dirty(c)'
        PROVE  data'[c] = platter'[blockno'[c]]
    BY <1>0, <1>7, <2>2, <2>3 DEF Copies
  <2>4. ASSUME NEW q \in Procs, Finished(q)'
        PROVE  data'[io'[q].b] = platter'[blockno'[io'[q].b]]
    <3>1. Finished(q) /\ io[q].at # "none"
      BY <2>1, <2>4 DEF Finished
    <3>2. io[q].b \in Bufs /\ io[q].b # b
      BY <1>0, <1>2, <3>1, InDriver DEF Uses
    <3> QED
      BY <1>0, <1>7, <3>1, <3>2 DEF Copies
  <2> QED
    BY <2>3, <2>4 DEF Copies
<1> QED
  BY <1>8, <1>9, <1>10, <1>11, <1>12, <1>13, <1>14 DEF IInv

LEMMA NoneIInv ==
  ASSUME IInv, NEW p \in Procs, NEW k \in Blocks, bget(p, k), bgetNone(p, k)
  PROVE  IInv'
<1>0. /\ DiskTypes /\ CacheTypes /\ Links /\ Chains /\ Rings /\ RefcntExact /\ Copies
      /\ UNCHANGED <<list, holder, held, pinned,
                     platter, data, free, chain, info, avail, used, bdisk, isr, intr, io>>
      /\ UNCHANGED <<blockno, valid, refcnt, op>> /\ panicked' = TRUE /\ Recycled = {}
  BY DEF IInv, bget, bgetNone
<1>1. DiskTypes' /\ CacheTypes'
  BY <1>0 DEF DiskTypes, CacheTypes
<1>2. Links'
  BY <1>0 DEF Links, Link, H
<1>3. Chains' /\ Rings'
  BY <1>0, ChainsSame
<1>4. \A q \in Procs : \A b \in Bufs : Uses(q, b)' <=> Uses(q, b)
  BY <1>0 DEF Uses
<1>5. RefcntExact'
  BY <1>0, <1>4, RefcntSame
<1>6. Copies'
  BY <1>0, CopiesSame DEF Finished
<1> DEFINE S == pinned \cup {op[q].b : q \in Procs} \cup UNION {ToSet(held[q]) : q \in Procs}
<1>7. Bufs \subseteq S
  <2> SUFFICES ASSUME NEW b \in Bufs PROVE b \in S
    OBVIOUS
  <2>1. refcnt[b] # 0
    <3>1. b \in ToSet(list)
      BY <1>0 DEF CacheTypes
    <3>2. PICK i \in DOMAIN list : list[i] = b
      BY <3>1 DEF ToSet
    <3> QED
      BY <1>0, <3>2 DEF Recycled
  <2>2. b \in pinned \/ \E q \in Procs : Uses(q, b)
    BY <1>0, <2>1, Referenced
  <2> QED
    BY <2>2 DEF Uses
<1>8. IsFiniteSet(S)
  <2>1. S \subseteq Bufs \cup {None}
    <3>1. \A q \in Procs : op[q].b \in Bufs \cup {None} /\ ToSet(held[q]) \subseteq Bufs
      BY <1>0, HeldBufs DEF H
    <3> QED
      BY <1>0, <3>1 DEF CacheTypes
  <2>2. IsFiniteSet(Bufs \cup {None})
    BY Constants, FS_AddElement
  <2> QED
    BY <2>1, <2>2, FS_Subset
<1>9. Cardinality(S) >= Cardinality(Bufs)
  <2>1. Cardinality(Bufs) <= Cardinality(S) /\ Cardinality(Bufs) \in Nat /\ Cardinality(S) \in Nat
    BY <1>7, <1>8, FS_Subset, FS_CardinalityType
  <2> QED
    BY <2>1
<1>10. NoBuffersMeansAllUsed'
  <2>1. S' = S
    BY <1>0
  <2> QED
    BY <1>9, <2>1 DEF NoBuffersMeansAllUsed
<1> QED
  BY <1>1, <1>2, <1>3, <1>5, <1>6, <1>10 DEF IInv

\* acquiresleep() finds the lock taken.
LEMMA SleepIInv ==
  ASSUME IInv, NEW p \in Procs, acquiresleep(p), holder[op[p].b] # None
  PROVE  IInv'
<1>0. /\ DiskTypes /\ CacheTypes /\ Links /\ Chains /\ Rings /\ RefcntExact /\ Copies
      /\ Is(p, "acquire") /\ Goto(p, "asleep", op[p].b)
      /\ UNCHANGED <<list, refcnt, valid, pinned, panicked, holder, held, io,
                     platter, data, blockno, free, chain, info, avail, used, bdisk, isr, intr>>
  BY DEF IInv, acquiresleep
<1>1. ~panicked /\ op[p].at = "acquire" /\ io[p].at = "none"
  BY <1>0 DEF Is
<1>2. PICK b \in Bufs \cup {None} : b = op[p].b
  BY <1>0, HeldBufs
<1>3. /\ op' \in [Procs -> OpSet] /\ op'[p].at = "asleep" /\ op'[p].b = op[p].b
      /\ \A q \in Procs : q # p => op'[q] = op[q]
  BY <1>0, <1>2, GotoEffect
<1>4. DiskTypes' /\ CacheTypes'
  BY <1>0, <1>3 DEF DiskTypes, CacheTypes
<1>5. Links'
  <2>1. Link(p)'
    <3>1. Link(p)
      BY <1>0 DEF Links
    <3> QED
      BY <1>0, <1>1, <1>3, <3>1 DEF Link, H
  <2>2. ASSUME NEW q \in Procs, q # p PROVE Link(q)'
    <3>1. Link(q)
      BY <1>0 DEF Links
    <3> QED
      BY <1>0, <1>3, <2>2, <3>1 DEF Link, H
  <2> QED
    BY <1>0, <2>1, <2>2 DEF Links
<1>6. Chains' /\ Rings'
  BY <1>0, ChainsSame
<1>7. \A q \in Procs : \A c \in Bufs : Uses(q, c)' <=> Uses(q, c)
  BY <1>0, <1>3 DEF Uses
<1>8. RefcntExact'
  BY <1>0, <1>7, RefcntSame
<1>9. NoBuffersMeansAllUsed'
  BY <1>0, <1>1 DEF NoBuffersMeansAllUsed
<1>10. Copies'
  BY <1>0, <1>1, <1>3, CopiesSame DEF Finished
<1> QED
  BY <1>4, <1>5, <1>6, <1>8, <1>9, <1>10 DEF IInv

\* acquiresleep() takes the lock of a buffer that has its block.
LEMMA TakeIInv ==
  ASSUME IInv, NEW p \in Procs, acquiresleep(p), holder[op[p].b] = None, valid[op[p].b]
  PROVE  IInv'
<1>1. PICK b \in Bufs \cup {None} : b = op[p].b
  BY HeldBufs DEF IInv
<1>0. /\ DiskTypes /\ CacheTypes /\ Links /\ Chains /\ Rings /\ RefcntExact /\ Copies
      /\ Is(p, "acquire") /\ Goto(p, "user", None)
      /\ holder' = [holder EXCEPT ![b] = p] /\ held' = [held EXCEPT ![p] = Append(@, b)]
      /\ UNCHANGED <<list, refcnt, valid, pinned, panicked, io,
                     platter, data, blockno, free, chain, info, avail, used, bdisk, isr, intr>>
  BY <1>1 DEF IInv, acquiresleep
<1>2. ~panicked /\ op[p].at = "acquire" /\ io[p].at = "none"
  BY <1>0 DEF Is
<1>3. /\ op' \in [Procs -> OpSet] /\ op'[p].at = "user" /\ op'[p].b = None
      /\ \A q \in Procs : q # p => op'[q] = op[q]
  BY <1>0, GotoEffect
<1>4. Link(p) /\ held[p] \in Seq(Bufs)
  BY <1>0 DEF Links, CacheTypes
<1>5. b \in Bufs /\ Len(held[p]) <= 1 /\ b \notin H(p) /\ valid[b] /\ holder[b] = None
  BY <1>1, <1>2, <1>4 DEF Link
<1>6. /\ holder'[b] = p /\ \A c \in Bufs : c # b => holder'[c] = holder[c]
      /\ holder' \in [Bufs -> Procs \cup {None}]
  BY <1>0, <1>5 DEF CacheTypes
<1>7. /\ held'[p] \in Seq(Bufs) /\ Len(held'[p]) <= 2 /\ H(p)' = H(p) \cup {b} /\ Distinct(held'[p])
      /\ \A q \in Procs : q # p => held'[q] = held[q]
  <2>1. held'[p] = Append(held[p], b) /\ \A q \in Procs : q # p => held'[q] = held[q]
    BY <1>0 DEF CacheTypes
  <2>2. /\ Append(held[p], b) \in Seq(Bufs) /\ Len(Append(held[p], b)) = Len(held[p]) + 1
        /\ ToSet(Append(held[p], b)) = ToSet(held[p]) \cup {b} /\ Distinct(Append(held[p], b))
    BY <1>4, <1>5, Appended DEF H, Link
  <2>3. Len(held[p]) \in Nat
    BY <1>4
  <2> QED
    BY <1>5, <2>1, <2>2, <2>3 DEF H
<1>8. DiskTypes'
  BY <1>0 DEF DiskTypes
<1>9. CacheTypes'
  <2>1. held' \in [Procs -> Seq(Bufs)] /\ \A q \in Procs : Len(held'[q]) <= 2
    BY <1>0, <1>7 DEF CacheTypes
  <2> QED
    BY <1>0, <1>3, <1>6, <2>1 DEF CacheTypes
<1>10. Links'
  <2>1. Link(p)'
    <3>1. \A c \in H(p)' : holder'[c] = p /\ valid'[c]
      <4>1. \A c \in H(p) : c \in Bufs /\ holder[c] = p /\ valid[c]
        BY <1>0, <1>4, HeldBufs DEF Link
      <4> QED
        BY <1>0, <1>5, <1>6, <1>7, <4>1
    <3> QED
      BY <1>0, <1>2, <1>3, <1>7, <3>1 DEF Link
  <2>2. ASSUME NEW q \in Procs, q # p PROVE Link(q)'
    <3>1. Link(q)
      BY <1>0 DEF Links
    <3>2. \A c \in Bufs : holder[c] = q => holder'[c] = q
      BY <1>5, <1>6, Constants
    <3>3. op[q].at = "asleep" => holder'[op[q].b] # None
      <4>1. op[q].at = "asleep" => op[q].b \in Bufs /\ holder[op[q].b] # None
        BY <1>0, <3>1, HeldBufs DEF Link
      <4> QED
        BY <1>5, <1>6, <4>1
    <3>4. op[q].at = "reading" => ~valid'[op[q].b]
      BY <1>0, <3>1 DEF Link
    <3> QED
      BY <1>0, <1>3, <1>7, <2>2, <3>1, <3>2, <3>3, <3>4, LinkOther
  <2> QED
    BY <1>0, <2>1, <2>2 DEF Links
<1>11. Chains' /\ Rings'
  BY <1>0, ChainsSame
<1>12. \A q \in Procs : \A c \in Bufs : Uses(q, c)' <=> Uses(q, c)
  <2>1. \A c \in Bufs : Uses(p, c)' <=> Uses(p, c)
    BY <1>1, <1>3, <1>7, Constants DEF Uses, H
  <2>2. \A q \in Procs : q # p => \A c \in Bufs : Uses(q, c)' <=> Uses(q, c)
    BY <1>3, <1>7 DEF Uses
  <2> QED
    BY <2>1, <2>2
<1>13. RefcntExact'
  BY <1>0, <1>12, RefcntSame
<1>14. NoBuffersMeansAllUsed'
  BY <1>0, <1>2 DEF NoBuffersMeansAllUsed
<1>15. Copies'
  BY <1>0, <1>2, <1>3, CopiesSame DEF Finished
<1> QED
  BY <1>8, <1>9, <1>10, <1>11, <1>13, <1>14, <1>15 DEF IInv

LEMMA StartEffect ==
  ASSUME DiskTypes, NEW p \in Procs, NEW b \in Bufs, NEW w \in BOOLEAN, RwStart(p, b, w)
  PROVE  /\ io' \in [Procs -> IoSet] /\ io'[p].at = "start" /\ io'[p].b = b /\ io'[p].write = w
         /\ \A q \in Procs : q # p => io'[q] = io[q]
<1> DEFINE r == [NotIo EXCEPT !.at = "start", !.b = b, !.write = w]
<1>1. r \in IoSet /\ r.at = "start" /\ r.b = b /\ r.write = w
  BY Constants DEF NotIo, IoSet
<1>2. io' = [io EXCEPT ![p] = r] /\ io \in [Procs -> IoSet]
  BY DEF RwStart, DiskTypes
<1> HIDE DEF r
<1> QED
  BY <1>1, <1>2

\* acquiresleep() takes the lock and the block has to be read.
LEMMA ReadIInv ==
  ASSUME IInv, NEW p \in Procs, acquiresleep(p), holder[op[p].b] = None, ~valid[op[p].b]
  PROVE  IInv'
<1>1. PICK b \in Bufs \cup {None} : b = op[p].b
  BY HeldBufs DEF IInv
<1>0. /\ DiskTypes /\ CacheTypes /\ Links /\ Chains /\ Rings /\ RefcntExact /\ Copies
      /\ Is(p, "acquire") /\ Goto(p, "reading", b) /\ RwStart(p, b, FALSE)
      /\ holder' = [holder EXCEPT ![b] = p]
      /\ UNCHANGED <<list, refcnt, valid, pinned, panicked, held,
                     platter, data, blockno, free, chain, info, avail, used, bdisk, isr, intr>>
  BY <1>1 DEF IInv, acquiresleep
<1>2. ~panicked /\ op[p].at = "acquire" /\ io[p].at = "none"
  BY <1>0 DEF Is
<1>3. /\ op' \in [Procs -> OpSet] /\ op'[p].at = "reading" /\ op'[p].b = b
      /\ \A q \in Procs : q # p => op'[q] = op[q]
  BY <1>0, GotoEffect
<1>4. Link(p)
  BY <1>0 DEF Links
<1>5. b \in Bufs /\ b # None /\ Len(held[p]) <= 1 /\ b \notin H(p) /\ ~valid[b] /\ holder[b] = None /\ blockno[b] # None
  BY <1>1, <1>2, <1>4 DEF Link
<1>6. /\ holder'[b] = p /\ \A c \in Bufs : c # b => holder'[c] = holder[c]
      /\ holder' \in [Bufs -> Procs \cup {None}]
  BY <1>0, <1>5 DEF CacheTypes
<1>7. /\ io' \in [Procs -> IoSet] /\ io'[p].at = "start" /\ io'[p].b = b /\ io'[p].write = FALSE
      /\ \A q \in Procs : q # p => io'[q] = io[q]
  BY <1>0, <1>5, StartEffect
<1>8. DiskTypes' /\ CacheTypes'
  BY <1>0, <1>3, <1>6, <1>7 DEF DiskTypes, CacheTypes
<1>9. Links'
  <2>1. Link(p)'
    <3>1. H(p)' = H(p) /\ \A c \in H(p) : holder'[c] = p /\ valid'[c]
      <4>1. \A c \in H(p) : c \in Bufs /\ holder[c] = p /\ valid[c]
        BY <1>0, <1>4, HeldBufs DEF Link
      <4> QED
        BY <1>0, <1>5, <1>6, <4>1 DEF H
    <3>2. Distinct(held'[p])
      BY <1>0, <1>4 DEF Link
    <3> QED
      BY <1>0, <1>3, <1>5, <1>6, <1>7, <3>1, <3>2 DEF Link
  <2>2. ASSUME NEW q \in Procs, q # p PROVE Link(q)'
    <3>1. Link(q)
      BY <1>0 DEF Links
    <3>2. \A c \in Bufs : holder[c] = q => holder'[c] = q
      BY <1>5, <1>6, Constants
    <3>3. op[q].at = "asleep" => holder'[op[q].b] # None
      <4>1. op[q].at = "asleep" => op[q].b \in Bufs /\ holder[op[q].b] # None
        BY <1>0, <3>1, HeldBufs DEF Link
      <4> QED
        BY <1>5, <1>6, <4>1
    <3>4. op[q].at = "reading" => ~valid'[op[q].b]
      BY <1>0, <3>1 DEF Link
    <3> QED
      BY <1>0, <1>3, <1>7, <2>2, <3>1, <3>2, <3>3, <3>4, LinkOther
  <2> QED
    BY <1>0, <2>1, <2>2 DEF Links
<1>10. Chains' /\ Rings'
  BY <1>0, <1>2, <1>7, ChainsSame
<1>11. \A q \in Procs : \A c \in Bufs : Uses(q, c)' <=> Uses(q, c)
  BY <1>0, <1>1, <1>3 DEF Uses
<1>12. RefcntExact'
  BY <1>0, <1>11, RefcntSame
<1>13. NoBuffersMeansAllUsed'
  BY <1>0, <1>2 DEF NoBuffersMeansAllUsed
<1>14. Copies'
  <2>1. \A q \in Procs : (Finished(q)' <=> Finished(q)) /\ (Finished(q) => io'[q].b = io[q].b)
    BY <1>0, <1>2, <1>7 DEF Finished
  <2> QED
    BY <1>0, <1>2, <1>3, <2>1, CopiesSame
<1> QED
  BY <1>8, <1>9, <1>10, <1>12, <1>13, <1>14 DEF IInv

\* What the return from virtio_disk_rw() leaves of the other processes, and of
\* who has finished.
LEMMA DoneOthers ==
  ASSUME DiskTypes, Chains, NEW p \in Procs, RwDone(p)
  PROVE  /\ DiskTypes' /\ io'[p].at = "none" /\ io[p].at # "none" /\ Finished(p)
         /\ \A q \in Procs : q # p => /\ io'[q].b = io[q].b /\ io'[q].write = io[q].write
                                      /\ io'[q].at = "none" <=> io[q].at = "none"
                                      /\ Finished(q)' <=> Finished(q)
         /\ ~Finished(p)'
<1>1. /\ io[p].at = "woken" /\ io[p].idx \in Desc
      /\ free' = free \cup chain[io[p].idx] /\ chain' = [chain EXCEPT ![io[p].idx] = {}]
      /\ info' = [info EXCEPT ![io[p].idx] = NoInfo]
      /\ io' \in [Procs -> IoSet] /\ io'[p].at = "none"
      /\ \A q \in Procs : q # p =>
           /\ io'[q].b = io[q].b /\ io'[q].write = io[q].write /\ io'[q].idx = io[q].idx
           /\ io'[q].at = IF io[q].at = "nodesc" THEN "start" ELSE io[q].at
      /\ UNCHANGED <<platter, data, blockno, avail, used, bdisk, isr, intr>>
  BY DoneEffect
<1>2. free' \in SUBSET Desc /\ chain' \in [Desc -> SUBSET Desc]
  BY <1>1 DEF DiskTypes
<1>3. info' \in [Desc -> [b : Bufs \cup {None}, write : BOOLEAN]]
  BY <1>1 DEF DiskTypes, NoInfo
<1>4. DiskTypes'
  BY <1>1, <1>2, <1>3 DEF DiskTypes
<1>5. \A q \in Procs : q # p => (Finished(q)' <=> Finished(q))
  BY <1>1 DEF Finished
<1>6. Finished(p) /\ ~Finished(p)'
  BY <1>1 DEF Finished
<1>7. \A q \in Procs : q # p => /\ io'[q].b = io[q].b /\ io'[q].write = io[q].write
                                /\ io'[q].at = "none" <=> io[q].at = "none"
  BY <1>1
<1> QED
  BY <1>1, <1>4, <1>5, <1>6, <1>7

LEMMA BreadReturnIInv ==
  ASSUME IInv, NEW p \in Procs, breadReturn(p)
  PROVE  IInv'
<1>1. PICK b \in Bufs \cup {None} : b = op[p].b
  BY HeldBufs DEF IInv
<1>0. /\ DiskTypes /\ CacheTypes /\ Links /\ Chains /\ Rings /\ RefcntExact /\ Copies
      /\ ~panicked /\ op[p].at = "reading" /\ RwDone(p) /\ Goto(p, "user", None)
      /\ valid' = [valid EXCEPT ![b] = TRUE] /\ held' = [held EXCEPT ![p] = Append(@, b)]
      /\ UNCHANGED <<list, refcnt, holder, pinned, panicked>>
  BY <1>1 DEF IInv, breadReturn
<1>2. /\ DiskTypes' /\ io'[p].at = "none" /\ io[p].at # "none" /\ Finished(p)
      /\ \A q \in Procs : q # p => /\ io'[q].b = io[q].b /\ io'[q].write = io[q].write
                                   /\ io'[q].at = "none" <=> io[q].at = "none"
                                   /\ Finished(q)' <=> Finished(q)
      /\ ~Finished(p)'
  BY <1>0, DoneOthers
<1>3. /\ op' \in [Procs -> OpSet] /\ op'[p].at = "user" /\ op'[p].b = None
      /\ \A q \in Procs : q # p => op'[q] = op[q]
  BY <1>0, GotoEffect
<1>4. Link(p) /\ held[p] \in Seq(Bufs)
  BY <1>0 DEF Links, CacheTypes
<1>5. b \in Bufs /\ Len(held[p]) <= 1 /\ b \notin H(p) /\ ~valid[b] /\ holder[b] = p /\ io[p].b = b /\ blockno[b] # None
  BY <1>0, <1>1, <1>2, <1>4 DEF Link
<1>6. UNCHANGED <<platter, data, blockno>>
  BY <1>0 DEF RwDone
<1>7. /\ held'[p] \in Seq(Bufs) /\ Len(held'[p]) <= 2 /\ H(p)' = H(p) \cup {b} /\ Distinct(held'[p])
      /\ \A q \in Procs : q # p => held'[q] = held[q]
  <2>1. held'[p] = Append(held[p], b) /\ \A q \in Procs : q # p => held'[q] = held[q]
    BY <1>0 DEF CacheTypes
  <2>2. /\ Append(held[p], b) \in Seq(Bufs) /\ Len(Append(held[p], b)) = Len(held[p]) + 1
        /\ ToSet(Append(held[p], b)) = ToSet(held[p]) \cup {b} /\ Distinct(Append(held[p], b))
    BY <1>4, <1>5, Appended DEF H, Link
  <2>3. Len(held[p]) \in Nat
    BY <1>4
  <2> QED
    BY <1>5, <2>1, <2>2, <2>3 DEF H
<1>8. valid'[b] /\ (\A c \in Bufs : c # b => valid'[c] = valid[c]) /\ valid' \in [Bufs -> BOOLEAN]
  BY <1>0, <1>5 DEF CacheTypes
<1>9. CacheTypes'
  <2>1. held' \in [Procs -> Seq(Bufs)] /\ \A q \in Procs : Len(held'[q]) <= 2
    BY <1>0, <1>7 DEF CacheTypes
  <2> QED
    BY <1>0, <1>3, <1>8, <2>1 DEF CacheTypes
<1>10. Links'
  <2>1. Link(p)'
    <3>1. \A c \in H(p)' : holder'[c] = p /\ valid'[c]
      <4>1. \A c \in H(p) : c \in Bufs /\ holder[c] = p /\ valid[c]
        BY <1>0, <1>4, HeldBufs DEF Link
      <4> QED
        BY <1>0, <1>5, <1>7, <1>8, <4>1
    <3> QED
      BY <1>2, <1>3, <1>7, <3>1 DEF Link
  <2>2. ASSUME NEW q \in Procs, q # p PROVE Link(q)'
    <3>1. Link(q)
      BY <1>0 DEF Links
    <3>2. \A c \in Bufs : holder[c] = q => holder'[c] = q /\ (valid[c] => valid'[c])
      BY <1>0, <1>8
    <3>3. op[q].at = "asleep" => holder'[op[q].b] # None
      BY <1>0, <3>1 DEF Link
    <3>4. op[q].at = "reading" => ~valid'[op[q].b]
      <4>1. op[q].at = "reading" => op[q].b \in Bufs /\ holder[op[q].b] = q /\ ~valid[op[q].b]
        BY <1>0, <3>1, HeldBufs DEF Link
      <4> QED
        BY <1>5, <1>8, <2>2, <4>1
    <3> QED
      BY <1>0, <1>2, <1>3, <1>6, <1>7, <2>2, <3>1, <3>2, <3>3, <3>4, LinkOther
  <2>3. \A c \in Bufs : valid'[c] => blockno'[c] # None
    BY <1>0, <1>5, <1>6, <1>8 DEF Links
  <2>4. \A c \in pinned' : valid'[c]
    BY <1>0, <1>8 DEF Links, CacheTypes
  <2> QED
    BY <2>1, <2>2, <2>3, <2>4 DEF Links
<1>11. Chains' /\ Rings'
  BY <1>0, ChainsDone
<1>12. \A q \in Procs : \A c \in Bufs : Uses(q, c)' <=> Uses(q, c)
  <2>1. \A c \in Bufs : Uses(p, c)' <=> Uses(p, c)
    BY <1>1, <1>3, <1>7, Constants DEF Uses, H
  <2>2. \A q \in Procs : q # p => \A c \in Bufs : Uses(q, c)' <=> Uses(q, c)
    BY <1>3, <1>7 DEF Uses
  <2> QED
    BY <2>1, <2>2
<1>13. RefcntExact'
  BY <1>0, <1>6, <1>12, RefcntSame
<1>14. NoBuffersMeansAllUsed'
  BY <1>0 DEF NoBuffersMeansAllUsed
<1>15. Copies'
  <2>1. data[b] = platter[blockno[b]]
    BY <1>0, <1>2, <1>5 DEF Copies
  <2>2. \A c \in Bufs : Dirty(c) => Dirty(c)'
    BY <1>0, <1>2, <1>3 DEF Dirty
  <2>3. ASSUME NEW c \in Bufs, valid'[c], c \notin pinned', ~Dirty(c)'
        PROVE  data'[c] = platter'[blockno'[c]]
    BY <1>0, <1>6, <1>8, <2>1, <2>2, <2>3 DEF Copies
  <2>4. ASSUME NEW q \in Procs, Finished(q)'
        PROVE  data'[io'[q].b] = platter'[blockno'[io'[q].b]]
    <3>1. q # p /\ Finished(q) /\ io'[q].b = io[q].b
      BY <1>2, <2>4
    <3> QED
      BY <1>0, <1>6, <3>1 DEF Copies
  <2> QED
    BY <2>3, <2>4 DEF Copies
<1> QED
  BY <1>2, <1>9, <1>10, <1>11, <1>13, <1>14, <1>15 DEF IInv

-----------------------------------------------------------------------------
(* What callers do with a locked buffer.                                   *)

LEMMA LogWriteIInv ==
  ASSUME IInv, NEW p \in Procs, NEW v \in Vals, log_write(p, v)
  PROVE  IInv'
<1>0. /\ DiskTypes /\ CacheTypes /\ Links /\ Chains /\ Rings /\ RefcntExact /\ Copies /\ HasBuffer(p)
      /\ UNCHANGED <<list, valid, holder, op, held, panicked,
                     platter, blockno, free, chain, info, avail, used, bdisk, isr, intr, io>>
  BY DEF IInv, log_write
<1>1. PICK b \in Bufs : b = Top(p) /\ b \in H(p) /\ holder[b] = p /\ valid[b]
  BY <1>0, Locked
<1>2. /\ data' = [data EXCEPT ![b] = v] /\ pinned' = pinned \cup {b}
      /\ IF b \in pinned THEN refcnt' = refcnt ELSE refcnt' = [refcnt EXCEPT ![b] = @ + 1]
  <2>1. /\ data' = [data EXCEPT ![b] = v]
        /\ IF b \in pinned THEN UNCHANGED <<refcnt, pinned>>
           ELSE refcnt' = [refcnt EXCEPT ![b] = @ + 1] /\ pinned' = pinned \cup {b}
    BY <1>1 DEF log_write
  <2> QED
    BY <2>1
<1>3. ~panicked /\ io[p].at = "none"
  BY <1>0, Locked
<1>4. data'[b] = v /\ \A c \in Bufs : c # b => data'[c] = data[c]
  BY <1>0, <1>2 DEF DiskTypes
<1>5. DiskTypes'
  <2>1. data' \in [Bufs -> Vals]
    BY <1>0, <1>2 DEF DiskTypes
  <2> QED
    BY <1>0, <2>1 DEF DiskTypes
<1>6. CacheTypes'
  <2>1. pinned' \in SUBSET Bufs
    BY <1>0, <1>2 DEF CacheTypes
  <2>2. refcnt' \in [Bufs -> Nat]
    <3>1. refcnt \in [Bufs -> Nat]
      BY <1>0 DEF CacheTypes
    <3>2. [refcnt EXCEPT ![b] = @ + 1] \in [Bufs -> Nat]
      BY <3>1
    <3> QED
      BY <1>2, <3>1, <3>2
  <2> QED
    BY <1>0, <2>1, <2>2 DEF CacheTypes
<1>7. Links'
  <2>1. \A q \in Procs : Link(q)'
    BY <1>0 DEF Links, Link, H
  <2> QED
    BY <1>0, <1>1, <1>2, <2>1 DEF Links
<1>8. Chains' /\ Rings'
  BY <1>0, ChainsSame
<1>9. RefcntExact'
  <2>1. \A c \in Bufs : Users(c)' = Users(c)
    BY <1>0 DEF Users, Uses
  <2>2. ASSUME NEW c \in Bufs
        PROVE  refcnt'[c] = Cardinality(Users(c)') + (IF c \in pinned' THEN 1 ELSE 0)
    <3>1. refcnt[c] = Cardinality(Users(c)) + (IF c \in pinned THEN 1 ELSE 0) /\ Cardinality(Users(c)) \in Nat
      BY <1>0, RefcntUsers, UsersFinite
    <3>2. refcnt'[c] = IF c = b /\ b \notin pinned THEN refcnt[c] + 1 ELSE refcnt[c]
      BY <1>0, <1>2 DEF CacheTypes
    <3>3. Cardinality(Users(c)') = Cardinality(Users(c))
      BY <2>1
    <3> QED
      BY <1>2, <3>1, <3>2, <3>3
  <2> QED
    BY <1>0, <2>2 DEF RefcntExact, Users
<1>10. NoBuffersMeansAllUsed'
  BY <1>0, <1>3 DEF NoBuffersMeansAllUsed
<1>11. Copies'
  <2>1. \A q \in Procs : Finished(q)' <=> Finished(q)
    BY <1>0 DEF Finished
  <2>2. \A c \in Bufs : Dirty(c)' <=> Dirty(c)
    BY <1>0, <2>1 DEF Dirty
  <2>3. ASSUME NEW c \in Bufs, valid'[c], c \notin pinned', ~Dirty(c)'
        PROVE  data'[c] = platter'[blockno'[c]]
    BY <1>0, <1>2, <1>4, <2>2, <2>3 DEF Copies
  <2>4. ASSUME NEW q \in Procs, Finished(q)'
        PROVE  data'[io'[q].b] = platter'[blockno'[io'[q].b]]
    <3>1. Finished(q) /\ io[q].at # "none" /\ q # p
      BY <1>3, <2>1, <2>4 DEF Finished
    <3>2. io[q].b \in Bufs /\ io[q].b # b
      BY <1>0, <1>1, <3>1, InDriver
    <3> QED
      BY <1>0, <1>4, <3>1, <3>2 DEF Copies
  <2> QED
    BY <2>3, <2>4 DEF Copies
<1> QED
  BY <1>5, <1>6, <1>7, <1>8, <1>9, <1>10, <1>11 DEF IInv

LEMMA BwriteIInv ==
  ASSUME IInv, NEW p \in Procs, NEW v \in Vals, bwrite(p, v)
  PROVE  IInv'
<1>0. /\ DiskTypes /\ CacheTypes /\ Links /\ Chains /\ Rings /\ RefcntExact /\ Copies /\ HasBuffer(p)
      /\ UNCHANGED <<list, refcnt, valid, holder, held, pinned,
                     platter, blockno, free, chain, info, avail, used, bdisk, isr, intr>>
  BY DEF IInv, bwrite
<1>1. PICK b \in Bufs : b = Top(p) /\ b \in H(p) /\ holder[b] = p /\ valid[b]
  BY <1>0, Locked
<1>2. /\ data' = [data EXCEPT ![b] = v] /\ RwStart(p, b, TRUE) /\ Goto(p, "writing", b) /\ panicked' = panicked
      /\ b \in pinned => v = data[b]
  BY <1>1 DEF bwrite, holdingsleep
<1>3. ~panicked /\ io[p].at = "none" /\ op[p].at = "user" /\ op[p].b = None /\ Link(p)
  BY <1>0, Locked DEF Links
<1>4. data'[b] = v /\ \A c \in Bufs : c # b => data'[c] = data[c]
  BY <1>0, <1>2 DEF DiskTypes
<1>5. /\ op' \in [Procs -> OpSet] /\ op'[p].at = "writing" /\ op'[p].b = b
      /\ \A q \in Procs : q # p => op'[q] = op[q]
  BY <1>0, <1>2, GotoEffect
<1>6. /\ io' \in [Procs -> IoSet] /\ io'[p].at = "start" /\ io'[p].b = b /\ io'[p].write = TRUE
      /\ \A q \in Procs : q # p => io'[q] = io[q]
  BY <1>0, <1>2, StartEffect
<1>7. DiskTypes'
  <2>1. data' \in [Bufs -> Vals]
    BY <1>0, <1>2 DEF DiskTypes
  <2> QED
    BY <1>0, <1>6, <2>1 DEF DiskTypes
<1>8. CacheTypes'
  BY <1>0, <1>2, <1>5 DEF CacheTypes
<1>9. Links'
  <2>1. Link(p)'
    <3>1. b # None /\ blockno[b] # None
      BY <1>0, <1>1, Constants DEF Links
    <3>2. H(p)' = H(p) /\ held'[p] = held[p]
      BY <1>0 DEF H
    <3>3. Distinct(held'[p]) /\ \A c \in H(p)' : holder'[c] = p /\ valid'[c]
      BY <1>0, <1>3, <3>2 DEF Link
    <3> QED
      BY <1>0, <1>1, <1>5, <1>6, <3>1, <3>2, <3>3 DEF Link
  <2>2. ASSUME NEW q \in Procs, q # p PROVE Link(q)'
    <3>1. Link(q)
      BY <1>0 DEF Links
    <3> QED
      BY <1>0, <1>5, <1>6, <2>2, <3>1 DEF Link, H
  <2> QED
    BY <1>0, <2>1, <2>2 DEF Links
<1>10. Chains' /\ Rings'
  BY <1>0, <1>3, <1>6, ChainsSame
<1>11. \A q \in Procs : \A c \in Bufs : Uses(q, c)' <=> Uses(q, c)
  BY <1>0, <1>1, <1>3, <1>5, Constants DEF Uses, H
<1>12. RefcntExact'
  BY <1>0, <1>11, RefcntSame
<1>13. NoBuffersMeansAllUsed'
  BY <1>2, <1>3 DEF NoBuffersMeansAllUsed
<1>14. Copies'
  <2>1. \A q \in Procs : Finished(q)' <=> Finished(q)
    BY <1>0, <1>3, <1>6 DEF Finished
  <2>2. ~Finished(p)'
    BY <1>6 DEF Finished
  <2>3. \A c \in Bufs : Dirty(c) => Dirty(c)'
    BY <1>3, <1>5, <2>1 DEF Dirty
  <2>4. Dirty(b)'
    BY <1>5, <2>2 DEF Dirty
  <2>5. ASSUME NEW c \in Bufs, valid'[c], c \notin pinned', ~Dirty(c)'
        PROVE  data'[c] = platter'[blockno'[c]]
    BY <1>0, <1>4, <2>3, <2>4, <2>5 DEF Copies
  <2>6. ASSUME NEW q \in Procs, Finished(q)'
        PROVE  data'[io'[q].b] = platter'[blockno'[io'[q].b]]
    <3>1. Finished(q) /\ io[q].at # "none" /\ q # p
      BY <1>3, <2>1, <2>6 DEF Finished
    <3>2. io[q].b \in Bufs /\ io[q].b # b
      BY <1>0, <1>1, <3>1, InDriver
    <3> QED
      BY <1>0, <1>4, <1>6, <3>1, <3>2 DEF Copies
  <2> QED
    BY <2>5, <2>6 DEF Copies
<1> QED
  BY <1>7, <1>8, <1>9, <1>10, <1>12, <1>13, <1>14 DEF IInv

LEMMA BwriteReturnIInv ==
  ASSUME IInv, NEW p \in Procs, bwriteReturn(p)
  PROVE  IInv'
<1>1. PICK b \in Bufs \cup {None} : b = op[p].b
  BY HeldBufs DEF IInv
<1>0. /\ DiskTypes /\ CacheTypes /\ Links /\ Chains /\ Rings /\ RefcntExact /\ Copies
      /\ ~panicked /\ op[p].at = "writing" /\ RwDone(p) /\ Goto(p, "user", None)
      /\ pinned' = pinned \ {b}
      /\ IF b \in pinned THEN refcnt' = [refcnt EXCEPT ![b] = @ - 1] ELSE refcnt' = refcnt
      /\ UNCHANGED <<list, valid, holder, held, panicked>>
  <2>1. /\ ~panicked /\ op[p].at = "writing" /\ RwDone(p) /\ Goto(p, "user", None)
        /\ IF b \in pinned
           THEN refcnt' = [refcnt EXCEPT ![b] = @ - 1] /\ pinned' = pinned \ {b}
           ELSE UNCHANGED <<refcnt, pinned>>
        /\ UNCHANGED <<list, valid, holder, held, panicked>>
    BY <1>1 DEF bwriteReturn
  <2> QED
    BY <2>1 DEF IInv
<1>2. /\ DiskTypes' /\ io'[p].at = "none" /\ io[p].at # "none" /\ Finished(p)
      /\ \A q \in Procs : q # p => /\ io'[q].b = io[q].b /\ io'[q].write = io[q].write
                                   /\ io'[q].at = "none" <=> io[q].at = "none"
                                   /\ Finished(q)' <=> Finished(q)
      /\ ~Finished(p)'
  BY <1>0, DoneOthers
<1>3. /\ op' \in [Procs -> OpSet] /\ op'[p].at = "user" /\ op'[p].b = None
      /\ \A q \in Procs : q # p => op'[q] = op[q]
  BY <1>0, GotoEffect
<1>4. Link(p)
  BY <1>0 DEF Links
<1>5. b \in Bufs /\ b \in H(p) /\ io[p].b = b
  BY <1>0, <1>1, <1>2, <1>4 DEF Link
<1>6. UNCHANGED <<platter, data, blockno>>
  BY <1>0 DEF RwDone
<1>7. ASSUME NEW c \in Bufs
      PROVE  /\ refcnt'[c] = IF c = b /\ b \in pinned THEN refcnt[c] - 1 ELSE refcnt[c]
             /\ refcnt[c] = Cardinality(Users(c)) + (IF c \in pinned THEN 1 ELSE 0) /\ Cardinality(Users(c)) \in Nat
  BY <1>0, RefcntUsers, UsersFinite DEF CacheTypes
<1>8. CacheTypes'
  <2>1. \A c \in Bufs : refcnt'[c] \in Nat
    BY <1>7
  <2>2. refcnt' \in [Bufs -> Nat] /\ pinned' \in SUBSET Bufs
    BY <1>0, <2>1 DEF CacheTypes
  <2> QED
    BY <1>0, <1>3, <2>2 DEF CacheTypes
<1>9. Links'
  <2>1. Link(p)'
    BY <1>0, <1>2, <1>3, <1>4 DEF Link, H
  <2>2. ASSUME NEW q \in Procs, q # p PROVE Link(q)'
    <3>1. Link(q)
      BY <1>0 DEF Links
    <3> QED
      BY <1>0, <1>2, <1>3, <1>6, <2>2, <3>1 DEF Link, H
  <2> QED
    BY <1>0, <1>6, <2>1, <2>2 DEF Links
<1>10. Chains' /\ Rings'
  BY <1>0, ChainsDone
<1>11. \A q \in Procs : \A c \in Bufs : Uses(q, c)' <=> Uses(q, c)
  BY <1>0, <1>1, <1>3, <1>5, Constants DEF Uses, H
<1>12. RefcntExact'
  <2>1. \A c \in Bufs : Users(c)' = Users(c)
    BY <1>11 DEF Users
  <2>2. ASSUME NEW c \in Bufs
        PROVE  refcnt'[c] = Cardinality(Users(c)') + (IF c \in pinned' THEN 1 ELSE 0)
    <3>1. Cardinality(Users(c)') = Cardinality(Users(c))
      BY <2>1
    <3> QED
      BY <1>0, <1>7, <3>1
  <2> QED
    BY <1>0, <1>6, <2>2 DEF RefcntExact, Users
<1>13. NoBuffersMeansAllUsed'
  BY <1>0 DEF NoBuffersMeansAllUsed
<1>14. Copies'
  <2>1. data[b] = platter[blockno[b]]
    BY <1>0, <1>2, <1>5 DEF Copies
  <2>2. \A c \in Bufs : c # b => (Dirty(c) => Dirty(c)')
    BY <1>1, <1>2, <1>3 DEF Dirty
  <2>3. ASSUME NEW c \in Bufs, valid'[c], c \notin pinned', ~Dirty(c)'
        PROVE  data'[c] = platter'[blockno'[c]]
    BY <1>0, <1>6, <2>1, <2>2, <2>3 DEF Copies
  <2>4. ASSUME NEW q \in Procs, Finished(q)'
        PROVE  data'[io'[q].b] = platter'[blockno'[io'[q].b]]
    <3>1. q # p /\ Finished(q) /\ io'[q].b = io[q].b
      BY <1>2, <2>4
    <3> QED
      BY <1>0, <1>6, <3>1 DEF Copies
  <2> QED
    BY <2>3, <2>4 DEF Copies
<1> QED
  BY <1>2, <1>8, <1>9, <1>10, <1>12, <1>13, <1>14 DEF IInv

-----------------------------------------------------------------------------
(* brelse().                                                               *)

\* releasesleep(): who slept for the lock tries again.
LEMMA ReleaseEffect ==
  ASSUME CacheTypes, NEW p \in Procs, NEW b \in Bufs, releasesleep(p, b)
  PROVE  /\ holder' = [holder EXCEPT ![b] = None] /\ op' \in [Procs -> OpSet]
         /\ op'[p].at = "unlocked" /\ op'[p].b = b
         /\ \A q \in Procs : q # p =>
              /\ op'[q].b = op[q].b
              /\ op'[q].at = IF op[q].at = "asleep" /\ op[q].b = b THEN "acquire" ELSE op[q].at
<1>1. /\ holder' = [holder EXCEPT ![b] = None]
      /\ op' = [q \in Procs |-> IF q = p THEN [at |-> "unlocked", b |-> b]
                                ELSE IF op[q] = [at |-> "asleep", b |-> b]
                                     THEN [op[q] EXCEPT !.at = "acquire"] ELSE op[q]]
  BY DEF releasesleep
<1>2. op'[p] = [at |-> "unlocked", b |-> b]
  BY <1>1
<1>3. ASSUME NEW q \in Procs, q # p
      PROVE  /\ op'[q] \in OpSet /\ op'[q].b = op[q].b
             /\ op'[q].at = IF op[q].at = "asleep" /\ op[q].b = b THEN "acquire" ELSE op[q].at
  <2>1. op[q] \in OpSet
    BY DEF CacheTypes
  <2>2. op[q] = [at |-> "asleep", b |-> b] <=> op[q].at = "asleep" /\ op[q].b = b
    BY <2>1 DEF OpSet
  <2>3. CASE op[q] = [at |-> "asleep", b |-> b]
    <3> DEFINE r == [op[q] EXCEPT !.at = "acquire"]
    <3>1. r \in OpSet /\ r.at = "acquire" /\ r.b = op[q].b
      BY <2>1 DEF OpSet
    <3>2. op'[q] = r
      BY <1>1, <1>3, <2>3
    <3> HIDE DEF r
    <3> QED
      BY <2>2, <2>3, <3>1, <3>2
  <2>4. CASE op[q] # [at |-> "asleep", b |-> b]
    BY <1>1, <1>3, <2>1, <2>2, <2>4
  <2> QED
    BY <2>3, <2>4
<1>4. op' \in [Procs -> OpSet]
  <2>1. op'[p] \in OpSet
    BY <1>2 DEF OpSet
  <2>2. \A q \in Procs : op'[q] \in OpSet
    BY <1>3, <2>1
  <2> QED
    BY <1>1, <2>2
<1> QED
  BY <1>1, <1>2, <1>3, <1>4

LEMMA BrelseIInv ==
  ASSUME IInv, NEW p \in Procs, brelse(p)
  PROVE  IInv'
<1>0. /\ DiskTypes /\ CacheTypes /\ Links /\ Chains /\ Rings /\ RefcntExact /\ Copies /\ HasBuffer(p)
      /\ UNCHANGED <<list, refcnt, valid, pinned,
                     platter, data, blockno, free, chain, info, avail, used, bdisk, isr, intr, io>>
  BY DEF IInv, brelse, diskVars
<1>1. PICK b \in Bufs : b = Top(p) /\ b \in H(p) /\ holder[b] = p /\ valid[b]
  BY <1>0, Locked
<1>2. releasesleep(p, b) /\ held' = [held EXCEPT ![p] = Front(@)] /\ panicked' = panicked
  BY <1>1 DEF brelse, holdingsleep
<1>3. /\ ~panicked /\ io[p].at = "none" /\ op[p].at = "user" /\ op[p].b = None /\ Link(p)
      /\ held[p] \in Seq(Bufs) /\ held[p] # <<>> /\ Distinct(held[p])
  BY <1>0, Locked DEF Links
<1>4. /\ op' \in [Procs -> OpSet] /\ op'[p].at = "unlocked" /\ op'[p].b = b
      /\ \A q \in Procs : q # p =>
           /\ op'[q].b = op[q].b
           /\ op'[q].at = IF op[q].at = "asleep" /\ op[q].b = b THEN "acquire" ELSE op[q].at
  BY <1>0, <1>2, ReleaseEffect
<1>5. /\ holder'[b] = None /\ \A c \in Bufs : c # b => holder'[c] = holder[c]
      /\ holder' \in [Bufs -> Procs \cup {None}]
  <2>1. holder' = [holder EXCEPT ![b] = None] /\ holder \in [Bufs -> Procs \cup {None}]
    BY <1>0, <1>2, ReleaseEffect DEF CacheTypes
  <2> QED
    BY <2>1
<1>6. /\ held'[p] \in Seq(Bufs) /\ Len(held'[p]) <= 1 /\ H(p)' = H(p) \ {b} /\ Distinct(held'[p])
      /\ \A q \in Procs : q # p => held'[q] = held[q] /\ H(q)' = H(q)
  <2>1. held'[p] = Front(held[p]) /\ \A q \in Procs : q # p => held'[q] = held[q]
    BY <1>0, <1>2 DEF CacheTypes
  <2>2. /\ Front(held[p]) \in Seq(Bufs) /\ Len(Front(held[p])) = Len(held[p]) - 1 /\ Len(held[p]) \in Nat
        /\ ToSet(Front(held[p])) = ToSet(held[p]) \ {b} /\ Distinct(Front(held[p]))
    BY <1>1, <1>3, Shortened DEF Top
  <2>3. Len(held[p]) <= 2
    BY <1>0 DEF CacheTypes
  <2>4. Len(Front(held[p])) <= 1
    BY <2>2, <2>3
  <2> QED
    BY <2>1, <2>2, <2>4 DEF H
<1>7. DiskTypes'
  BY <1>0 DEF DiskTypes
<1>8. CacheTypes'
  <2>1. held' \in [Procs -> Seq(Bufs)]
    BY <1>0, <1>2, <1>6 DEF CacheTypes
  <2>2. \A q \in Procs : Len(held'[q]) <= 2
    <3>1. Len(held'[p]) <= 2
      <4>1. Len(held'[p]) \in Nat
        BY <1>6
      <4> QED
        BY <1>6, <4>1
    <3> QED
      BY <1>0, <1>6, <3>1 DEF CacheTypes
  <2> QED
    BY <1>0, <1>2, <1>4, <1>5, <2>1, <2>2 DEF CacheTypes
<1>9. Links'
  <2>1. Link(p)'
    <3>1. \A c \in H(p)' : holder'[c] = p /\ valid'[c]
      <4>1. \A c \in H(p) : c \in Bufs /\ holder[c] = p /\ valid[c]
        BY <1>0, <1>3, HeldBufs DEF Link
      <4> QED
        BY <1>0, <1>5, <1>6, <4>1
    <3>2. b # None /\ blockno'[b] # None /\ b \notin H(p)'
      BY <1>0, <1>1, <1>6, Constants DEF Links
    <3> QED
      BY <1>0, <1>3, <1>4, <1>6, <3>1, <3>2 DEF Link
  <2>2. ASSUME NEW q \in Procs, q # p PROVE Link(q)'
    <3>1. Link(q)
      BY <1>0 DEF Links
    <3>2. \A c \in H(q)' : holder'[c] = q /\ valid'[c]
      <4>1. \A c \in H(q) : c \in Bufs /\ holder[c] = q /\ valid[c]
        BY <1>0, <3>1, HeldBufs DEF Link
      <4> QED
        BY <1>0, <1>1, <1>5, <1>6, <2>2, <4>1
    <3>3. op[q].at = "reading" => holder'[op[q].b] = q /\ ~valid'[op[q].b]
      <4>1. op[q].at = "reading" => op[q].b \in Bufs /\ holder[op[q].b] = q /\ ~valid[op[q].b]
        BY <1>0, <3>1, HeldBufs DEF Link
      <4> QED
        BY <1>0, <1>1, <1>5, <2>2, <4>1
    <3>4. op[q].at = "asleep" /\ op[q].b # b => holder'[op[q].b] # None
      <4>1. op[q].at = "asleep" => op[q].b \in Bufs /\ holder[op[q].b] # None
        BY <1>0, <3>1, HeldBufs DEF Link
      <4> QED
        BY <1>5, <4>1
    <3>5. /\ op'[q].b = op[q].b /\ io'[q] = io[q] /\ held'[q] = held[q] /\ blockno' = blockno /\ H(q)' = H(q)
          /\ op'[q].at = IF op[q].at = "asleep" /\ op[q].b = b THEN "acquire" ELSE op[q].at
      BY <1>0, <1>4, <1>6, <2>2
    <3>6. CASE op[q].at = "asleep" /\ op[q].b = b
      <4>1. op'[q].at = "acquire"
        BY <3>5, <3>6
      <4> QED
        BY <3>1, <3>2, <3>5, <3>6, <4>1 DEF Link
    <3>7. CASE ~(op[q].at = "asleep" /\ op[q].b = b)
      <4>1. op'[q].at = op[q].at
        BY <3>5, <3>7
      <4> QED
        BY <3>1, <3>2, <3>3, <3>4, <3>5, <3>7, <4>1 DEF Link
    <3> QED
      BY <3>6, <3>7
  <2> QED
    BY <1>0, <2>1, <2>2 DEF Links
<1>10. Chains' /\ Rings'
  BY <1>0, ChainsSame
<1>11. \A q \in Procs : \A c \in Bufs : Uses(q, c)' <=> Uses(q, c)
  <2>1. \A c \in Bufs : Uses(p, c)' <=> Uses(p, c)
    BY <1>1, <1>3, <1>4, <1>6, Constants DEF Uses, H
  <2>2. \A q \in Procs : q # p => \A c \in Bufs : Uses(q, c)' <=> Uses(q, c)
    BY <1>4, <1>6 DEF Uses
  <2> QED
    BY <2>1, <2>2
<1>12. RefcntExact'
  BY <1>0, <1>11, RefcntSame
<1>13. NoBuffersMeansAllUsed'
  BY <1>2, <1>3 DEF NoBuffersMeansAllUsed
<1>14. Copies'
  <2>1. \A q \in Procs : op[q].at = "writing" => op'[q].at = "writing" /\ op'[q].b = op[q].b
    BY <1>3, <1>4
  <2>2. \A q \in Procs : (Finished(q)' <=> Finished(q)) /\ io'[q].b = io[q].b
    BY <1>0 DEF Finished
  <2> QED
    BY <1>0, <2>1, <2>2, CopiesSame
<1> QED
  BY <1>7, <1>8, <1>9, <1>10, <1>12, <1>13, <1>14 DEF IInv

\* The list with b at its head.
LEMMA MovedToHead ==
  ASSUME CacheTypes, NEW b \in Bufs
  PROVE  LET t == <<b>> \o Unlinked(b) IN
         t \in Seq(Bufs) /\ Len(t) = Len(list) /\ ToSet(t) = Bufs
<1> DEFINE i == CHOOSE j \in DOMAIN list : list[j] = b
           n == Len(list)
           t == <<b>> \o Unlinked(b)
<1>1. /\ list \in Seq(Bufs) /\ Len(list) = n /\ n \in Nat /\ DOMAIN list = 1 .. n /\ ToSet(list) = Bufs
      /\ \A j \in 1 .. n : list[j] \in Bufs
  BY DEF CacheTypes
<1>2. i \in 1 .. n /\ list[i] = b
  <2>1. \E j \in DOMAIN list : list[j] = b
    BY <1>1 DEF ToSet
  <2> QED
    BY <1>1, <2>1
<1> DEFINE u == SubSeq(list, 1, i - 1)
           w == SubSeq(list, i + 1, n)
<1>3. Unlinked(b) = u \o w
  BY DEF Unlinked, RemoveAt
<1> HIDE DEF i, n
<1>4. u \in Seq(Bufs) /\ Len(u) = i - 1 /\ \A j \in 1 .. i - 1 : u[j] = list[j]
  BY <1>1, <1>2
<1>5. w \in Seq(Bufs) /\ Len(w) = n - i /\ \A j \in 1 .. n - i : w[j] = list[j + i]
  <2>1. i + 1 \in Int /\ n \in Int /\ \A j \in (i + 1) .. n : list[j] \in Bufs
    BY <1>1, <1>2
  <2>2. /\ w \in Seq(Bufs) /\ Len(w) = (IF i + 1 <= n THEN n - (i + 1) + 1 ELSE 0)
        /\ \A j \in 1 .. n - (i + 1) + 1 : w[j] = list[(i + 1) + j - 1]
    BY <2>1, SubSeqProperties
  <2> HIDE DEF w
  <2>3. (IF i + 1 <= n THEN n - (i + 1) + 1 ELSE 0) = n - i /\ n - (i + 1) + 1 = n - i
    BY <1>1, <1>2
  <2>4. \A j \in 1 .. n - i : (i + 1) + j - 1 = j + i
    BY <1>1, <1>2
  <2> QED
    BY <2>2, <2>3, <2>4
<1> HIDE DEF u, w
<1>6. u \o w \in Seq(Bufs) /\ Len(u \o w) = n - 1
  <2>1. u \o w \in Seq(Bufs) /\ Len(u \o w) = Len(u) + Len(w)
    BY <1>4, <1>5, ConcatProperties
  <2> QED
    BY <1>1, <1>2, <1>4, <1>5, <2>1
<1>7. \A j \in 1 .. i - 1 : (u \o w)[j] = list[j] /\ j \in 1 .. n - 1
  BY <1>1, <1>2, <1>4, <1>5
<1>8. \A j \in 1 .. n : j > i => (u \o w)[j - 1] = list[j] /\ j - 1 \in 1 .. n - 1
  <2> SUFFICES ASSUME NEW j \in 1 .. n, j > i
               PROVE  (u \o w)[j - 1] = list[j] /\ j - 1 \in 1 .. n - 1
    OBVIOUS
  <2>1. j - i \in 1 .. n - i /\ (j - i) + i = j /\ (j - 1) - (i - 1) = j - i /\ j - 1 \in 1 .. n - 1 /\ j - 1 > i - 1
    BY <1>1, <1>2
  <2>2. (u \o w)[j - 1] = w[(j - 1) - (i - 1)]
    BY <1>1, <1>2, <1>4, <1>5, <2>1
  <2> QED
    BY <1>5, <2>1, <2>2
<1> DEFINE x == u \o w
<1> HIDE DEF x
<1>9. /\ x \in Seq(Bufs) /\ Len(x) = n - 1 /\ Unlinked(b) = x
      /\ \A j \in 1 .. i - 1 : x[j] = list[j] /\ j \in 1 .. n - 1
      /\ \A j \in 1 .. n : j > i => x[j - 1] = list[j] /\ j - 1 \in 1 .. n - 1
  BY <1>3, <1>6, <1>7, <1>8 DEF x
<1>10. t = <<b>> \o x
  BY <1>9
<1>11. /\ t \in Seq(Bufs) /\ Len(t) = n /\ DOMAIN t = 1 .. n
       /\ t[1] = b /\ \A j \in 1 .. n - 1 : t[j + 1] = x[j] /\ j + 1 \in 1 .. n
  <2>1. <<b>> \in Seq(Bufs) /\ Len(<<b>>) = 1 /\ <<b>>[1] = b
    OBVIOUS
  <2>2. /\ t \in Seq(Bufs) /\ Len(t) = 1 + (n - 1)
        /\ \A j \in 1 .. 1 + (n - 1) : t[j] = IF j <= 1 THEN <<b>>[j] ELSE x[j - 1]
    BY <1>9, <1>10, <2>1, ConcatProperties
  <2>3. 1 + (n - 1) = n /\ 1 \in 1 .. n /\ \A j \in 1 .. n - 1 : j + 1 \in 1 .. n /\ ~(j + 1 <= 1) /\ (j + 1) - 1 = j
    BY <1>1, <1>2
  <2>4. t[1] = b /\ \A j \in 1 .. n - 1 : t[j + 1] = x[j]
    BY <2>1, <2>2, <2>3
  <2> QED
    BY <2>2, <2>3, <2>4
<1> HIDE DEF t
<1>12. \A c \in Bufs : c \in ToSet(t)
  <2> SUFFICES ASSUME NEW j \in 1 .. n PROVE list[j] \in ToSet(t)
    BY <1>1 DEF ToSet
  <2>1. CASE j = i
    <3>1. 1 \in 1 .. n
      BY <1>1, <1>2
    <3> QED
      BY <1>2, <1>11, <2>1, <3>1 DEF ToSet
  <2>2. CASE j < i
    <3>1. j \in 1 .. i - 1
      BY <1>1, <1>2, <2>2
    <3>2. t[j + 1] = list[j] /\ j + 1 \in DOMAIN t
      BY <1>9, <1>11, <3>1
    <3> QED
      BY <3>2 DEF ToSet
  <2>3. CASE j > i
    <3>1. x[j - 1] = list[j] /\ j - 1 \in 1 .. n - 1
      BY <1>9, <2>3
    <3>2. t[(j - 1) + 1] = list[j] /\ (j - 1) + 1 \in DOMAIN t
      BY <1>11, <3>1
    <3> QED
      BY <3>2 DEF ToSet
  <2> QED
    BY <1>1, <1>2, <2>1, <2>2, <2>3
<1>13. ToSet(t) = Bufs
  <2>1. \A c \in ToSet(t) : c \in Bufs
    BY <1>11 DEF ToSet
  <2> QED
    BY <1>12, <2>1
<1> QED
  BY <1>1, <1>11, <1>13 DEF t, n

LEMMA UnrefIInv ==
  ASSUME IInv, NEW p \in Procs, brelseUnref(p)
  PROVE  IInv'
<1>1. PICK b \in Bufs \cup {None} : b = op[p].b
  BY HeldBufs DEF IInv
<1>0. /\ DiskTypes /\ CacheTypes /\ Links /\ Chains /\ Rings /\ RefcntExact /\ Copies
      /\ Is(p, "unlocked") /\ Goto(p, "user", None) /\ refcnt' = [refcnt EXCEPT ![b] = @ - 1]
      /\ list' = IF refcnt[b] = 1 THEN <<b>> \o Unlinked(b) ELSE list
      /\ UNCHANGED <<valid, holder, held, pinned, panicked,
                     platter, data, blockno, free, chain, info, avail, used, bdisk, isr, intr, io>>
  BY <1>1 DEF IInv, brelseUnref, diskVars
<1>2. ~panicked /\ op[p].at = "unlocked" /\ io[p].at = "none"
  BY <1>0 DEF Is
<1>3. /\ op' \in [Procs -> OpSet] /\ op'[p].at = "user" /\ op'[p].b = None
      /\ \A q \in Procs : q # p => op'[q] = op[q]
  BY <1>0, GotoEffect
<1>4. Link(p)
  BY <1>0 DEF Links
<1>5. b \in Bufs /\ b # None /\ b \notin H(p)
  BY <1>1, <1>2, <1>4 DEF Link
<1>6. /\ \A c \in Bufs : c # b => \A q \in Procs : Uses(q, c)' <=> Uses(q, c)
      /\ \A q \in Procs : q # p => (Uses(q, b)' <=> Uses(q, b))
      /\ Uses(p, b) /\ ~Uses(p, b)'
  <2>1. \A q \in Procs : q # p => \A c \in Bufs : Uses(q, c)' <=> Uses(q, c)
    BY <1>0, <1>3 DEF Uses
  <2>2. \A c \in Bufs : c # b => (Uses(p, c)' <=> Uses(p, c))
    BY <1>0, <1>1, <1>3, Constants DEF Uses
  <2>3. Uses(p, b) /\ ~Uses(p, b)'
    BY <1>0, <1>1, <1>3, <1>5 DEF Uses, H
  <2> QED
    BY <1>5, <2>1, <2>2, <2>3
<1>7. /\ \A c \in Bufs : c # b => Users(c)' = Users(c)
      /\ Users(b)' = Users(b) \ {p} /\ p \in Users(b)
  BY <1>6 DEF Users
<1>8. Cardinality(Users(b)') = Cardinality(Users(b)) - 1 /\ Cardinality(Users(b)') \in Nat
  <2>1. IsFiniteSet(Users(b)) /\ Cardinality(Users(b)) \in Nat
    BY UsersFinite
  <2>2. Cardinality(Users(b) \ {p}) = Cardinality(Users(b)) - 1 /\ IsFiniteSet(Users(b) \ {p})
    BY <1>7, <2>1, FS_RemoveElement
  <2>3. Cardinality(Users(b) \ {p}) \in Nat
    BY <2>2, FS_CardinalityType
  <2> QED
    BY <1>7, <2>2, <2>3
<1>9. ASSUME NEW c \in Bufs
      PROVE  refcnt'[c] = Cardinality(Users(c)') + (IF c \in pinned' THEN 1 ELSE 0) /\ refcnt'[c] \in Nat
  <2>1. /\ refcnt[c] = Cardinality(Users(c)) + (IF c \in pinned THEN 1 ELSE 0) /\ Cardinality(Users(c)) \in Nat
        /\ refcnt'[c] = IF c = b THEN refcnt[c] - 1 ELSE refcnt[c]
    BY <1>0, RefcntUsers, UsersFinite DEF CacheTypes
  <2>2. CASE c = b
    BY <1>0, <1>8, <2>1, <2>2
  <2>3. CASE c # b
    BY <1>0, <1>7, <2>1, <2>3
  <2> QED
    BY <2>2, <2>3
<1>10. DiskTypes'
  BY <1>0 DEF DiskTypes
<1>11. CacheTypes'
  <2>1. refcnt' \in [Bufs -> Nat]
    BY <1>0, <1>9 DEF CacheTypes
  <2>2. list' \in Seq(Bufs) /\ Len(list') = Cardinality(Bufs) /\ ToSet(list') = Bufs
    <3>1. list \in Seq(Bufs) /\ Len(list) = Cardinality(Bufs) /\ ToSet(list) = Bufs
      BY <1>0 DEF CacheTypes
    <3>2. /\ <<b>> \o Unlinked(b) \in Seq(Bufs) /\ Len(<<b>> \o Unlinked(b)) = Len(list)
          /\ ToSet(<<b>> \o Unlinked(b)) = Bufs
      BY <1>0, <1>5, MovedToHead
    <3> QED
      BY <1>0, <3>1, <3>2
  <2> QED
    BY <1>0, <1>3, <2>1, <2>2 DEF CacheTypes
<1>12. Links'
  <2>1. Link(p)'
    BY <1>0, <1>2, <1>3, <1>4 DEF Link, H
  <2>2. ASSUME NEW q \in Procs, q # p PROVE Link(q)'
    <3>1. Link(q)
      BY <1>0 DEF Links
    <3> QED
      BY <1>0, <1>3, <2>2, <3>1 DEF Link, H
  <2> QED
    BY <1>0, <2>1, <2>2 DEF Links
<1>13. Chains' /\ Rings'
  BY <1>0, ChainsSame
<1>14. RefcntExact'
  BY <1>0, <1>9 DEF RefcntExact, Users
<1>15. NoBuffersMeansAllUsed'
  BY <1>0, <1>2 DEF NoBuffersMeansAllUsed
<1>16. Copies'
  BY <1>0, <1>2, <1>3, CopiesSame DEF Finished
<1> QED
  BY <1>10, <1>11, <1>12, <1>13, <1>14, <1>15, <1>16 DEF IInv

-----------------------------------------------------------------------------
(* The invariant.                                                          *)

\* binit() puts every buffer into the list.
LEMMA InitList ==
  ASSUME NEW s \in SetToSeqs(Bufs)
  PROVE  s \in Seq(Bufs) /\ Len(s) = Cardinality(Bufs) /\ ToSet(s) = Bufs
<1> DEFINE n == Cardinality(Bufs)
<1>1. n \in Nat /\ IsFiniteSet(Bufs)
  BY Constants, FS_CardinalityType
<1>2. s \in [1 .. n -> Bufs] /\ \A i, j \in 1 .. n : i # j => s[i] # s[j]
  BY DEF SetToSeqs
<1> HIDE DEF n
<1>3. s \in Seq(Bufs) /\ Len(s) = n /\ DOMAIN s = 1 .. n
  BY <1>1, <1>2
<1>4. ToSet(s) \subseteq Bufs /\ s \in [1 .. n -> ToSet(s)]
  BY <1>2 DEF ToSet
<1>5. s \in Injection(1 .. n, ToSet(s))
  BY <1>2, <1>4 DEF Injection, IsInjective
<1>6. IsFiniteSet(ToSet(s)) /\ Cardinality(ToSet(s)) <= n
  BY <1>1, <1>4, FS_Subset DEF n
<1>7. Cardinality(1 .. n) <= Cardinality(ToSet(s))
  BY <1>5, <1>6, FS_Injection
<1>8. Cardinality(1 .. n) = n
  <2>1. Cardinality(1 .. n) = IF 1 > n THEN 0 ELSE n - 1 + 1
    BY <1>1, FS_Interval
  <2> QED
    BY <1>1, <2>1
<1>9. Cardinality(ToSet(s)) = Cardinality(Bufs)
  <2>1. Cardinality(ToSet(s)) \in Nat
    BY <1>6, FS_CardinalityType
  <2> QED
    BY <1>1, <1>6, <1>7, <1>8, <2>1 DEF n
<1>10. ToSet(s) = Bufs
  BY <1>1, <1>4, <1>9, FS_Subset
<1> QED
  BY <1>3, <1>10 DEF n

LEMMA InitIInv ==
  ASSUME Init
  PROVE  IInv
<1>0. /\ DiskInit /\ refcnt = [b \in Bufs |-> 0] /\ valid = [b \in Bufs |-> FALSE]
      /\ holder = [b \in Bufs |-> None] /\ op = [p \in Procs |-> NotOp] /\ held = [p \in Procs |-> <<>>]
      /\ pinned = {} /\ panicked = FALSE
  BY DEF Init
<1>1. list \in Seq(Bufs) /\ Len(list) = Cardinality(Bufs) /\ ToSet(list) = Bufs
  BY InitList DEF Init
<1>2. /\ platter \in [Blocks -> Vals] /\ blockno = [b \in Bufs |-> None] /\ free = Desc
      /\ chain = [i \in Desc |-> {}] /\ info = [i \in Desc |-> NoInfo] /\ avail = {} /\ used = <<>>
      /\ bdisk = [b \in Bufs |-> FALSE] /\ isr = FALSE /\ intr = FALSE /\ io = [p \in Procs |-> NotIo]
      /\ \E v \in Vals : data = [b \in Bufs |-> v]
  BY <1>0 DEF DiskInit
<1>3. NotIo \in IoSet /\ NotIo.at = "none" /\ NotIo.b = None
  BY Constants DEF NotIo, IoSet
<1>4. NotOp \in OpSet /\ NotOp.at = "user" /\ NotOp.b = None
  BY DEF NotOp, OpSet
<1>5. NoInfo \in [b : Bufs \cup {None}, write : BOOLEAN]
  BY DEF NoInfo
<1>6. \A q \in Procs : io[q] = NotIo /\ op[q] = NotOp /\ held[q] = <<>> /\ H(q) = {}
  BY <1>0, <1>2 DEF H, ToSet
<1>7. DiskTypes
  <2>1. data \in [Bufs -> Vals]
    BY <1>2
  <2>2. used \in Seq(Desc)
    BY <1>2
  <2>3. io \in [Procs -> IoSet] /\ info \in [Desc -> [b : Bufs \cup {None}, write : BOOLEAN]]
    BY <1>2, <1>3, <1>5
  <2> QED
    BY <1>2, <2>1, <2>2, <2>3 DEF DiskTypes
<1>8. CacheTypes
  <2>1. held \in [Procs -> Seq(Bufs)] /\ \A p \in Procs : Len(held[p]) <= 2
    BY <1>0
  <2>2. op \in [Procs -> OpSet]
    BY <1>0, <1>4
  <2> QED
    BY <1>0, <1>1, <2>1, <2>2 DEF CacheTypes
<1>9. Links
  <2>1. ASSUME NEW q \in Procs PROVE Link(q)
    <3>1. Distinct(held[q])
      BY <1>6 DEF Distinct
    <3> QED
      BY <1>3, <1>4, <1>6, <3>1 DEF Link
  <2> QED
    BY <1>0, <2>1 DEF Links
<1>10. Chains
  BY <1>2, <1>3, <1>6 DEF Chains, Waits
<1>11. Rings
  <2>1. ToSet(used) = {} /\ Distinct(used)
    BY <1>2 DEF ToSet, Distinct
  <2> QED
    BY <1>2, <1>3, <1>6, <2>1 DEF Rings, Queued
<1>12. RefcntExact
  <2>1. \A b \in Bufs : \A q \in Procs : ~Uses(q, b)
    BY <1>4, <1>6, Constants DEF Uses, H
  <2>2. \A b \in Bufs : {q \in Procs : Uses(q, b)} = {}
    BY <2>1
  <2>3. Cardinality({}) = 0
    BY FS_EmptySet
  <2>4. ASSUME NEW b \in Bufs
        PROVE  refcnt[b] = Cardinality({q \in Procs : Uses(q, b)}) + (IF b \in pinned THEN 1 ELSE 0)
    <3>1. refcnt[b] = 0 /\ b \notin pinned
      BY <1>0
    <3>2. Cardinality({q \in Procs : Uses(q, b)}) = 0
      BY <2>2, <2>3
    <3> QED
      BY <3>1, <3>2
  <2>5. \A b \in Bufs : blockno[b] = None
    BY <1>2
  <2> QED
    BY <2>4, <2>5 DEF RefcntExact
<1>13. NoBuffersMeansAllUsed
  BY <1>0 DEF NoBuffersMeansAllUsed
<1>14. Copies
  BY <1>0, <1>3, <1>6 DEF Copies, Finished
<1> QED
  BY <1>7, <1>8, <1>9, <1>10, <1>11, <1>12, <1>13, <1>14 DEF IInv

LEMMA StutterIInv ==
  ASSUME IInv, UNCHANGED vars
  PROVE  IInv'
<1>1. UNCHANGED <<platter, data, blockno, free, chain, info, avail, used, bdisk, isr, intr, io>>
  BY DEF vars, diskVars
<1>2. UNCHANGED <<list, refcnt, valid, holder, op, held, pinned, panicked>> /\ UNCHANGED cacheVars
  BY DEF vars, cacheVars
<1>3. DiskTypes'
  BY <1>1 DEF IInv, DiskTypes
<1>4. CacheTypes' /\ RefcntExact' /\ NoBuffersMeansAllUsed'
  BY <1>1, <1>2, CacheSame DEF IInv
<1>5. Links'
  BY <1>1, <1>2, LinksDisk DEF IInv
<1>6. Chains' /\ Rings'
  BY <1>1, ChainsSame DEF IInv
<1>7. Copies'
  BY <1>1, <1>2, CopiesSame DEF IInv, Finished
<1> QED
  BY <1>3, <1>4, <1>5, <1>6, <1>7 DEF IInv

\* Every step of a process, of the driver and of the device keeps the invariant.
THEOREM NextIInv == IInv /\ [Next]_vars => IInv'
<1> SUFFICES ASSUME IInv, [Next]_vars
             PROVE  IInv'
  OBVIOUS
<1>1. CASE DiskStep
  BY <1>1, DiskIInv
<1>2. CASE Halted \/ UNCHANGED vars
  BY <1>2, StutterIInv DEF Halted
<1>3. ASSUME NEW p \in Procs, Proceed(p)
      PROVE  IInv'
  <2>1. CASE acquiresleep(p)
    BY <2>1, SleepIInv, TakeIInv, ReadIInv
  <2>2. CASE breadReturn(p)
    BY <2>2, BreadReturnIInv
  <2>3. CASE bwriteReturn(p)
    BY <2>3, BwriteReturnIInv
  <2>4. CASE brelseUnref(p)
    BY <2>4, UnrefIInv
  <2> QED
    BY <1>3, <2>1, <2>2, <2>3, <2>4 DEF Proceed
<1>4. ASSUME NEW p \in Procs, Request(p)
      PROVE  IInv'
  <2>1. ASSUME NEW k \in Blocks, bget(p, k) PROVE IInv'
    <3>1. bgetHit(p, k) \/ bgetRecycle(p, k) \/ bgetNone(p, k)
      BY <2>1 DEF bget
    <3> QED
      BY <2>1, <3>1, HitIInv, RecycleIInv, NoneIInv
  <2>2. ASSUME NEW v \in Vals, log_write(p, v) PROVE IInv'
    BY <2>2, LogWriteIInv
  <2>3. ASSUME NEW v \in Vals, bwrite(p, v) PROVE IInv'
    BY <2>3, BwriteIInv
  <2>4. CASE brelse(p)
    BY <2>4, BrelseIInv
  <2> QED
    BY <1>4, <2>1, <2>2, <2>3, <2>4 DEF Request
<1> QED
  BY <1>1, <1>2, <1>3, <1>4 DEF Next

\* The invariant holds throughout.
THEOREM IInvCorrect == Spec => []IInv
<1>1. Init => IInv
  BY InitIInv
<1> QED
  BY <1>1, NextIInv, PTL DEF Spec

-----------------------------------------------------------------------------
(* What follows from it.                                                   *)

\* Every buffer is accounted for: one buffer per block, its reference count the
\* number of its users plus the log's pin, and bget() panics only when every
\* buffer is in use or pinned.
THEOREM CacheCorrect == Spec => []CacheInv
<1>1. IInv => CacheInv
  <2> SUFFICES ASSUME IInv PROVE CacheInv
    OBVIOUS
  <2>1. DiskTypes /\ CacheTypes /\ Rings /\ RefcntExact /\ NoBuffersMeansAllUsed
    BY DEF IInv
  <2>2. Len(used) <= NUM
    BY <2>1, Short DEF DiskTypes, Rings
  <2>3. DiskTypeOK
    BY <2>1, <2>2 DEF DiskTypes, DiskTypeOK, IoSet
  <2>4. TypeOK
    <3>1. \A p \in Procs : held[p] \in Seq(Bufs) /\ Len(held[p]) <= 2
      BY <2>1 DEF CacheTypes
    <3> QED
      BY <2>1, <2>3, <3>1 DEF CacheTypes, TypeOK, OpSet
  <2> QED
    BY <2>1, <2>4 DEF CacheInv
<1> QED
  BY <1>1, IInvCorrect, PTL

\* No descriptor is lost or shared by virtio_disk_rw() and free_chain().
THEOREM DescriptorsCorrect == Spec => []DescriptorsAccounted
<1>1. IInv => DescriptorsAccounted
  <2> SUFFICES ASSUME IInv PROVE DescriptorsAccounted
    OBVIOUS
  <2> DEFINE W == {p \in Procs : io[p].at \in {"asleep", "woken"}}
  <2>1. DiskTypes /\ Chains
    BY DEF IInv
  <2>2. \A p \in Procs : (p \in W <=> Waits(p)) /\ io[p].idx \in Desc
    <3>1. \A p \in Procs : io[p] \in IoSet
      BY <2>1 DEF DiskTypes
    <3> QED
      BY <3>1 DEF Waits, IoSet
  <2>3. free \cup UNION {chain[io[p].idx] : p \in W} \subseteq Desc
    BY <2>1, <2>2 DEF DiskTypes
  <2>4. \A i \in Desc : i \in free \cup UNION {chain[io[p].idx] : p \in W}
    BY <2>1, <2>2 DEF Chains
  <2>5. free \cup UNION {chain[io[p].idx] : p \in W} = Desc
    BY <2>3, <2>4
  <2>6. \A p \in W : /\ chain[io[p].idx] \cap free = {}
                     /\ \A q \in W \ {p} : chain[io[p].idx] \cap chain[io[q].idx] = {}
    BY <2>1, <2>2 DEF Chains
  <2> QED
    BY <2>5, <2>6 DEF DescriptorsAccounted
<1> QED
  BY <1>1, IInvCorrect, PTL

\* Nobody sleeps for a lock that is free, for descriptors that are there, or for
\* a request that the device and the interrupt are done with.
THEOREM WakeupsCorrect == Spec => []NoLostWakeup
<1>1. IInv => NoLostWakeup
  <2> SUFFICES ASSUME IInv PROVE NoLostWakeup
    OBVIOUS
  <2>1. Links /\ Rings
    BY DEF IInv
  <2>2. \A p \in Procs : op[p].at = "asleep" => holder[op[p].b] # None
    BY <2>1 DEF Links, Link
  <2> QED
    BY <2>1, <2>2 DEF NoLostWakeup, Rings, Queued
<1> QED
  BY <1>1, IInvCorrect, PTL

-----------------------------------------------------------------------------
(* The store of blocks.                                                    *)

\* The refinement mapping of Store.
Con ==
  [k \in Blocks |-> IF \E b \in CachedIn(k) : valid[b]
                    THEN data[CHOOSE b \in CachedIn(k) : valid[b]]
                    ELSE platter[k]]

Own ==
  [k \in Blocks |-> IF \E p \in Procs : \E b \in CachedIn(k) : b \in ToSet(held[p])
                    THEN CHOOSE p \in Procs : \E b \in CachedIn(k) : b \in ToSet(held[p])
                    ELSE None]

\* What is cached in a state where a block is in one buffer, and who has it in
\* a state where the one that holds the lock does.
LEMMA OneCopy ==
  ASSUME NEW B, NEW valid_, NEW data_, NEW rest, NEW b \in B, \A c \in B : c = b, valid_[b]
  PROVE  (IF \E c \in B : valid_[c] THEN data_[CHOOSE c \in B : valid_[c]] ELSE rest) = data_[b]
OBVIOUS

LEMMA OneOwner ==
  ASSUME NEW B, NEW held_, NEW p \in Procs, NEW b \in B, b \in ToSet(held_[p]),
         \A q \in Procs : \A c \in B : c \in ToSet(held_[q]) => q = p
  PROVE  (IF \E q \in Procs : \E c \in B : c \in ToSet(held_[q])
          THEN CHOOSE q \in Procs : \E c \in B : c \in ToSet(held_[q]) ELSE None) = p
OBVIOUS

LEMMA ConView ==
  ASSUME RefcntExact, NEW k \in Blocks
  PROVE  /\ \A b \in Bufs : blockno[b] = k /\ valid[b] => Con[k] = data[b]
         /\ (\A b \in Bufs : ~(blockno[b] = k /\ valid[b])) => Con[k] = platter[k]
<1>1. ASSUME NEW b \in Bufs, blockno[b] = k, valid[b]
      PROVE  Con[k] = data[b]
  <2>1. b \in CachedIn(k) /\ \A c \in CachedIn(k) : c = b
    BY <1>1, Constants DEF CachedIn, RefcntExact
  <2> QED
    BY <1>1, <2>1, OneCopy DEF Con
<1>2. (\A b \in Bufs : ~(blockno[b] = k /\ valid[b])) => Con[k] = platter[k]
  BY DEF Con, CachedIn
<1> QED
  BY <1>1, <1>2

LEMMA ConViewNext ==
  ASSUME RefcntExact', NEW k \in Blocks
  PROVE  /\ \A b \in Bufs : blockno'[b] = k /\ valid'[b] => Con'[k] = data'[b]
         /\ (\A b \in Bufs : ~(blockno'[b] = k /\ valid'[b])) => Con'[k] = platter'[k]
<1>1. ASSUME NEW b \in Bufs, blockno'[b] = k, valid'[b]
      PROVE  Con'[k] = data'[b]
  <2>1. b \in CachedIn(k)' /\ \A c \in CachedIn(k)' : c = b
    BY <1>1, Constants DEF CachedIn, RefcntExact
  <2> QED
    BY <1>1, <2>1, OneCopy DEF Con
<1>2. (\A b \in Bufs : ~(blockno'[b] = k /\ valid'[b])) => Con'[k] = platter'[k]
  BY DEF Con, CachedIn
<1> QED
  BY <1>1, <1>2

LEMMA OwnView ==
  ASSUME RefcntExact, Links, NEW k \in Blocks
  PROVE  /\ \A p \in Procs : \A b \in Bufs : blockno[b] = k /\ b \in H(p) => Own[k] = p
         /\ (\A p \in Procs : \A b \in Bufs : ~(blockno[b] = k /\ b \in H(p))) => Own[k] = None
<1>1. ASSUME NEW p \in Procs, NEW b \in Bufs, blockno[b] = k, b \in H(p)
      PROVE  Own[k] = p
  <2>1. b \in CachedIn(k) /\ \A c \in CachedIn(k) : c = b
    BY <1>1, Constants DEF CachedIn, RefcntExact
  <2>2. \A q \in Procs : b \in ToSet(held[q]) => holder[b] = q
    BY DEF Links, Link, H
  <2>3. \A q \in Procs : \A c \in CachedIn(k) : c \in ToSet(held[q]) => q = p
    BY <1>1, <2>1, <2>2 DEF H
  <2> QED
    BY <1>1, <2>1, <2>3, OneOwner DEF Own, H
<1>2. (\A p \in Procs : \A b \in Bufs : ~(blockno[b] = k /\ b \in H(p))) => Own[k] = None
  BY DEF Own, CachedIn, H
<1> QED
  BY <1>1, <1>2

LEMMA OwnViewNext ==
  ASSUME RefcntExact', Links', NEW k \in Blocks
  PROVE  /\ \A p \in Procs : \A b \in Bufs : blockno'[b] = k /\ b \in H(p)' => Own'[k] = p
         /\ (\A p \in Procs : \A b \in Bufs : ~(blockno'[b] = k /\ b \in H(p)')) => Own'[k] = None
<1>1. ASSUME NEW p \in Procs, NEW b \in Bufs, blockno'[b] = k, b \in H(p)'
      PROVE  Own'[k] = p
  <2>1. b \in CachedIn(k)' /\ \A c \in CachedIn(k)' : c = b
    BY <1>1, Constants DEF CachedIn, RefcntExact
  <2>2. \A q \in Procs : b \in ToSet(held'[q]) => holder'[b] = q
    BY DEF Links, Link, H
  <2>3. \A q \in Procs : \A c \in CachedIn(k)' : c \in ToSet(held'[q]) => q = p
    BY <1>1, <2>1, <2>2 DEF H
  <2> QED
    BY <1>1, <2>1, <2>3, OneOwner DEF Own, H
<1>2. (\A p \in Procs : \A b \in Bufs : ~(blockno'[b] = k /\ b \in H(p)')) => Own'[k] = None
  BY DEF Own, CachedIn, H
<1> QED
  BY <1>1, <1>2

\* The steps of the store, in terms of the mapping.
LEMMA StoreSteps ==
  ASSUME NEW p \in Procs, NEW k \in Blocks
  PROVE  /\ Own[k] = None /\ Own' = [Own EXCEPT ![k] = p] /\ Con' = Con => Store!Next
         /\ Own[k] = p /\ Own' = [Own EXCEPT ![k] = None] /\ Con' = Con => Store!Next
         /\ \A v \in Vals : Own[k] = p /\ Con' = [Con EXCEPT ![k] = v] /\ Own' = Own => Store!Next
<1>1. Own[k] = None /\ Own' = [Own EXCEPT ![k] = p] /\ Con' = Con => Store!Lock(p, k)
  BY DEF Store!Lock, Con, Own
<1>2. Own[k] = p /\ Own' = [Own EXCEPT ![k] = None] /\ Con' = Con => Store!Unlock(p, k)
  BY DEF Store!Unlock, Con, Own
<1>3. ASSUME NEW v \in Vals
      PROVE  Own[k] = p /\ Con' = [Con EXCEPT ![k] = v] /\ Own' = Own => Store!Write(p, k, v)
  BY DEF Store!Write, Con, Own
<1> QED
  BY <1>1, <1>2, <1>3 DEF Store!Next

LEMMA ViewSame ==
  /\ UNCHANGED <<data, platter, blockno, valid>> => Con' = Con
  /\ UNCHANGED <<blockno, held>> => Own' = Own
<1>1. ASSUME blockno' = blockno PROVE \A k \in Blocks : CachedIn(k)' = CachedIn(k)
  BY <1>1 DEF CachedIn
<1>2. ASSUME UNCHANGED <<data, platter, blockno, valid>> PROVE Con' = Con
  BY <1>1, <1>2 DEF Con
<1>3. ASSUME UNCHANGED <<blockno, held>> PROVE Own' = Own
  BY <1>1, <1>3 DEF Own
<1> QED
  BY <1>2, <1>3

\* Functions on blocks that differ at one block at most.
LEMMA ConPoints ==
  /\ (\A j \in Blocks : Con'[j] = Con[j]) => Con' = Con
  /\ \A k \in Blocks : \A v : Con'[k] = v /\ (\A j \in Blocks : j # k => Con'[j] = Con[j]) => Con' = [Con EXCEPT ![k] = v]
<1> DEFINE f == Con
           g == Con'
<1>1. f = [j \in Blocks |-> f[j]] /\ g = [j \in Blocks |-> g[j]]
  BY DEF Con
<1> HIDE DEF f, g
<1>2. (\A j \in Blocks : g[j] = f[j]) => g = f
  BY <1>1
<1>3. \A k \in Blocks : \A v : g[k] = v /\ (\A j \in Blocks : j # k => g[j] = f[j]) => g = [f EXCEPT ![k] = v]
  BY <1>1
<1> QED
  BY <1>2, <1>3 DEF f, g

LEMMA OwnPoints ==
  /\ (\A j \in Blocks : Own'[j] = Own[j]) => Own' = Own
  /\ \A k \in Blocks : \A v : Own'[k] = v /\ (\A j \in Blocks : j # k => Own'[j] = Own[j]) => Own' = [Own EXCEPT ![k] = v]
<1> DEFINE f == Own
           g == Own'
<1>1. f = [j \in Blocks |-> f[j]] /\ g = [j \in Blocks |-> g[j]]
  BY DEF Own
<1> HIDE DEF f, g
<1>2. (\A j \in Blocks : g[j] = f[j]) => g = f
  BY <1>1
<1>3. \A k \in Blocks : \A v : g[k] = v /\ (\A j \in Blocks : j # k => g[j] = f[j]) => g = [f EXCEPT ![k] = v]
  BY <1>1
<1> QED
  BY <1>2, <1>3 DEF f, g

\* A recycled buffer takes no change with it: it was clean, and the block it
\* now stands for is on the disk.
LEMMA RecycleView ==
  ASSUME IInv, IInv', NEW p \in Procs, NEW k \in Blocks, bget(p, k), bgetRecycle(p, k)
  PROVE  Con' = Con /\ Own' = Own
<1>0. /\ CacheTypes /\ Links /\ RefcntExact /\ Copies /\ RefcntExact' /\ Links' /\ DiskTypes
      /\ UNCHANGED <<held, platter, data>>
  BY DEF IInv, bget
<1>1. Recycled # {} /\ \A c \in Bufs : blockno[c] # k
  BY DEF bgetRecycle, CachedIn
<1>2. PICK b \in Bufs :
        /\ b \notin pinned /\ \A q \in Procs : ~Uses(q, b)
        /\ blockno' = [blockno EXCEPT ![b] = k] /\ valid' = [valid EXCEPT ![b] = FALSE]
  BY <1>0, <1>1, RecycledUnused DEF bgetRecycle
<1>3. /\ blockno'[b] = k /\ ~valid'[b]
      /\ \A c \in Bufs : c # b => blockno'[c] = blockno[c] /\ valid'[c] = valid[c]
  BY <1>0, <1>2 DEF CacheTypes, DiskTypes
<1>4. valid[b] => data[b] = platter[blockno[b]]
  <2>1. ~Dirty(b)
    BY <1>2 DEF Dirty, Uses
  <2> QED
    BY <1>0, <1>2, <2>1 DEF Copies
<1>5. ASSUME NEW j \in Blocks PROVE Con'[j] = Con[j]
  <2>1. CASE \E c \in Bufs : blockno'[c] = j /\ valid'[c]
    <3>1. PICK c \in Bufs : blockno'[c] = j /\ valid'[c]
      BY <2>1
    <3>2. c # b /\ blockno[c] = j /\ valid[c]
      BY <1>3, <3>1
    <3>3. Con'[j] = data'[c] /\ Con[j] = data[c]
      BY <1>0, <3>1, <3>2, ConView, ConViewNext
    <3> QED
      BY <1>0, <3>3
  <2>2. CASE \A c \in Bufs : ~(blockno'[c] = j /\ valid'[c])
    <3>1. Con'[j] = platter[j]
      BY <1>0, <2>2, ConViewNext
    <3>2. CASE blockno[b] = j /\ valid[b]
      BY <1>0, <1>4, <3>1, <3>2, ConView
    <3>3. CASE ~(blockno[b] = j /\ valid[b])
      <4>1. \A c \in Bufs : ~(blockno[c] = j /\ valid[c])
        BY <1>3, <2>2, <3>3
      <4> QED
        BY <1>0, <3>1, <4>1, ConView
    <3> QED
      BY <3>2, <3>3
  <2> QED
    BY <2>1, <2>2
<1>6. ASSUME NEW j \in Blocks PROVE Own'[j] = Own[j]
  <2>1. \A q \in Procs : H(q)' = H(q) /\ b \notin H(q)
    BY <1>0, <1>2 DEF H, Uses
  <2>2. CASE \E q \in Procs : \E c \in Bufs : blockno[c] = j /\ c \in H(q)
    <3>1. PICK q \in Procs : \E c \in Bufs : blockno[c] = j /\ c \in H(q)
      BY <2>2
    <3>2. PICK c \in Bufs : blockno[c] = j /\ c \in H(q)
      BY <3>1
    <3>3. blockno'[c] = j /\ c \in H(q)'
      BY <1>3, <2>1, <3>2
    <3> QED
      BY <1>0, <3>2, <3>3, OwnView, OwnViewNext
  <2>3. CASE \A q \in Procs : \A c \in Bufs : ~(blockno[c] = j /\ c \in H(q))
    <3>1. \A q \in Procs : \A c \in Bufs : ~(blockno'[c] = j /\ c \in H(q)')
      BY <1>3, <2>1, <2>3
    <3> QED
      BY <1>0, <2>3, <3>1, OwnView, OwnViewNext
  <2> QED
    BY <2>2, <2>3
<1> QED
  BY <1>5, <1>6, ConPoints, OwnPoints

\* One more buffer is locked: its block had no owner.
LEMMA LockView ==
  ASSUME RefcntExact, Links, CacheTypes, RefcntExact', Links', blockno' = blockno,
         NEW p \in Procs, NEW b \in Bufs, NEW k \in Blocks, blockno[b] = k,
         H(p)' = H(p) \cup {b}, \A q \in Procs : q # p => H(q)' = H(q), \A q \in Procs : b \notin H(q)
  PROVE  Own[k] = None /\ Own' = [Own EXCEPT ![k] = p]
<1>1. \A c \in Bufs : blockno[c] = k => c = b
  BY Constants DEF RefcntExact
<1>2. Own[k] = None
  BY <1>1, OwnView
<1>3. Own'[k] = p
  BY OwnViewNext
<1>4. ASSUME NEW j \in Blocks, j # k PROVE Own'[j] = Own[j]
  <2>1. \A q \in Procs : \A c \in Bufs : blockno[c] = j => (c \in H(q)' <=> c \in H(q))
    BY <1>4
  <2>2. CASE \E q \in Procs : \E c \in Bufs : blockno[c] = j /\ c \in H(q)
    <3>1. PICK q \in Procs : \E c \in Bufs : blockno[c] = j /\ c \in H(q)
      BY <2>2
    <3>2. PICK c \in Bufs : blockno[c] = j /\ c \in H(q)
      BY <3>1
    <3> QED
      BY <2>1, <3>2, OwnView, OwnViewNext
  <2>3. CASE \A q \in Procs : \A c \in Bufs : ~(blockno[c] = j /\ c \in H(q))
    BY <2>1, <2>3, OwnView, OwnViewNext
  <2> QED
    BY <2>2, <2>3
<1> QED
  BY <1>2, <1>3, <1>4, OwnPoints

LEMMA TakeView ==
  ASSUME IInv, IInv', NEW p \in Procs, acquiresleep(p), holder[op[p].b] = None, valid[op[p].b]
  PROVE  Store!Next
<1>1. PICK b \in Bufs \cup {None} : b = op[p].b
  BY HeldBufs DEF IInv
<1>0. /\ DiskTypes /\ CacheTypes /\ Links /\ RefcntExact /\ RefcntExact' /\ Links'
      /\ Is(p, "acquire") /\ held' = [held EXCEPT ![p] = Append(@, b)]
      /\ UNCHANGED <<valid, platter, data, blockno>>
  BY <1>1 DEF IInv, acquiresleep
<1>2. Link(p) /\ op[p].at = "acquire" /\ held[p] \in Seq(Bufs)
  BY <1>0 DEF Links, Is, CacheTypes
<1>3. b \in Bufs /\ b # None /\ holder[b] = None /\ blockno[b] \in Blocks
  <2>1. b \in Bufs /\ b # None /\ holder[b] = None /\ blockno[b] # None
    BY <1>1, <1>2 DEF Link
  <2> QED
    BY <1>0, <2>1 DEF DiskTypes
<1>4. \A q \in Procs : b \notin H(q)
  BY <1>0, <1>3, Constants DEF Links, Link
<1>5. H(p)' = H(p) \cup {b} /\ \A q \in Procs : q # p => H(q)' = H(q)
  <2>1. held'[p] = Append(held[p], b) /\ \A q \in Procs : q # p => held'[q] = held[q]
    BY <1>0 DEF CacheTypes
  <2> QED
    BY <1>2, <1>3, <2>1, Appended DEF H
<1>6. PICK k \in Blocks : blockno[b] = k
  BY <1>3
<1>7. Own[k] = None /\ Own' = [Own EXCEPT ![k] = p]
  BY <1>0, <1>3, <1>4, <1>5, <1>6, LockView
<1>8. Con' = Con
  BY <1>0, ViewSame
<1> QED
  BY <1>7, <1>8, StoreSteps

\* What was read is what the block was.
LEMMA BreadReturnView ==
  ASSUME IInv, IInv', NEW p \in Procs, breadReturn(p)
  PROVE  Store!Next
<1>1. PICK b \in Bufs \cup {None} : b = op[p].b
  BY HeldBufs DEF IInv
<1>0. /\ DiskTypes /\ CacheTypes /\ Links /\ Chains /\ Copies /\ RefcntExact /\ RefcntExact' /\ Links'
      /\ op[p].at = "reading" /\ RwDone(p) /\ held' = [held EXCEPT ![p] = Append(@, b)]
      /\ valid' = [valid EXCEPT ![b] = TRUE] /\ UNCHANGED <<platter, data, blockno>>
  BY <1>1 DEF IInv, breadReturn, RwDone
<1>2. Link(p) /\ held[p] \in Seq(Bufs) /\ Finished(p) /\ io[p].at # "none"
  BY <1>0, DoneOthers DEF Links, CacheTypes
<1>3. b \in Bufs /\ b \notin H(p) /\ holder[b] = p /\ ~valid[b] /\ io[p].b = b /\ blockno[b] \in Blocks
  <2>1. b \in Bufs /\ b \notin H(p) /\ holder[b] = p /\ ~valid[b] /\ io[p].b = b /\ blockno[b] # None
    BY <1>0, <1>1, <1>2 DEF Link
  <2> QED
    BY <1>0, <2>1 DEF DiskTypes
<1>4. \A q \in Procs : b \notin H(q)
  BY <1>0, <1>3 DEF Links, Link
<1>5. H(p)' = H(p) \cup {b} /\ \A q \in Procs : q # p => H(q)' = H(q)
  <2>1. held'[p] = Append(held[p], b) /\ \A q \in Procs : q # p => held'[q] = held[q]
    BY <1>0 DEF CacheTypes
  <2> QED
    BY <1>2, <1>3, <2>1, Appended DEF H
<1>6. PICK k \in Blocks : blockno[b] = k
  BY <1>3
<1>7. Own[k] = None /\ Own' = [Own EXCEPT ![k] = p]
  BY <1>0, <1>3, <1>4, <1>5, <1>6, LockView
<1>8. data[b] = platter[k]
  BY <1>0, <1>2, <1>3, <1>6 DEF Copies
<1>9. valid'[b] /\ \A c \in Bufs : c # b => valid'[c] = valid[c]
  BY <1>0, <1>3 DEF CacheTypes
<1>10. \A c \in Bufs : blockno[c] = k => c = b
  BY <1>0, <1>3, <1>6, Constants DEF RefcntExact
<1>11. ASSUME NEW j \in Blocks PROVE Con'[j] = Con[j]
  <2>1. CASE j = k
    <3>1. Con'[j] = data[b]
      BY <1>0, <1>3, <1>6, <1>9, <2>1, ConViewNext
    <3>2. Con[j] = platter[k]
      BY <1>0, <1>3, <1>10, <2>1, ConView
    <3> QED
      BY <1>8, <3>1, <3>2
  <2>2. CASE j # k
    <3>1. \A c \in Bufs : blockno[c] = j => valid'[c] = valid[c]
      BY <1>6, <1>9, <2>2
    <3>2. CASE \E c \in Bufs : blockno[c] = j /\ valid[c]
      <4>1. PICK c \in Bufs : blockno[c] = j /\ valid[c]
        BY <3>2
      <4>2. Con[j] = data[c]
        BY <1>0, <4>1, ConView
      <4>3. Con'[j] = data'[c]
        BY <1>0, <3>1, <4>1, ConViewNext
      <4> QED
        BY <1>0, <4>2, <4>3
    <3>3. CASE \A c \in Bufs : ~(blockno[c] = j /\ valid[c])
      <4>1. Con[j] = platter[j]
        BY <1>0, <3>3, ConView
      <4>2. Con'[j] = platter'[j]
        BY <1>0, <3>1, <3>3, ConViewNext
      <4> QED
        BY <1>0, <4>1, <4>2
    <3> QED
      BY <3>2, <3>3
  <2> QED
    BY <2>1, <2>2
<1> QED
  BY <1>7, <1>11, ConPoints, StoreSteps

\* The caller changes the content of the block it has.
LEMMA WriteView ==
  ASSUME IInv, IInv', NEW p \in Procs, NEW v \in Vals, log_write(p, v) \/ bwrite(p, v)
  PROVE  Store!Next
<1>0. /\ DiskTypes /\ CacheTypes /\ Links /\ RefcntExact /\ RefcntExact' /\ HasBuffer(p)
      /\ UNCHANGED <<valid, platter, blockno, held>>
  BY DEF IInv, log_write, bwrite
<1>1. PICK b \in Bufs : b = Top(p) /\ b \in H(p) /\ holder[b] = p /\ valid[b]
  BY <1>0, Locked
<1>2. data' = [data EXCEPT ![b] = v]
  BY <1>1 DEF log_write, bwrite, holdingsleep
<1>3. data'[b] = v /\ \A c \in Bufs : c # b => data'[c] = data[c]
  BY <1>0, <1>2 DEF DiskTypes
<1>4. PICK k \in Blocks : blockno[b] = k
  <2>1. blockno[b] # None /\ blockno[b] \in Blocks \cup {None}
    BY <1>0, <1>1 DEF Links, DiskTypes
  <2> QED
    BY <2>1
<1>5. Own[k] = p
  BY <1>0, <1>1, <1>4, OwnView
<1>6. Own' = Own
  BY <1>0, ViewSame
<1>7. Con'[k] = v
  BY <1>0, <1>1, <1>3, <1>4, ConViewNext
<1>8. ASSUME NEW j \in Blocks, j # k PROVE Con'[j] = Con[j]
  <2>1. CASE \E c \in Bufs : blockno[c] = j /\ valid[c]
    <3>1. PICK c \in Bufs : blockno[c] = j /\ valid[c]
      BY <2>1
    <3>2. Con[j] = data[c]
      BY <1>0, <3>1, ConView
    <3>3. Con'[j] = data'[c]
      BY <1>0, <3>1, ConViewNext
    <3> QED
      BY <1>3, <1>4, <1>8, <3>1, <3>2, <3>3
  <2>2. CASE \A c \in Bufs : ~(blockno[c] = j /\ valid[c])
    <3>1. Con[j] = platter[j]
      BY <1>0, <2>2, ConView
    <3>2. Con'[j] = platter'[j]
      BY <1>0, <2>2, ConViewNext
    <3> QED
      BY <1>0, <3>1, <3>2
  <2> QED
    BY <2>1, <2>2
<1>9. Con' = [Con EXCEPT ![k] = v]
  BY <1>7, <1>8, ConPoints
<1> QED
  BY <1>5, <1>6, <1>9, StoreSteps

LEMMA BrelseView ==
  ASSUME IInv, IInv', NEW p \in Procs, brelse(p)
  PROVE  Store!Next
<1>0. /\ DiskTypes /\ CacheTypes /\ Links /\ RefcntExact /\ RefcntExact' /\ Links' /\ HasBuffer(p)
      /\ UNCHANGED <<valid, platter, data, blockno>>
  BY DEF IInv, brelse, diskVars
<1>1. PICK b \in Bufs : b = Top(p) /\ b \in H(p) /\ holder[b] = p /\ valid[b]
  BY <1>0, Locked
<1>2. held' = [held EXCEPT ![p] = Front(@)]
  BY <1>1 DEF brelse, holdingsleep
<1>3. held[p] \in Seq(Bufs) /\ held[p] # <<>> /\ Distinct(held[p])
  BY <1>0, Locked
<1>4. H(p)' = H(p) \ {b} /\ \A q \in Procs : q # p => H(q)' = H(q)
  <2>1. held'[p] = Front(held[p]) /\ \A q \in Procs : q # p => held'[q] = held[q]
    BY <1>0, <1>2 DEF CacheTypes
  <2> QED
    BY <1>1, <1>3, <2>1, Shortened DEF Top, H
<1>5. PICK k \in Blocks : blockno[b] = k
  <2>1. blockno[b] # None /\ blockno[b] \in Blocks \cup {None}
    BY <1>0, <1>1 DEF Links, DiskTypes
  <2> QED
    BY <2>1
<1>6. Own[k] = p
  BY <1>0, <1>1, <1>5, OwnView
<1>7. Own'[k] = None
  <2>1. \A c \in Bufs : blockno[c] = k => c = b
    BY <1>0, <1>5, Constants DEF RefcntExact
  <2>2. \A q \in Procs : b \notin H(q)'
    <3>1. \A q \in Procs : q # p => b \notin H(q)
      BY <1>0, <1>1 DEF Links, Link
    <3> QED
      BY <1>4, <3>1
  <2> QED
    BY <1>0, <2>1, <2>2, OwnViewNext
<1>8. ASSUME NEW j \in Blocks, j # k PROVE Own'[j] = Own[j]
  <2>1. \A q \in Procs : \A c \in Bufs : blockno[c] = j => (c \in H(q)' <=> c \in H(q))
    BY <1>4, <1>5, <1>8
  <2>2. CASE \E q \in Procs : \E c \in Bufs : blockno[c] = j /\ c \in H(q)
    <3>1. PICK q \in Procs : \E c \in Bufs : blockno[c] = j /\ c \in H(q)
      BY <2>2
    <3>2. PICK c \in Bufs : blockno[c] = j /\ c \in H(q)
      BY <3>1
    <3> QED
      BY <1>0, <2>1, <3>2, OwnView, OwnViewNext
  <2>3. CASE \A q \in Procs : \A c \in Bufs : ~(blockno[c] = j /\ c \in H(q))
    BY <1>0, <2>1, <2>3, OwnView, OwnViewNext
  <2> QED
    BY <2>2, <2>3
<1>9. Own' = [Own EXCEPT ![k] = None]
  BY <1>7, <1>8, OwnPoints
<1>10. Con' = Con
  BY <1>0, ViewSame
<1> QED
  BY <1>6, <1>9, <1>10, StoreSteps

\* The device writes what the buffer has, and reads into a buffer that nobody
\* has seen.
LEMMA DevView ==
  ASSUME IInv, IInv', UNCHANGED cacheVars, NEW i \in Desc, DevComplete(i)
  PROVE  Con' = Con /\ Own' = Own
<1>0. DiskTypes /\ CacheTypes /\ Links /\ Chains /\ Rings /\ RefcntExact /\ RefcntExact'
  BY DEF IInv
<1>1. PICK z \in Procs :
        /\ io[z].at = "asleep"
        /\ IF io[z].write
           THEN platter' = [platter EXCEPT ![blockno[io[z].b]] = data[io[z].b]] /\ data' = data
           ELSE data' = [data EXCEPT ![io[z].b] = platter[blockno[io[z].b]]] /\ platter' = platter
        /\ blockno' = blockno
  BY <1>0, DevEffect
<1>2. UNCHANGED <<valid, held>>
  BY DEF cacheVars
<1>3. PICK b \in Bufs : b = io[z].b /\ blockno[b] \in Blocks /\ (io[z].write <=> valid[b])
  BY <1>0, <1>1, InDriver
<1>4. /\ \A c \in Bufs : valid[c] => data'[c] = data[c]
      /\ \A j \in Blocks : (\A c \in Bufs : ~(blockno[c] = j /\ valid[c])) => platter'[j] = platter[j]
  <2>1. CASE io[z].write
    BY <1>0, <1>1, <1>3, <2>1 DEF DiskTypes
  <2>2. CASE ~io[z].write
    BY <1>0, <1>1, <1>3, <2>2 DEF DiskTypes
  <2> QED
    BY <2>1, <2>2
<1>5. ASSUME NEW j \in Blocks PROVE Con'[j] = Con[j]
  <2>1. CASE \E c \in Bufs : blockno[c] = j /\ valid[c]
    <3>1. PICK c \in Bufs : blockno[c] = j /\ valid[c]
      BY <2>1
    <3>2. Con[j] = data[c]
      BY <1>0, <3>1, ConView
    <3>3. Con'[j] = data'[c]
      BY <1>0, <1>1, <1>2, <3>1, ConViewNext
    <3> QED
      BY <1>4, <3>1, <3>2, <3>3
  <2>2. CASE \A c \in Bufs : ~(blockno[c] = j /\ valid[c])
    <3>1. Con[j] = platter[j]
      BY <1>0, <2>2, ConView
    <3>2. Con'[j] = platter'[j]
      BY <1>0, <1>1, <1>2, <2>2, ConViewNext
    <3> QED
      BY <1>4, <2>2, <3>1, <3>2
  <2> QED
    BY <2>1, <2>2
<1> QED
  BY <1>1, <1>2, <1>5, ConPoints, ViewSame

LEMMA NextView ==
  ASSUME IInv, IInv', [Next]_vars
  PROVE  [Store!Next]_<<Con, Own>>
<1>1. CASE DiskStep
  <2>1. UNCHANGED cacheVars /\ DiskNext
    BY <1>1 DEF DiskStep
  <2>2. CASE \E i \in Desc : DevComplete(i)
    BY <2>1, <2>2, DevView
  <2>3. CASE (\E p \in Procs : RwAlloc(p)) \/ IntrAck \/ IntrEntry \/ IntrEnd
    <3>1. UNCHANGED <<data, platter, blockno, valid, held>>
      BY <2>1, <2>3 DEF RwAlloc, IntrAck, IntrEntry, IntrEnd, cacheVars
    <3> QED
      BY <3>1, ViewSame
  <2> QED
    BY <2>1, <2>2, <2>3 DEF DiskNext
<1>2. CASE Halted \/ UNCHANGED vars
  <2>1. UNCHANGED <<data, platter, blockno, valid, held>>
    BY <1>2 DEF Halted, vars, diskVars, cacheVars
  <2> QED
    BY <2>1, ViewSame
<1>3. ASSUME NEW p \in Procs, Proceed(p)
      PROVE  [Store!Next]_<<Con, Own>>
  <2>1. CASE acquiresleep(p) /\ holder[op[p].b] = None /\ valid[op[p].b]
    BY <2>1, TakeView
  <2>2. CASE acquiresleep(p) /\ ~(holder[op[p].b] = None /\ valid[op[p].b])
    <3>1. UNCHANGED <<data, platter, blockno, valid, held>>
      BY <2>2 DEF acquiresleep
    <3> QED
      BY <3>1, ViewSame
  <2>3. CASE breadReturn(p)
    BY <2>3, BreadReturnView
  <2>4. CASE bwriteReturn(p) \/ brelseUnref(p)
    <3>1. UNCHANGED <<data, platter, blockno, valid, held>>
      BY <2>4 DEF bwriteReturn, brelseUnref, RwDone, diskVars
    <3> QED
      BY <3>1, ViewSame
  <2> QED
    BY <1>3, <2>1, <2>2, <2>3, <2>4 DEF Proceed
<1>4. ASSUME NEW p \in Procs, Request(p)
      PROVE  [Store!Next]_<<Con, Own>>
  <2>1. ASSUME NEW k \in Blocks, bget(p, k) PROVE [Store!Next]_<<Con, Own>>
    <3>1. CASE bgetRecycle(p, k)
      BY <2>1, <3>1, RecycleView
    <3>2. CASE bgetHit(p, k) \/ bgetNone(p, k)
      <4>1. UNCHANGED <<data, platter, blockno, valid, held>>
        BY <2>1, <3>2 DEF bget, bgetHit, bgetNone
      <4> QED
        BY <4>1, ViewSame
    <3> QED
      BY <2>1, <3>1, <3>2 DEF bget
  <2>2. ASSUME NEW v \in Vals, log_write(p, v) \/ bwrite(p, v) PROVE [Store!Next]_<<Con, Own>>
    BY <2>2, WriteView
  <2>3. CASE brelse(p)
    BY <2>3, BrelseView
  <2> QED
    BY <1>4, <2>1, <2>2, <2>3 DEF Request
<1> QED
  BY <1>1, <1>2, <1>3, <1>4 DEF Next

LEMMA InitView == Init => Store!Init
<1> SUFFICES ASSUME Init PROVE Store!Init
  OBVIOUS
<1>1. /\ platter \in [Blocks -> Vals] /\ valid = [b \in Bufs |-> FALSE] /\ held = [p \in Procs |-> <<>>]
      /\ blockno = [b \in Bufs |-> None]
  BY DEF Init, DiskInit
<1>2. \A k \in Blocks : CachedIn(k) = {}
  BY <1>1, Constants DEF CachedIn
<1>3. Con = [k \in Blocks |-> platter[k]]
  BY <1>2 DEF Con
<1>4. Con \in [Blocks -> Vals]
  BY <1>1, <1>3
<1>5. Own = [k \in Blocks |-> None]
  BY <1>2 DEF Own
<1> QED
  BY <1>4, <1>5 DEF Store!Init, Con, Own

\* Cache, sleep-locks and driver together are a store of blocks with one content
\* and one user each: a recycled buffer loses no change, a read returns what was
\* written last, and the device touches no buffer that a caller has.
THEOREM BlockStoreCorrect == Spec => ImplementsBlockStore
<1>1. IInv /\ IInv' /\ [Next]_vars => [Store!Next]_<<Con, Own>>
  BY NextView
<1>2. [Store!Next]_<<Con, Own>> <=>
      [Store!Next]_<<[k \in Blocks |-> IF \E b \in CachedIn(k) : valid[b]
                                       THEN data[CHOOSE b \in CachedIn(k) : valid[b]]
                                       ELSE platter[k]],
                     [k \in Blocks |-> IF \E p \in Procs : \E b \in CachedIn(k) : b \in ToSet(held[p])
                                       THEN CHOOSE p \in Procs : \E b \in CachedIn(k) : b \in ToSet(held[p])
                                       ELSE None]>>
  BY DEF Con, Own
<1> QED
  BY <1>1, <1>2, InitView, IInvCorrect, PTL DEF Spec, ImplementsBlockStore, Store!Spec
=============================================================================
