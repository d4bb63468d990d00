--------------------------- MODULE Console_proofs ---------------------------
(***************************************************************************)
(* The rings of the console for every size, every set of processes and     *)
(* everything they read and write: nobody and nothing is left behind, a    *)
(* read gets at most one line, input implements LineInput, output Streams. *)
(***************************************************************************)
EXTENDS Console, SequenceTheorems, WellFoundedInduction, TLAPS

-----------------------------------------------------------------------------
(* Arithmetic modulo the size of a ring and the width of its indices.      *)

LEMMA ModRange ==
  ASSUME NEW n \in Nat \ {0}, NEW a \in Int
  PROVE  a % n \in 0 .. n - 1
OBVIOUS

LEMMA ModSmall ==
  ASSUME NEW n \in Nat \ {0}, NEW a \in 0 .. n - 1
  PROVE  a % n = a
OBVIOUS

LEMMA ModUp ==
  ASSUME NEW n \in Nat \ {0}, NEW a \in n .. 2 * n - 1
  PROVE  a % n = a - n
OBVIOUS

LEMMA ModDown ==
  ASSUME NEW n \in Nat \ {0}, NEW a \in Int, -n <= a, a < 0
  PROVE  a % n = a + n
OBVIOUS

LEMMA DivMod ==
  ASSUME NEW n \in Nat \ {0}, NEW a \in Int
  PROVE  a \div n \in Int /\ a = (n * (a \div n)) + (a % n)
OBVIOUS

LEMMA ModUnique ==
  ASSUME NEW n \in Nat \ {0}, NEW q \in Int, NEW x \in 0 .. n - 1
  PROVE  ((n * q) + x) % n = x
OBVIOUS

\* Multiples of the divisor do not count.
LEMMA ModMult ==
  ASSUME NEW n \in Nat \ {0}, NEW q \in Int, NEW a \in Int
  PROVE  (a + (n * q)) % n = a % n
<1>1. PICK d \in Int, x \in 0 .. n - 1 : a % n = x /\ a = (n * d) + x
  BY DivMod, ModRange
<1>2. (n * d) + (n * q) = n * (d + q) /\ n * d \in Int /\ n * q \in Int /\ d + q \in Int
  OBVIOUS
<1>3. a + (n * q) = (n * (d + q)) + x
  BY <1>1, <1>2
<1> QED
  BY <1>1, <1>2, <1>3, ModUnique

\* Numbers less than the divisor apart have different remainders.
LEMMA ModInjective ==
  ASSUME NEW n \in Nat \ {0}, NEW a \in Int, NEW b \in Int,
         a % n = b % n, a - b < n, b - a < n
  PROVE  a = b
<1>1. a \div n \in Int /\ b \div n \in Int /\ a % n \in Int
  BY DivMod, ModRange
<1>2. a = (n * (a \div n)) + (a % n) /\ b = (n * (b \div n)) + (a % n)
  BY DivMod
<1>3. \A c, d, x \in Int : ((n * c) + x) - ((n * d) + x) = n * (c - d)
  OBVIOUS
<1>4. a - b = n * ((a \div n) - (b \div n))
  BY <1>1, <1>2, <1>3
<1>5. \A k \in Int : n * k < n /\ -n < n * k => k = 0
  OBVIOUS
<1>6. (a \div n) - (b \div n) = 0
  BY <1>1, <1>4, <1>5
<1> QED
  BY <1>1, <1>4, <1>6

-----------------------------------------------------------------------------
(* A ring of size entries whose indices wrap at max.                       *)

Ring(size, max) ==
  /\ size \in Nat \ {0} /\ max \in Nat \ {0}
  /\ max % size = 0 /\ size < max

LEMMA Rings == Ring(SIZE, UINT) /\ Ring(TXSIZE, TXUINT)
BY ConsoleAssumption DEF Ring

LEMMA DistanceIs ==
  ASSUME NEW max \in Nat \ {0}, NEW from \in 0 .. max - 1, NEW to \in 0 .. max - 1
  PROVE  Distance(from, to, max) = IF to >= from THEN to - from ELSE to - from + max
<1>1. CASE to >= from
  <2>1. to - from \in 0 .. max - 1
    BY <1>1
  <2> QED
    BY <1>1, <2>1, ModSmall DEF Distance
<1>2. CASE ~(to >= from)
  <2>1. to - from \in Int /\ -max <= to - from /\ to - from < 0
    BY <1>2
  <2> QED
    BY <1>2, <2>1, ModDown DEF Distance
<1> QED
  BY <1>1, <1>2

LEMMA DistanceType ==
  ASSUME NEW max \in Nat \ {0}, NEW from \in 0 .. max - 1, NEW to \in 0 .. max - 1
  PROVE  /\ Distance(from, to, max) \in 0 .. max - 1
         /\ Distance(from, to, max) = 0 <=> from = to
<1> DEFINE d == Distance(from, to, max)
<1>1. d = IF to >= from THEN to - from ELSE to - from + max
  BY DistanceIs
<1> HIDE DEF d
<1>2. d \in 0 .. max - 1 /\ (d = 0 <=> from = to)
  BY <1>1
<1> QED
  BY <1>2 DEF d

\* An index that moves on by k.
LEMMA StepIs ==
  ASSUME NEW max \in Nat \ {0}, NEW i \in 0 .. max - 1, NEW k \in 0 .. max
  PROVE  /\ (i + k) % max = IF i + k < max THEN i + k ELSE i + k - max
         /\ (i + k) % max \in 0 .. max - 1
<1>1. CASE i + k < max
  <2>1. i + k \in 0 .. max - 1
    BY <1>1
  <2> QED
    BY <1>1, <2>1, ModSmall
<1>2. CASE ~(i + k < max)
  <2>1. i + k \in max .. 2 * max - 1
    BY <1>2
  <2> QED
    BY <1>2, <2>1, ModUp
<1> QED
  BY <1>1, <1>2

\* The index before i.
LEMMA BackIs ==
  ASSUME NEW max \in Nat \ {0}, NEW i \in 0 .. max - 1
  PROVE  (i - 1) % max = (IF i = 0 THEN max - 1 ELSE i - 1) /\ (i - 1) % max \in 0 .. max - 1
<1>1. CASE i = 0
  <2>1. i - 1 \in Int /\ -max <= i - 1 /\ i - 1 < 0
    BY <1>1
  <2> QED
    BY <1>1, <2>1, ModDown
<1>2. CASE i # 0
  <2>1. i - 1 \in 0 .. max - 1
    BY <1>2
  <2> QED
    BY <1>2, <2>1, ModSmall
<1> QED
  BY <1>1, <1>2

\* The wrap of the index does not move the slots.
LEMMA SlotWrap ==
  ASSUME NEW size, NEW max, Ring(size, max), NEW i \in 0 .. max - 1, NEW k \in 0 .. max, NEW j \in Nat
  PROVE  (((i + k) % max) + j) % size = (i + k + j) % size
<1>1. size \in Nat \ {0} /\ max \in Nat \ {0} /\ max % size = 0
  BY DEF Ring
<1>2. PICK q \in Int : max = size * q
  <2>1. max \div size \in Int /\ max = (size * (max \div size)) + 0
    BY <1>1, DivMod
  <2>2. size * (max \div size) \in Int
    BY <1>1, <2>1
  <2> QED
    BY <2>1, <2>2
<1>3. CASE i + k < max
  BY <1>1, <1>3, StepIs
<1>4. CASE ~(i + k < max)
  <2>1. (i + k) % max = i + k - max
    BY <1>1, <1>4, StepIs
  <2> DEFINE a == i + k + j - max
  <2>2. a \in Int /\ a + max = i + k + j /\ ((i + k) % max) + j = a
    BY <1>1, <2>1
  <2> HIDE DEF a
  <2>3. (a + (size * q)) % size = a % size
    BY <1>1, <2>2, ModMult
  <2> QED
    BY <1>2, <2>2, <2>3
<1> QED
  BY <1>3, <1>4

\* How far apart the indices are after each of these steps.
LEMMA PushDistance ==
  ASSUME NEW max \in Nat \ {0}, NEW from \in 0 .. max - 1, NEW to \in 0 .. max - 1,
         Distance(from, to, max) + 1 < max
  PROVE  (to + 1) % max \in 0 .. max - 1 /\ Distance(from, (to + 1) % max, max) = Distance(from, to, max) + 1
<1>1. PICK t2 \in 0 .. max - 1 : t2 = (to + 1) % max /\ t2 = IF to + 1 < max THEN to + 1 ELSE to + 1 - max
  <2>1. 1 \in 0 .. max
    OBVIOUS
  <2> QED
    BY <2>1, StepIs
<1>2. Distance(from, to, max) = IF to >= from THEN to - from ELSE to - from + max
  BY DistanceIs
<1>3. Distance(from, t2, max) = IF t2 >= from THEN t2 - from ELSE t2 - from + max
  BY DistanceIs
<1>4. Distance(from, t2, max) = Distance(from, to, max) + 1
  BY <1>1, <1>2, <1>3
<1> QED
  BY <1>1, <1>4

LEMMA DropDistance ==
  ASSUME NEW max \in Nat \ {0}, NEW from \in 0 .. max - 1, NEW to \in 0 .. max - 1,
         NEW k \in 0 .. Distance(from, to, max)
  PROVE  /\ (from + k) % max \in 0 .. max - 1
         /\ Distance(from, (from + k) % max, max) = k
         /\ Distance((from + k) % max, to, max) = Distance(from, to, max) - k
<1>1. Distance(from, to, max) = IF to >= from THEN to - from ELSE to - from + max
  BY DistanceIs
<1>2. k \in 0 .. max
  BY <1>1
<1>3. PICK f2 \in 0 .. max - 1 : f2 = (from + k) % max /\ f2 = IF from + k < max THEN from + k ELSE from + k - max
  BY <1>2, StepIs
<1>4. Distance(from, f2, max) = IF f2 >= from THEN f2 - from ELSE f2 - from + max
  BY DistanceIs
<1>5. Distance(f2, to, max) = IF to >= f2 THEN to - f2 ELSE to - f2 + max
  BY DistanceIs
<1>6. Distance(from, f2, max) = k /\ Distance(f2, to, max) = Distance(from, to, max) - k
  BY <1>1, <1>2, <1>3, <1>4, <1>5
<1> QED
  BY <1>3, <1>6

LEMMA ChopDistance ==
  ASSUME NEW max \in Nat \ {0}, NEW from \in 0 .. max - 1, NEW to \in 0 .. max - 1, from # to
  PROVE  (to - 1) % max \in 0 .. max - 1 /\ Distance(from, (to - 1) % max, max) = Distance(from, to, max) - 1
<1>1. PICK t2 \in 0 .. max - 1 : t2 = (to - 1) % max /\ t2 = IF to = 0 THEN max - 1 ELSE to - 1
  BY BackIs
<1>2. Distance(from, to, max) = IF to >= from THEN to - from ELSE to - from + max
  BY DistanceIs
<1>3. Distance(from, t2, max) = IF t2 >= from THEN t2 - from ELSE t2 - from + max
  BY DistanceIs
<1>4. Distance(from, t2, max) = Distance(from, to, max) - 1
  BY <1>1, <1>2, <1>3
<1> QED
  BY <1>1, <1>4

LEMMA JoinDistance ==
  ASSUME NEW max \in Nat \ {0}, NEW x \in 0 .. max - 1, NEW y \in 0 .. max - 1, NEW z \in 0 .. max - 1,
         Distance(x, y, max) + Distance(y, z, max) < max
  PROVE  Distance(x, z, max) = Distance(x, y, max) + Distance(y, z, max)
<1>1. Distance(x, y, max) = IF y >= x THEN y - x ELSE y - x + max
  BY DistanceIs
<1>2. Distance(y, z, max) = IF z >= y THEN z - y ELSE z - y + max
  BY DistanceIs
<1>3. Distance(x, z, max) = IF z >= x THEN z - x ELSE z - x + max
  BY DistanceIs
<1> QED
  BY <1>1, <1>2, <1>3

LEMMA BetweenLen ==
  ASSUME NEW b, NEW size, NEW max \in Nat \ {0}, NEW from \in 0 .. max - 1, NEW to \in 0 .. max - 1
  PROVE  Len(Between(b, size, max, from, to)) = Distance(from, to, max)
<1>1. PICK d \in 0 .. max - 1 : d = Distance(from, to, max)
  BY DistanceType
<1>2. Between(b, size, max, from, to) = [i \in 1 .. d |-> b[(from + i - 1) % size]]
  BY <1>1 DEF Between
<1> QED
  BY <1>1, <1>2

LEMMA BetweenSeq ==
  ASSUME NEW S, NEW size, NEW max, Ring(size, max), NEW b \in [0 .. size - 1 -> S],
         NEW from \in 0 .. max - 1, NEW to \in 0 .. max - 1
  PROVE  Between(b, size, max, from, to) \in Seq(S)
<1>0. size \in Nat \ {0} /\ max \in Nat \ {0}
  BY DEF Ring
<1>1. PICK d \in 0 .. max - 1 : d = Distance(from, to, max)
  BY <1>0, DistanceType
<1> DEFINE s == Between(b, size, max, from, to)
<1>2. s = [i \in 1 .. d |-> b[(from + i - 1) % size]]
  BY <1>1 DEF Between
<1>3. ASSUME NEW i \in 1 .. d PROVE (from + i - 1) % size \in 0 .. size - 1
  <2>1. from + i - 1 \in Int
    OBVIOUS
  <2> QED
    BY <1>0, <2>1, ModRange
<1> HIDE DEF s
<1>4. s \in [1 .. d -> S]
  BY <1>2, <1>3
<1>5. s \in Seq(S)
  BY <1>4
<1> QED
  BY <1>5 DEF s

\* The slot of the index to, seen from the index from.
LEMMA LastSlot ==
  ASSUME NEW size, NEW max, Ring(size, max),
         NEW from \in 0 .. max - 1, NEW to \in 0 .. max - 1
  PROVE  LET d == Distance(from, to, max) IN
         (from + d) % max = to /\ (from + d) % size = to % size
<1> PICK d \in 0 .. max - 1 : d = Distance(from, to, max)
  BY DistanceType DEF Ring
<1>1. max \in Nat \ {0}
  BY DEF Ring
<1>2. d = IF to >= from THEN to - from ELSE to - from + max
  BY <1>1, DistanceIs
<1>3. (from + d) % max = to
  <2>1. (from + d) % max = IF from + d < max THEN from + d ELSE from + d - max
    <3>1. d \in 0 .. max
      BY <1>1
    <3> QED
      BY <1>1, <3>1, StepIs
  <2> QED
    BY <1>1, <1>2, <2>1
<1>4. (((from + d) % max) + 0) % size = (from + d + 0) % size
  <2>1. d \in 0 .. max /\ 0 \in Nat
    BY <1>1
  <2> QED
    BY <2>1, SlotWrap, Zenon
<1>5. to + 0 = to /\ from + d + 0 = from + d
  OBVIOUS
<1> QED
  BY <1>3, <1>4, <1>5

\* The entries of a ring, an entry put into the slot of an index or taken from it,
\* and an index that moves.
Holds(b, size, S) == b \in [0 .. size - 1 -> S]
Put(b, size, i, v) == [b EXCEPT ![i % size] = v]
Slot(b, size, i) == b[i % size]
Ahead(i, k, max) == (i + k) % max
Behind(i, max) == (i - 1) % max

\* Another entry behind the last one.
LEMMA PushSeq ==
  ASSUME NEW size, NEW max, Ring(size, max), NEW S, NEW b, Holds(b, size, S),
         NEW from \in 0 .. max - 1, NEW to \in 0 .. max - 1, NEW c \in S,
         Distance(from, to, max) < size,
         NEW bn, bn = Put(b, size, to, c), NEW ton, ton = Ahead(to, 1, max)
  PROVE  Between(bn, size, max, from, ton) = Append(Between(b, size, max, from, to), c)
<1> b \in [0 .. size - 1 -> S]
  BY DEF Holds
<1> PICK d \in 0 .. max - 1 : d = Distance(from, to, max)
  BY DistanceType DEF Ring
<1> DEFINE b2 == [b EXCEPT ![to % size] = c]
           to2 == (to + 1) % max
           s == Between(b, size, max, from, to)
           s2 == Between(b2, size, max, from, to2)
<1>1. max \in Nat \ {0} /\ size \in Nat \ {0} /\ size < max /\ d < size
  BY DEF Ring
<1>2. to2 \in 0 .. max - 1 /\ to2 = IF to + 1 < max THEN to + 1 ELSE to + 1 - max
  BY <1>1, StepIs
<1>3. to % size \in 0 .. size - 1
  BY <1>1, ModRange
<1>4. b2 \in [0 .. size - 1 -> S] /\ b2[to % size] = c
      /\ \A x \in 0 .. size - 1 : x # to % size => b2[x] = b[x]
  BY <1>3
<1> HIDE DEF b2, to2
<1>5. Distance(from, to2, max) = d + 1
  <2>1. d = IF to >= from THEN to - from ELSE to - from + max
    BY <1>1, DistanceIs
  <2>2. Distance(from, to2, max) = IF to2 >= from THEN to2 - from ELSE to2 - from + max
    BY <1>1, <1>2, DistanceIs
  <2> QED
    BY <1>1, <1>2, <2>1, <2>2
<1>6. s \in Seq(S) /\ Len(s) = d /\ \A i \in 1 .. d : s[i] = b[(from + i - 1) % size]
  <2>1. Between(b, size, max, from, to) \in Seq(S)
    BY BetweenSeq
  <2>2. Len(Between(b, size, max, from, to)) = d
    BY <1>1, BetweenLen
  <2>3. \A i \in 1 .. d : Between(b, size, max, from, to)[i] = b[(from + i - 1) % size]
    BY DEF Between
  <2> QED
    BY <2>1, <2>2, <2>3
<1>7. s2 \in Seq(S) /\ Len(s2) = d + 1 /\ \A i \in 1 .. d + 1 : s2[i] = b2[(from + i - 1) % size]
  <2>1. Between(b2, size, max, from, to2) \in Seq(S)
    BY <1>2, <1>4, BetweenSeq
  <2>2. Len(Between(b2, size, max, from, to2)) = d + 1
    <3>1. Len(Between(b2, size, max, from, to2)) = Distance(from, to2, max)
      BY <1>1, <1>2, BetweenLen
    <3> QED
      BY <1>5, <3>1
  <2>3. \A i \in 1 .. d + 1 : Between(b2, size, max, from, to2)[i] = b2[(from + i - 1) % size]
    BY <1>5 DEF Between
  <2> QED
    BY <2>1, <2>2, <2>3
<1> HIDE DEF s, s2
<1>8. (from + d) % size = to % size
  BY LastSlot
<1>9. s2[d + 1] = c
  <2>1. from + (d + 1) - 1 = from + d /\ d + 1 \in 1 .. d + 1
    OBVIOUS
  <2> QED
    BY <1>4, <1>7, <1>8, <2>1
<1>10. ASSUME NEW i \in 1 .. d PROVE s2[i] = s[i]
  <2>1. PICK x \in Int, y \in Int : x = from + i - 1 /\ y = from + d
    OBVIOUS
  <2>2. x # y /\ x - y < size /\ y - x < size /\ i \in 1 .. d + 1
    BY <1>1, <2>1
  <2>3. x % size # y % size
    BY <1>1, <2>2, ModInjective
  <2>4. x % size \in 0 .. size - 1
    BY <1>1, ModRange
  <2>5. s2[i] = b2[x % size] /\ s[i] = b[x % size] /\ y % size = to % size
    BY <1>6, <1>7, <1>8, <2>1, <2>2
  <2> QED
    BY <1>4, <2>3, <2>4, <2>5
<1>11. s2 = Append(s, c)
  <2> DEFINE t == Append(s, c)
  <2>1. t \in Seq(S) /\ Len(t) = d + 1 /\ t[d + 1] = c /\ \A i \in 1 .. d : t[i] = s[i]
    BY <1>6, AppendProperties
  <2> HIDE DEF t
  <2>2. \A i \in 1 .. d + 1 : s2[i] = t[i]
    <3> TAKE i \in 1 .. d + 1
    <3>1. i = d + 1 \/ i \in 1 .. d
      OBVIOUS
    <3> QED
      BY <1>9, <1>10, <2>1, <3>1
  <2>3. s2 = t
    BY <1>7, <2>1, <2>2, SeqEqual
  <2> QED
    BY <2>3 DEF t
<1> QED
  BY <1>11 DEF b2, to2, s, s2, Put, Ahead

\* The first k entries go.
LEMMA DropSeq ==
  ASSUME NEW size, NEW max, Ring(size, max), NEW S, NEW b, Holds(b, size, S),
         NEW from \in 0 .. max - 1, NEW to \in 0 .. max - 1,
         NEW k \in 0 .. Distance(from, to, max), NEW fromn, fromn = Ahead(from, k, max)
  PROVE  Between(b, size, max, fromn, to)
           = SubSeq(Between(b, size, max, from, to), k + 1, Distance(from, to, max))
<1> b \in [0 .. size - 1 -> S]
  BY DEF Holds
<1>1. max \in Nat \ {0} /\ size \in Nat \ {0} /\ size < max
  BY DEF Ring
<1>2. PICK d \in 0 .. max - 1 : d = Distance(from, to, max)
  BY <1>1, DistanceType
<1>3. k \in 0 .. max /\ k \in 0 .. d /\ k \in Nat
  BY <1>1, <1>2
<1>4. PICK f2 \in 0 .. max - 1 : f2 = (from + k) % max /\ f2 = IF from + k < max THEN from + k ELSE from + k - max
  BY <1>1, <1>3, StepIs
<1>5. d = IF to >= from THEN to - from ELSE to - from + max
  BY <1>1, <1>2, DistanceIs
<1>6. Distance(from, f2, max) = k
  <2>1. Distance(from, f2, max) = IF f2 >= from THEN f2 - from ELSE f2 - from + max
    BY <1>1, DistanceIs
  <2> QED
    BY <1>1, <1>3, <1>4, <1>5, <2>1
<1>7. Distance(f2, to, max) = d - k
  <2>1. Distance(f2, to, max) = IF to >= f2 THEN to - f2 ELSE to - f2 + max
    BY <1>1, DistanceIs
  <2> QED
    BY <1>1, <1>3, <1>4, <1>5, <2>1
<1> DEFINE s == Between(b, size, max, from, to)
           s2 == Between(b, size, max, f2, to)
           t == SubSeq(s, k + 1, d)
<1>8. s \in Seq(S) /\ Len(s) = d /\ s2 \in Seq(S) /\ Len(s2) = d - k
  <2>1. Len(s) = Distance(from, to, max) /\ s \in Seq(S)
    <3>1. Len(s) = Distance(from, to, max)
      BY <1>1, BetweenLen
    <3>2. s \in Seq(S)
      BY BetweenSeq
    <3> QED
      BY <3>1, <3>2
  <2>2. Len(s2) = Distance(f2, to, max) /\ s2 \in Seq(S)
    <3>1. Len(s2) = Distance(f2, to, max)
      BY <1>1, BetweenLen
    <3>2. s2 \in Seq(S)
      BY BetweenSeq
    <3> QED
      BY <3>1, <3>2
  <2> QED
    BY <1>2, <1>7, <2>1, <2>2
<1>9. \A i \in 1 .. d : s[i] = b[(from + i - 1) % size]
  BY <1>2 DEF Between
<1>10. \A i \in 1 .. d - k : s2[i] = b[(f2 + i - 1) % size]
  BY <1>7 DEF Between
<1> HIDE DEF s, s2
<1>11. t \in Seq(S) /\ Len(t) = d - k /\ \A i \in 1 .. d - k : t[i] = s[k + i]
  <2>1. \A i \in k + 1 .. d : s[i] \in S
    BY <1>3, <1>8
  <2>2. k + 1 \in Int /\ d \in Int /\ \A i \in Nat : k + 1 + i - 1 = k + i
    BY <1>3
  <2>3. Len(t) = IF k + 1 <= d THEN d - (k + 1) + 1 ELSE 0
    BY <2>1, <2>2, SubSeqProperties
  <2>4. t \in Seq(S) /\ \A i \in 1 .. d - (k + 1) + 1 : t[i] = s[k + 1 + i - 1]
    BY <2>1, <2>2, SubSeqProperties
  <2>5. Len(t) = d - k /\ d - (k + 1) + 1 = d - k
    BY <1>3, <2>3
  <2> QED
    BY <2>2, <2>4, <2>5
<1> HIDE DEF t
<1>12. ASSUME NEW i \in 1 .. d - k PROVE s2[i] = t[i]
  <2>1. PICK j \in Nat : j = i - 1
    BY <1>3
  <2>2. (((from + k) % max) + j) % size = (from + k + j) % size
    BY <1>3, SlotWrap, Zenon
  <2>3. f2 + i - 1 = f2 + j /\ from + (k + i) - 1 = from + k + j /\ k + i \in 1 .. d
    BY <1>3, <2>1
  <2>4. s2[i] = b[(f2 + j) % size]
    BY <1>10, <2>3
  <2>5. t[i] = b[(from + k + j) % size]
    BY <1>9, <1>11, <2>3
  <2> QED
    BY <1>4, <2>2, <2>4, <2>5
<1>13. s2 = t
  BY <1>8, <1>11, <1>12, SeqEqual
<1> QED
  BY <1>2, <1>4, <1>13 DEF s, s2, t, Ahead

\* The last entry goes.
LEMMA ChopSeq ==
  ASSUME NEW size, NEW max, Ring(size, max), NEW S, NEW b, Holds(b, size, S),
         NEW from \in 0 .. max - 1, NEW to \in 0 .. max - 1, from # to,
         NEW ton, ton = Behind(to, max)
  PROVE  Between(b, size, max, from, ton)
           = SubSeq(Between(b, size, max, from, to), 1, Distance(from, to, max) - 1)
<1> b \in [0 .. size - 1 -> S]
  BY DEF Holds
<1>1. max \in Nat \ {0} /\ size \in Nat \ {0} /\ size < max
  BY DEF Ring
<1>2. PICK d \in 0 .. max - 1 : d = Distance(from, to, max)
  BY <1>1, DistanceType
<1>3. PICK t2 \in 0 .. max - 1 : t2 = (to - 1) % max /\ t2 = IF to = 0 THEN max - 1 ELSE to - 1
  BY <1>1, BackIs
<1>4. d = IF to >= from THEN to - from ELSE to - from + max
  BY <1>1, <1>2, DistanceIs
<1>5. Distance(from, t2, max) = d - 1 /\ d - 1 \in Nat
  <2>1. Distance(from, t2, max) = IF t2 >= from THEN t2 - from ELSE t2 - from + max
    BY <1>1, DistanceIs
  <2> QED
    BY <1>1, <1>3, <1>4, <2>1
<1> DEFINE s == Between(b, size, max, from, to)
           s2 == Between(b, size, max, from, t2)
           t == SubSeq(s, 1, d - 1)
<1>6. s \in Seq(S) /\ Len(s) = d /\ s2 \in Seq(S) /\ Len(s2) = d - 1
  <2>1. Len(s) = Distance(from, to, max) /\ s \in Seq(S)
    <3>1. Len(s) = Distance(from, to, max)
      BY <1>1, BetweenLen
    <3>2. s \in Seq(S)
      BY BetweenSeq
    <3> QED
      BY <3>1, <3>2
  <2>2. Len(s2) = Distance(from, t2, max) /\ s2 \in Seq(S)
    <3>1. Len(s2) = Distance(from, t2, max)
      BY <1>1, BetweenLen
    <3>2. s2 \in Seq(S)
      BY BetweenSeq
    <3> QED
      BY <3>1, <3>2
  <2> QED
    BY <1>2, <1>5, <2>1, <2>2
<1>7. \A i \in 1 .. d : s[i] = b[(from + i - 1) % size]
  BY <1>2 DEF Between
<1>8. \A i \in 1 .. d - 1 : s2[i] = b[(from + i - 1) % size]
  BY <1>5 DEF Between
<1> HIDE DEF s, s2
<1>9. t \in Seq(S) /\ Len(t) = d - 1 /\ \A i \in 1 .. d - 1 : t[i] = s[i]
  <2>1. \A i \in 1 .. d - 1 : s[i] \in S
    BY <1>5, <1>6
  <2>2. Len(t) = IF 1 <= d - 1 THEN d - 1 - 1 + 1 ELSE 0
    BY <1>5, <2>1, SubSeqProperties
  <2>3. t \in Seq(S) /\ \A i \in 1 .. d - 1 - 1 + 1 : t[i] = s[1 + i - 1]
    BY <1>5, <2>1, SubSeqProperties
  <2>4. Len(t) = d - 1 /\ d - 1 - 1 + 1 = d - 1 /\ \A i \in Nat : 1 + i - 1 = i
    BY <1>5, <2>2
  <2> QED
    BY <2>3, <2>4
<1> HIDE DEF t
<1>10. \A i \in 1 .. d - 1 : s2[i] = t[i]
  <2> TAKE i \in 1 .. d - 1
  <2>1. i \in 1 .. d
    BY <1>5
  <2> QED
    BY <1>7, <1>8, <1>9, <2>1
<1>11. s2 = t
  BY <1>6, <1>9, <1>10, SeqEqual
<1> QED
  BY <1>2, <1>3, <1>11 DEF s, s2, t, Behind

\* Entries from one index to a second and from there to a third.
LEMMA JoinSeq ==
  ASSUME NEW size, NEW max, Ring(size, max), NEW S, NEW b, Holds(b, size, S),
         NEW x \in 0 .. max - 1, NEW y \in 0 .. max - 1, NEW z \in 0 .. max - 1,
         Distance(x, y, max) + Distance(y, z, max) <= size
  PROVE  Between(b, size, max, x, z)
           = Between(b, size, max, x, y) \o Between(b, size, max, y, z)
<1> b \in [0 .. size - 1 -> S]
  BY DEF Holds
<1>1. max \in Nat \ {0} /\ size \in Nat \ {0} /\ size < max
  BY DEF Ring
<1>2. PICK c \in 0 .. max - 1 : c = Distance(x, y, max)
  BY <1>1, DistanceType
<1>3. PICK d \in 0 .. max - 1 : d = Distance(y, z, max)
  BY <1>1, DistanceType
<1>4. Distance(x, z, max) = c + d
  <2>1. c = IF y >= x THEN y - x ELSE y - x + max
    BY <1>1, <1>2, DistanceIs
  <2>2. d = IF z >= y THEN z - y ELSE z - y + max
    BY <1>1, <1>3, DistanceIs
  <2>3. Distance(x, z, max) = IF z >= x THEN z - x ELSE z - x + max
    BY <1>1, DistanceIs
  <2>4. c + d <= size
    BY <1>2, <1>3
  <2> QED
    BY <1>1, <2>1, <2>2, <2>3, <2>4
<1> DEFINE s == Between(b, size, max, x, y)
           t == Between(b, size, max, y, z)
           u == Between(b, size, max, x, z)
<1>5. s \in Seq(S) /\ Len(s) = c
  <2>1. s \in Seq(S)
    BY BetweenSeq
  <2>2. Len(s) = Distance(x, y, max)
    BY <1>1, BetweenLen
  <2> QED
    BY <1>2, <2>1, <2>2
<1>6. t \in Seq(S) /\ Len(t) = d
  <2>1. t \in Seq(S)
    BY BetweenSeq
  <2>2. Len(t) = Distance(y, z, max)
    BY <1>1, BetweenLen
  <2> QED
    BY <1>3, <2>1, <2>2
<1>7. u \in Seq(S) /\ Len(u) = c + d
  <2>1. u \in Seq(S)
    BY BetweenSeq
  <2>2. Len(u) = Distance(x, z, max)
    BY <1>1, BetweenLen
  <2> QED
    BY <1>4, <2>1, <2>2
<1>8. \A i \in 1 .. c : s[i] = b[(x + i - 1) % size]
  BY <1>2 DEF Between
<1>9. \A i \in 1 .. d : t[i] = b[(y + i - 1) % size]
  BY <1>3 DEF Between
<1>10. \A i \in 1 .. c + d : u[i] = b[(x + i - 1) % size]
  BY <1>4 DEF Between
<1> HIDE DEF s, t, u
<1>11. (x + c) % max = y
  BY <1>2, LastSlot
<1> DEFINE v == s \o t
<1>12. v \in Seq(S) /\ Len(v) = c + d /\ \A i \in 1 .. c + d : v[i] = IF i <= c THEN s[i] ELSE t[i - c]
  BY <1>5, <1>6, ConcatProperties
<1> HIDE DEF v
<1>13. ASSUME NEW i \in 1 .. c + d PROVE u[i] = v[i]
  <2>1. CASE i <= c
    BY <1>8, <1>10, <1>12, <2>1
  <2>2. CASE ~(i <= c)
    <3>1. PICK j \in Nat : j = i - c - 1
      BY <2>2
    <3>2. c \in 0 .. max
      BY <1>1
    <3>3. (((x + c) % max) + j) % size = (x + c + j) % size
      BY <3>2, SlotWrap, Zenon
    <3>4. i - c \in 1 .. d /\ y + (i - c) - 1 = y + j /\ x + i - 1 = x + c + j
      BY <2>2, <3>1
    <3>5. v[i] = b[(y + j) % size]
      BY <1>9, <1>12, <2>2, <3>4
    <3>6. u[i] = b[(x + c + j) % size]
      BY <1>10, <3>4
    <3> QED
      BY <1>11, <3>3, <3>5, <3>6
  <2> QED
    BY <2>1, <2>2
<1>14. u = v
  BY <1>7, <1>12, <1>13, SeqEqual
<1> QED
  BY <1>14 DEF s, t, u, v

\* A new entry behind the third index changes nothing between the first two.
LEMMA ElsewhereSeq ==
  ASSUME NEW size, NEW max, Ring(size, max), NEW S, NEW b, Holds(b, size, S), NEW v \in S,
         NEW x \in 0 .. max - 1, NEW y \in 0 .. max - 1, NEW z \in 0 .. max - 1,
         Distance(x, y, max) + Distance(y, z, max) < size,
         NEW bn, bn = Put(b, size, z, v)
  PROVE  Between(bn, size, max, x, y) = Between(b, size, max, x, y)
<1> b \in [0 .. size - 1 -> S]
  BY DEF Holds
<1>1. max \in Nat \ {0} /\ size \in Nat \ {0} /\ size < max
  BY DEF Ring
<1>2. PICK c \in 0 .. max - 1 : c = Distance(x, y, max)
  BY <1>1, DistanceType
<1>3. PICK d \in 0 .. max - 1 : d = Distance(y, z, max)
  BY <1>1, DistanceType
<1>4. c + d < size /\ Distance(x, z, max) = c + d
  <2>1. c + d < size
    BY <1>2, <1>3
  <2>2. Distance(x, y, max) + Distance(y, z, max) < max
    BY <1>1, <1>2, <1>3, <2>1
  <2>3. Distance(x, z, max) = Distance(x, y, max) + Distance(y, z, max)
    BY <1>1, <2>2, JoinDistance
  <2> QED
    BY <1>2, <1>3, <2>1, <2>3
<1>5. (x + (c + d)) % size = z % size
  BY <1>4, LastSlot
<1> DEFINE b2 == [b EXCEPT ![z % size] = v]
<1>6. \A i \in 0 .. size - 1 : i # z % size => b2[i] = b[i]
  OBVIOUS
<1> HIDE DEF b2
<1>7. ASSUME NEW i \in 1 .. c PROVE b2[(x + i - 1) % size] = b[(x + i - 1) % size]
  <2>1. PICK f \in Int, g \in Int : f = x + i - 1 /\ g = x + (c + d)
    OBVIOUS
  <2>2. f # g /\ f - g < size /\ g - f < size
    BY <1>1, <1>4, <2>1
  <2>3. f % size # g % size
    BY <1>1, <2>2, ModInjective
  <2>4. f % size \in 0 .. size - 1
    BY <1>1, ModRange
  <2> QED
    BY <1>5, <1>6, <2>1, <2>3, <2>4
<1>8. Between(b2, size, max, x, y) = [i \in 1 .. c |-> b2[(x + i - 1) % size]]
  BY <1>2 DEF Between
<1>9. Between(b, size, max, x, y) = [i \in 1 .. c |-> b[(x + i - 1) % size]]
  BY <1>2 DEF Between
<1> QED
  BY <1>7, <1>8, <1>9 DEF b2, Put

-----------------------------------------------------------------------------
(* The inductive invariant.  TypeOK and NothingStranded need that the      *)
(* indices of a ring are in order and never more than its size apart, and  *)
(* that a call has something left to do.                                   *)

OpType == [at : {"user", "read", "rsleep", "write", "wsleep"}, n : Nat, target : Nat, rest : Seq(Out)]

OpsOK(o) ==
  /\ o \in [Procs -> OpType]
  /\ \A p \in Procs : o[p].at \in {"read", "rsleep"} => 0 < o[p].n /\ o[p].n <= o[p].target
  /\ \A p \in Procs : o[p].at \in {"write", "wsleep"} => o[p].rest # <<>>

InputInOrder == Count(r, w) + Count(w, e) <= SIZE
OutputInOrder == Distance(txr, txw, TXUINT) <= TXSIZE

IInv == TypeOK /\ OpsOK(op) /\ InputInOrder /\ OutputInOrder /\ NothingStranded

LEMMA OpTypes == OpsOK(op) => \A p \in Procs :
         /\ op[p].at \in {"user", "read", "rsleep", "write", "wsleep"}
         /\ op[p].n \in Nat /\ op[p].target \in Nat
         /\ op[p].rest \in Seq(Out)
BY DEF OpsOK, OpType

\* What the parts of the state that the handlers change have to keep.
LEMMA Parts ==
  IInv <=> /\ buf \in [0 .. SIZE - 1 -> Chars] /\ txbuf \in [0 .. TXSIZE - 1 -> Out]
           /\ r \in 0 .. UINT - 1 /\ w \in 0 .. UINT - 1 /\ e \in 0 .. UINT - 1
           /\ txr \in 0 .. TXUINT - 1 /\ txw \in 0 .. TXUINT - 1
           /\ rx \in Seq(Keys) /\ Len(rx) <= FIFO
           /\ thr \in Out \cup {Echo, None} /\ txint \in BOOLEAN
           /\ intr \in {"no", "rx", "tx"} /\ echo \in 0 .. SIZE
           /\ killed \subseteq Readers
           /\ OpsOK(op) /\ InputInOrder /\ OutputInOrder
           /\ \A p \in Procs : op[p].at = "rsleep" => r = w /\ p \notin killed
           /\ \A p \in Procs : op[p].at = "wsleep" => TxFull
           /\ intr = "no" /\ txr # txw => thr # None \/ txint
<1>1. {r, w, e} \subseteq 0 .. UINT - 1 <=> r \in 0 .. UINT - 1 /\ w \in 0 .. UINT - 1 /\ e \in 0 .. UINT - 1
  OBVIOUS
<1>2. {txr, txw} \subseteq 0 .. TXUINT - 1 <=> txr \in 0 .. TXUINT - 1 /\ txw \in 0 .. TXUINT - 1
  OBVIOUS
<1> QED
  BY <1>1, <1>2, OpTypes, Zenon DEF IInv, TypeOK, NothingStranded, TxFull

LEMMA PartsNext ==
  IInv' <=> /\ buf' \in [0 .. SIZE - 1 -> Chars] /\ txbuf' \in [0 .. TXSIZE - 1 -> Out]
            /\ r' \in 0 .. UINT - 1 /\ w' \in 0 .. UINT - 1 /\ e' \in 0 .. UINT - 1
            /\ txr' \in 0 .. TXUINT - 1 /\ txw' \in 0 .. TXUINT - 1
            /\ rx' \in Seq(Keys) /\ Len(rx') <= FIFO
            /\ thr' \in Out \cup {Echo, None} /\ txint' \in BOOLEAN
            /\ intr' \in {"no", "rx", "tx"} /\ echo' \in 0 .. SIZE
            /\ killed' \subseteq Readers
            /\ OpsOK(op') /\ InputInOrder' /\ OutputInOrder'
            /\ \A p \in Procs : op'[p].at = "rsleep" => r' = w' /\ p \notin killed'
            /\ \A p \in Procs : op'[p].at = "wsleep" => TxFull'
            /\ intr' = "no" /\ txr' # txw' => thr' # None \/ txint'
<1>0. OpsOK(op') => \A p \in Procs :
         /\ op'[p].at \in {"user", "read", "rsleep", "write", "wsleep"}
         /\ op'[p].n \in Nat /\ op'[p].target \in Nat
         /\ op'[p].rest \in Seq(Out)
  BY DEF OpsOK, OpType
<1>1. {r', w', e'} \subseteq 0 .. UINT - 1 <=> r' \in 0 .. UINT - 1 /\ w' \in 0 .. UINT - 1 /\ e' \in 0 .. UINT - 1
  OBVIOUS
<1>2. {txr', txw'} \subseteq 0 .. TXUINT - 1 <=> txr' \in 0 .. TXUINT - 1 /\ txw' \in 0 .. TXUINT - 1
  OBVIOUS
<1> QED
  BY <1>0, <1>1, <1>2, Zenon DEF IInv, TypeOK, NothingStranded, TxFull

-----------------------------------------------------------------------------
(* Processes.                                                              *)

\* One process takes another place in its call.
LEMMA OpsSet ==
  ASSUME OpsOK(op), NEW p \in Procs, NEW o \in OpType,
         o.at \in {"read", "rsleep"} => 0 < o.n /\ o.n <= o.target,
         o.at \in {"write", "wsleep"} => o.rest # <<>>
  PROVE  OpsOK([op EXCEPT ![p] = o])
BY DEF OpsOK

LEMMA IdleType == Idle \in OpType /\ Idle.at = "user" /\ Idle.n = 0 /\ Idle.target = 0 /\ Idle.rest = <<>>
<1>1. <<>> \in Seq(Out)
  OBVIOUS
<1> QED
  BY <1>1 DEF Idle, OpType

LEMMA GotoIs ==
  ASSUME OpsOK(op), NEW p \in Procs,
         NEW where, \/ op[p].at = "read" /\ where = "rsleep"
                    \/ op[p].at = "write" /\ where = "wsleep"
  PROVE  /\ OpsOK(Goto(p, where))
         /\ \A q \in Procs : Goto(p, where)[q].at = IF q = p THEN where ELSE op[q].at
<1> DEFINE o == [op[p] EXCEPT !.at = where]
<1>1. Goto(p, where) = [op EXCEPT ![p] = o]
  BY DEF Goto, OpsOK
<1>2. op[p] \in OpType /\ op \in [Procs -> OpType]
  BY DEF OpsOK
<1>3. o \in OpType /\ o.at = where /\ o.n = op[p].n /\ o.target = op[p].target /\ o.rest = op[p].rest
  BY <1>2 DEF OpType
<1> HIDE DEF o
<1>4. OpsOK([op EXCEPT ![p] = o])
  BY <1>3, OpsSet DEF OpsOK
<1> QED
  BY <1>1, <1>2, <1>3, <1>4

\* wakeup() changes where the sleepers are and nothing else.
LEMMA WokenIs ==
  ASSUME NEW o, OpsOK(o), NEW chan, NEW to,
         \/ chan = "rsleep" /\ to = "read"
         \/ chan = "wsleep" /\ to = "write"
  PROVE  /\ OpsOK(Woken(o, chan, to))
         /\ \A q \in Procs : Woken(o, chan, to)[q].at = IF o[q].at = chan THEN to ELSE o[q].at
         /\ \A q \in Procs : o[q].at # chan => Woken(o, chan, to)[q] = o[q]
<1> DEFINE f == Woken(o, chan, to)
<1>1. f = [q \in Procs |-> IF o[q].at = chan THEN [o[q] EXCEPT !.at = to] ELSE o[q]]
  BY DEF Woken
<1> HIDE DEF f
<1>2. ASSUME NEW q \in Procs
      PROVE  /\ f[q] \in OpType
             /\ f[q].at = IF o[q].at = chan THEN to ELSE o[q].at
             /\ f[q].n = o[q].n /\ f[q].target = o[q].target /\ f[q].rest = o[q].rest
             /\ o[q].at # chan => f[q] = o[q]
  <2>1. o[q] \in OpType
    BY DEF OpsOK
  <2> QED
    BY <1>1, <2>1 DEF OpType
<1>3. f \in [Procs -> OpType]
  BY <1>1, <1>2
<1>4. ASSUME NEW q \in Procs, f[q].at \in {"read", "rsleep"} PROVE 0 < f[q].n /\ f[q].n <= f[q].target
  <2>1. o[q].at \in {"read", "rsleep"}
    BY <1>2, <1>4
  <2> QED
    BY <1>2, <2>1 DEF OpsOK
<1>5. ASSUME NEW q \in Procs, f[q].at \in {"write", "wsleep"} PROVE f[q].rest # <<>>
  <2>1. o[q].at \in {"write", "wsleep"}
    BY <1>2, <1>5
  <2> QED
    BY <1>2, <2>1 DEF OpsOK
<1>6. OpsOK(f)
  BY <1>3, <1>4, <1>5 DEF OpsOK
<1> QED
  BY <1>2, <1>6 DEF f

LEMMA TxFullIs ==
  ASSUME txr \in 0 .. TXUINT - 1, txw \in 0 .. TXUINT - 1
  PROVE  TxFull <=> Distance(txr, txw, TXUINT) = TXSIZE
<1>1. TXUINT \in Nat \ {0} /\ TXSIZE \in Nat /\ TXSIZE < TXUINT /\ TXSIZE \in 0 .. TXUINT
  BY ConsoleAssumption
<1>2. Distance(txr, txw, TXUINT) = IF txw >= txr THEN txw - txr ELSE txw - txr + TXUINT
  BY <1>1, DistanceIs
<1>3. (txr + TXSIZE) % TXUINT = IF txr + TXSIZE < TXUINT THEN txr + TXSIZE ELSE txr + TXSIZE - TXUINT
  BY <1>1, StepIs
<1> QED
  BY <1>1, <1>2, <1>3 DEF TxFull

-----------------------------------------------------------------------------
(* The steps of the device and of the handler.                             *)

LEMMA SameInput ==
  ASSUME InputInOrder, UNCHANGED <<r, w, e>>
  PROVE  InputInOrder'
BY DEF InputInOrder, Count, Distance

LEMMA SameOutput ==
  ASSUME OutputInOrder, UNCHANGED <<txr, txw>>
  PROVE  OutputInOrder' /\ TxFull' = TxFull
BY DEF OutputInOrder, Distance, TxFull

LEMMA DevReceiveInv ==
  ASSUME IInv, NEW c \in Keys, DevReceive(c)
  PROVE  IInv'
<1>1. Len(rx) < FIFO /\ rx' = Append(rx, c) /\ UNCHANGED <<buf, r, w, e, txbuf, txr, txw, thr, txint, intr, echo, op, killed>>
  BY DEF DevReceive, cons, tx
<1>2. rx \in Seq(Keys) /\ FIFO \in Nat
  BY Parts, ProgramAssumption
<1>3. rx' \in Seq(Keys) /\ Len(rx') <= FIFO
  BY <1>1, <1>2
<1>4. InputInOrder' /\ OutputInOrder' /\ TxFull' = TxFull
  BY <1>1, Parts, SameInput, SameOutput
<1> QED
  BY <1>1, <1>3, <1>4, Parts, PartsNext, Zenon

LEMMA DevSendInv ==
  ASSUME IInv, DevSend
  PROVE  IInv'
<1>1. thr' = None /\ txint' = TRUE /\ UNCHANGED <<buf, r, w, e, txbuf, txr, txw, rx, intr, echo, op, killed>>
  BY DEF DevSend, cons, tx
<1>2. InputInOrder' /\ OutputInOrder' /\ TxFull' = TxFull
  BY <1>1, Parts, SameInput, SameOutput
<1>3. thr' \in Out \cup {Echo, None} /\ txint' \in BOOLEAN /\ txint'
  BY <1>1
<1> QED
  BY <1>1, <1>2, <1>3, Parts, PartsNext, Zenon

LEMMA UartInterruptInv ==
  ASSUME IInv, UartInterrupt
  PROVE  IInv'
<1>1. intr' = "rx" /\ UNCHANGED <<buf, r, w, e, txbuf, txr, txw, rx, thr, txint, echo, op, killed>>
  BY DEF UartInterrupt, cons, tx
<1>2. InputInOrder' /\ OutputInOrder' /\ TxFull' = TxFull
  BY <1>1, Parts, SameInput, SameOutput
<1>3. intr' \in {"no", "rx", "tx"} /\ intr' # "no"
  BY <1>1
<1> QED
  BY <1>1, <1>2, <1>3, Parts, PartsNext, Zenon

LEMMA uartintrRestInv ==
  ASSUME IInv, uartintrRest
  PROVE  IInv'
<1>1. intr' = "tx" /\ UNCHANGED <<buf, r, w, e, txbuf, txr, txw, rx, thr, txint, echo, op, killed>>
  BY DEF uartintrRest, cons, tx
<1>2. InputInOrder' /\ OutputInOrder' /\ TxFull' = TxFull
  BY <1>1, Parts, SameInput, SameOutput
<1>3. intr' \in {"no", "rx", "tx"} /\ intr' # "no"
  BY <1>1
<1> QED
  BY <1>1, <1>2, <1>3, Parts, PartsNext, Zenon

LEMMA uartputc_syncInv ==
  ASSUME IInv, uartputc_sync
  PROVE  IInv'
<1>1. /\ echo > 0 /\ thr' = Echo /\ txint' = FALSE /\ echo' = echo - 1
      /\ UNCHANGED <<buf, r, w, e, txbuf, txr, txw, rx, intr, op, killed>>
  BY DEF uartputc_sync, cons, tx
<1>2. InputInOrder' /\ OutputInOrder' /\ TxFull' = TxFull
  BY <1>1, Parts, SameInput, SameOutput
<1>3. thr' \in Out \cup {Echo, None} /\ txint' \in BOOLEAN /\ thr' # None
  BY <1>1, ProgramAssumption
<1>4. echo' \in 0 .. SIZE
  <2>1. echo \in 0 .. SIZE /\ SIZE \in Nat
    BY Parts, ConsoleAssumption
  <2> QED
    BY <1>1, <2>1
<1> QED
  BY <1>1, <1>2, <1>3, <1>4, Parts, PartsNext, Zenon

\* The keys that are neither Backspace nor Control-U: the ring has room or the
\* key is lost.
LEMMA StoreInv ==
  ASSUME IInv, NEW c \in Chars, Store(c), rx' \in Seq(Keys), Len(rx') <= FIFO,
         UNCHANGED <<r, txbuf, txr, txw, thr, txint, intr, killed>>
  PROVE  IInv'
<1>0. /\ buf \in [0 .. SIZE - 1 -> Chars] /\ UINT \in Nat \ {0} /\ SIZE \in Nat \ {0} /\ SIZE < UINT
      /\ r \in 0 .. UINT - 1 /\ w \in 0 .. UINT - 1 /\ e \in 0 .. UINT - 1
      /\ OpsOK(op) /\ InputInOrder /\ OutputInOrder
      /\ \A p \in Procs : op[p].at = "rsleep" => r = w /\ p \notin killed
      /\ \A p \in Procs : op[p].at = "wsleep" => TxFull
  BY Parts, ConsoleAssumption
<1>1. OutputInOrder' /\ TxFull' = TxFull
  BY <1>0, SameOutput
<1>2. CASE Count(r, e) < SIZE
  <2>1. buf' = [buf EXCEPT ![e % SIZE] = c] /\ e' = (e + 1) % UINT /\ echo' = 1
    BY <1>2 DEF Store
  <2>2. PICK x \in 0 .. UINT - 1 : x = Count(r, w)
    BY <1>0, DistanceType DEF Count
  <2>3. PICK y \in 0 .. UINT - 1 : y = Count(w, e)
    BY <1>0, DistanceType DEF Count
  <2>4. x + y <= SIZE
    BY <1>0, <2>2, <2>3 DEF InputInOrder
  <2>5. Count(r, e) = x + y
    <3>1. Distance(r, w, UINT) + Distance(w, e, UINT) < UINT
      BY <1>0, <2>2, <2>3, <2>4 DEF Count
    <3>2. Distance(r, e, UINT) = Distance(r, w, UINT) + Distance(w, e, UINT)
      BY <1>0, <3>1, JoinDistance
    <3> QED
      BY <2>2, <2>3, <3>2 DEF Count
  <2>6. x + y < SIZE /\ x + y + 1 < UINT /\ y + 1 < UINT
    BY <1>0, <1>2, <2>5
  <2>7. buf' \in [0 .. SIZE - 1 -> Chars] /\ e' \in 0 .. UINT - 1 /\ Count(r, e') = x + y + 1
    <3>1. buf' \in [0 .. SIZE - 1 -> Chars]
      BY <1>0, <2>1
    <3>2. Distance(r, e, UINT) + 1 < UINT
      BY <2>5, <2>6 DEF Count
    <3> QED
      BY <1>0, <2>1, <2>5, <3>1, <3>2, PushDistance DEF Count
  <2>8. Count(w, e') = y + 1
    <3>1. Distance(w, e, UINT) + 1 < UINT
      BY <2>3, <2>6 DEF Count
    <3> QED
      BY <1>0, <2>1, <2>3, <3>1, PushDistance DEF Count
  <2>9. echo' \in 0 .. SIZE
    BY <1>0, <2>1
  <2>10. CASE Ends(c)
    <3>1. w' = e' /\ op' = Woken(op, "rsleep", "read")
      BY <1>2, <2>10 DEF Store
    <3>2. /\ OpsOK(op')
          /\ \A q \in Procs : op'[q].at = IF op[q].at = "rsleep" THEN "read" ELSE op[q].at
      BY <1>0, <3>1, WokenIs
    <3>3. Count(r, w)' = x + y + 1 /\ Count(w, e)' = 0
      <4>1. Distance(e', e', UINT) = 0
        BY <1>0, <2>7, DistanceType
      <4> QED
        BY <2>7, <3>1, <4>1 DEF Count
    <3>4. InputInOrder'
      BY <1>0, <2>6, <3>3 DEF InputInOrder
    <3>5. \A p \in Procs : op'[p].at # "rsleep" /\ (op'[p].at = "wsleep" => TxFull')
      BY <1>0, <1>1, <3>2
    <3> QED
      BY <1>0, <1>1, <2>7, <2>9, <3>1, <3>2, <3>4, <3>5, Parts, PartsNext, Zenon
  <2>11. CASE ~Ends(c)
    <3>1. w' = w /\ op' = op
      BY <1>2, <2>11 DEF Store
    <3>2. Count(r, w)' = x /\ Count(w, e)' = y + 1
      BY <2>2, <2>8, <3>1 DEF Count
    <3>3. InputInOrder'
      BY <1>0, <2>6, <3>2 DEF InputInOrder
    <3> QED
      BY <1>0, <1>1, <2>7, <2>9, <3>1, <3>3, Parts, PartsNext, Zenon
  <2> QED
    BY <2>10, <2>11
<1>3. CASE ~(Count(r, e) < SIZE)
  <2>1. UNCHANGED <<buf, e, echo, w, op>>
    BY <1>3 DEF Store
  <2>2. InputInOrder'
    BY <1>0, <2>1, SameInput
  <2> QED
    BY <1>1, <2>1, <2>2, Parts, PartsNext, Zenon
<1> QED
  BY <1>2, <1>3

LEMMA EraseInv ==
  ASSUME IInv, KillLine \/ Backspace, rx' \in Seq(Keys), Len(rx') <= FIFO,
         UNCHANGED <<r, txbuf, txr, txw, thr, txint, intr, killed>>
  PROVE  IInv'
<1>0. /\ buf \in [0 .. SIZE - 1 -> Chars] /\ UINT \in Nat \ {0} /\ SIZE \in Nat \ {0} /\ SIZE < UINT
      /\ r \in 0 .. UINT - 1 /\ w \in 0 .. UINT - 1 /\ e \in 0 .. UINT - 1
      /\ InputInOrder /\ OutputInOrder
  BY Parts, ConsoleAssumption
<1>1. OutputInOrder' /\ TxFull' = TxFull
  BY <1>0, SameOutput
<1>2. PICK x \in 0 .. UINT - 1 : x = Count(r, w)
  BY <1>0, DistanceType DEF Count
<1>3. PICK y \in 0 .. UINT - 1 : y = Count(w, e)
  BY <1>0, DistanceType DEF Count
<1>4. x + y <= SIZE
  BY <1>0, <1>2, <1>3 DEF InputInOrder
<1>5. UNCHANGED <<buf, w, op>>
  BY DEF KillLine, Backspace
<1>6. CASE KillLine
  <2>1. e' = w /\ echo' = y
    BY <1>3, <1>6 DEF KillLine
  <2>2. Count(r, w)' = x /\ Count(w, e)' = 0
    <3>1. Distance(w, w, UINT) = 0
      BY <1>0, DistanceType
    <3> QED
      BY <1>2, <1>5, <2>1, <3>1 DEF Count
  <2>3. InputInOrder' /\ echo' \in 0 .. SIZE /\ e' \in 0 .. UINT - 1
    BY <1>0, <1>4, <2>1, <2>2 DEF InputInOrder
  <2> QED
    BY <1>1, <1>5, <2>3, Parts, PartsNext, Zenon
<1>7. CASE Backspace /\ e # w
  <2>1. e' = (e - 1) % UINT /\ echo' = 1
    BY <1>7 DEF Backspace
  <2>2. e' \in 0 .. UINT - 1 /\ Distance(w, e', UINT) = y - 1
    BY <1>0, <1>3, <1>7, <2>1, ChopDistance DEF Count
  <2>3. Count(r, w)' = x /\ Count(w, e)' = y - 1
    BY <1>2, <1>5, <2>2 DEF Count
  <2>4. InputInOrder' /\ echo' \in 0 .. SIZE
    BY <1>0, <1>4, <2>1, <2>3 DEF InputInOrder
  <2> QED
    BY <1>1, <1>5, <2>2, <2>4, Parts, PartsNext, Zenon
<1>8. CASE Backspace /\ e = w
  <2>1. UNCHANGED <<e, echo>>
    BY <1>8 DEF Backspace
  <2>2. InputInOrder'
    BY <1>0, <1>5, <2>1, SameInput
  <2> QED
    BY <1>1, <1>5, <2>1, <2>2, Parts, PartsNext, Zenon
<1> QED
  BY <1>6, <1>7, <1>8

LEMMA consoleintrIs ==
  ASSUME IInv, consoleintr
  PROVE  /\ rx' \in Seq(Keys) /\ Len(rx') <= FIFO
         /\ UNCHANGED <<r, txbuf, txr, txw, thr, txint, intr, killed>>
         /\ KillLine \/ Backspace \/ \E c \in Chars : Store(c)
<1>1. rx \in Seq(Keys) /\ Len(rx) <= FIFO /\ rx # <<>> /\ rx' = Tail(rx) /\ FIFO \in Nat
  BY Parts, ProgramAssumption DEF consoleintr
<1>2. Head(rx) \in Keys /\ rx' \in Seq(Keys) /\ Len(rx') <= FIFO
  BY <1>1
<1>3. KillLine \/ Backspace \/ \E c \in Chars : Store(c)
  <2>1. CASE Head(rx) = "U"
    BY <2>1 DEF consoleintr
  <2>2. CASE Head(rx) = "H"
    BY <2>2 DEF consoleintr
  <2>3. CASE Head(rx) = "cr"
    BY <2>3 DEF consoleintr, Chars
  <2>4. CASE Head(rx) \in {"a", "D"}
    BY <2>4 DEF consoleintr, Chars
  <2> QED
    BY <1>2, <2>1, <2>2, <2>3, <2>4 DEF Keys
<1> QED
  BY <1>2, <1>3 DEF consoleintr, tx

\* uartstart() from a ring that is in order: a character that stays has a busy
\* transmitter, and writers sleep on if the ring stays full.
LEMMA uartstartIs ==
  ASSUME IInv, NEW tb \in [0 .. TXSIZE - 1 -> Out], NEW tw \in 0 .. TXUINT - 1, NEW o, OpsOK(o),
         Distance(txr, tw, TXUINT) <= TXSIZE, txw' = tw, txbuf' = tb,
         uartstart(tb, txr, tw, o)
  PROVE  /\ txr' \in 0 .. TXUINT - 1 /\ OutputInOrder'
         /\ thr' \in Out \cup {Echo, None} /\ txint' \in BOOLEAN
         /\ OpsOK(op') /\ \A q \in Procs : op'[q].at \in {o[q].at, "write"}
         /\ \A q \in Procs : op'[q].at = "rsleep" => o[q].at = "rsleep"
         /\ \A q \in Procs : op'[q].at = "wsleep" => o[q].at = "wsleep" /\ txr' = txr
         /\ txr' # txw' => thr' # None
         /\ \A q \in Procs : o[q].at # "wsleep" => op'[q] = o[q]
<1>0. /\ txr \in 0 .. TXUINT - 1 /\ thr \in Out \cup {Echo, None} /\ txint \in BOOLEAN
      /\ TXUINT \in Nat \ {0} /\ TXSIZE \in Nat \ {0} /\ TXSIZE < TXUINT
  BY Parts, ConsoleAssumption
<1>1. CASE tw # txr /\ thr = None
  <2>1. thr' = tb[txr % TXSIZE] /\ txr' = (txr + 1) % TXUINT /\ txint' = FALSE /\ op' = Woken(o, "wsleep", "write")
    BY <1>1 DEF uartstart
  <2>2. txr % TXSIZE \in 0 .. TXSIZE - 1
    BY <1>0, ModRange
  <2>3. thr' \in Out /\ thr' # None
    BY <2>1, <2>2, ProgramAssumption
  <2>4. PICK d \in 0 .. TXUINT - 1 : d = Distance(txr, tw, TXUINT) /\ d # 0
    BY <1>0, <1>1, DistanceType
  <2>5. 1 \in 0 .. Distance(txr, tw, TXUINT)
    BY <2>4
  <2>6. txr' \in 0 .. TXUINT - 1 /\ Distance(txr', tw, TXUINT) = d - 1
    BY <1>0, <2>1, <2>4, <2>5, DropDistance
  <2>7. OutputInOrder'
    BY <1>0, <2>4, <2>6 DEF OutputInOrder
  <2>8. /\ OpsOK(op') /\ \A q \in Procs : op'[q].at = IF o[q].at = "wsleep" THEN "write" ELSE o[q].at
        /\ \A q \in Procs : o[q].at # "wsleep" => op'[q] = o[q]
    BY <2>1, WokenIs
  <2> QED
    BY <2>1, <2>3, <2>6, <2>7, <2>8
<1>2. CASE ~(tw # txr /\ thr = None)
  <2>1. txint' = (txint /\ tw # txr) /\ op' = o /\ UNCHANGED <<thr, txr>>
    BY <1>2 DEF uartstart
  <2>2. OutputInOrder' /\ txr' \in 0 .. TXUINT - 1
    BY <1>0, <2>1 DEF OutputInOrder
  <2>3. thr' \in Out \cup {Echo, None} /\ txint' \in BOOLEAN /\ (txr' # txw' => thr' # None)
    BY <1>0, <1>2, <2>1
  <2> QED
    BY <2>1, <2>2, <2>3
<1> QED
  BY <1>1, <1>2

LEMMA uartintrEndInv ==
  ASSUME IInv, uartintrEnd
  PROVE  IInv'
<1>1. intr' = "no" /\ uartstart(txbuf, txr, txw, op) /\ UNCHANGED <<buf, r, w, e, txbuf, txw, rx, echo, killed>>
  BY DEF uartintrEnd, cons
<1>2. /\ txbuf \in [0 .. TXSIZE - 1 -> Out] /\ txw \in 0 .. TXUINT - 1 /\ OpsOK(op)
      /\ Distance(txr, txw, TXUINT) <= TXSIZE
  BY Parts DEF OutputInOrder
<1>3. /\ txr' \in 0 .. TXUINT - 1 /\ OutputInOrder'
      /\ thr' \in Out \cup {Echo, None} /\ txint' \in BOOLEAN
      /\ OpsOK(op')
      /\ \A q \in Procs : op'[q].at = "rsleep" => op[q].at = "rsleep"
      /\ \A q \in Procs : op'[q].at = "wsleep" => op[q].at = "wsleep" /\ txr' = txr
      /\ txr' # txw' => thr' # None
  BY <1>1, <1>2, uartstartIs
<1>4. InputInOrder'
  BY <1>1, Parts, SameInput
<1>5. \A q \in Procs : op'[q].at = "wsleep" => TxFull'
  BY <1>1, <1>3, Parts DEF TxFull
<1>6. intr' \in {"no", "rx", "tx"}
  BY <1>1
<1> QED
  BY <1>1, <1>3, <1>4, <1>5, <1>6, Parts, PartsNext, Zenon

-----------------------------------------------------------------------------
(* The steps of processes.                                                 *)

LEMMA sys_readInv ==
  ASSUME IInv, NEW p \in Readers, sys_read(p)
  PROVE  IInv'
<1>1. PICK n \in ReadSizes :
        /\ op' = [op EXCEPT ![p] = [Idle EXCEPT !.at = "read", !.n = n, !.target = n]]
        /\ UNCHANGED <<buf, r, w, e, txbuf, txr, txw, rx, thr, txint, intr, echo, killed>>
  BY DEF sys_read, cons, tx
<1>2. p \in Procs /\ n \in Nat \ {0} /\ OpsOK(op)
  BY Parts, ProgramAssumption DEF Procs
<1> DEFINE o == [Idle EXCEPT !.at = "read", !.n = n, !.target = n]
<1>3. o \in OpType /\ o.at = "read" /\ o.n = n /\ o.target = n
  BY <1>2, IdleType DEF OpType
<1> HIDE DEF o
<1>4. OpsOK([op EXCEPT ![p] = o])
  BY <1>2, <1>3, OpsSet
<1>5. op' = [op EXCEPT ![p] = o]
  BY <1>1 DEF o
<1>6. \A q \in Procs : op'[q].at = IF q = p THEN "read" ELSE op[q].at
  BY <1>2, <1>3, <1>5 DEF OpsOK
<1>7. InputInOrder' /\ OutputInOrder' /\ TxFull' = TxFull
  BY <1>1, Parts, SameInput, SameOutput
<1>8. /\ \A q \in Procs : op'[q].at = "rsleep" => r' = w' /\ q \notin killed'
      /\ \A q \in Procs : op'[q].at = "wsleep" => TxFull'
  BY <1>1, <1>6, <1>7, Parts
<1> QED
  BY <1>1, <1>4, <1>5, <1>7, <1>8, Parts, PartsNext, Zenon

LEMMA sys_writeInv ==
  ASSUME IInv, NEW p \in Writers, sys_write(p)
  PROVE  IInv'
<1>1. PICK s \in Payloads :
        /\ op' = [op EXCEPT ![p] = [Idle EXCEPT !.at = "write", !.rest = s]]
        /\ UNCHANGED <<buf, r, w, e, txbuf, txr, txw, rx, thr, txint, intr, echo, killed>>
  BY DEF sys_write, cons, tx
<1>2. p \in Procs /\ s \in Seq(Out) /\ s # <<>> /\ OpsOK(op)
  BY Parts, ProgramAssumption DEF Procs
<1> DEFINE o == [Idle EXCEPT !.at = "write", !.rest = s]
<1>3. o \in OpType /\ o.at = "write" /\ o.rest = s
  BY <1>2, IdleType DEF OpType
<1> HIDE DEF o
<1>4. OpsOK([op EXCEPT ![p] = o])
  BY <1>2, <1>3, OpsSet
<1>5. op' = [op EXCEPT ![p] = o]
  BY <1>1 DEF o
<1>6. \A q \in Procs : op'[q].at = IF q = p THEN "write" ELSE op[q].at
  BY <1>2, <1>3, <1>5 DEF OpsOK
<1>7. InputInOrder' /\ OutputInOrder' /\ TxFull' = TxFull
  BY <1>1, Parts, SameInput, SameOutput
<1>8. /\ \A q \in Procs : op'[q].at = "rsleep" => r' = w' /\ q \notin killed'
      /\ \A q \in Procs : op'[q].at = "wsleep" => TxFull'
  BY <1>1, <1>6, <1>7, Parts
<1> QED
  BY <1>1, <1>4, <1>5, <1>7, <1>8, Parts, PartsNext, Zenon

\* Back to the program.
LEMMA ToUser ==
  ASSUME OpsOK(op), NEW p \in Procs, op' = [op EXCEPT ![p] = Idle]
  PROVE  /\ OpsOK(op') /\ \A q \in Procs : op'[q].at = IF q = p THEN "user" ELSE op[q].at
         /\ \A q \in Procs : q # p => op'[q] = op[q]
<1>1. OpsOK([op EXCEPT ![p] = Idle])
  BY IdleType, OpsSet
<1> QED
  BY <1>1, IdleType DEF OpsOK

LEMMA WriteFaultInv ==
  ASSUME IInv, NEW p \in Writers, WriteFault(p)
  PROVE  IInv'
<1>1. op' = [op EXCEPT ![p] = Idle] /\ UNCHANGED <<buf, r, w, e, txbuf, txr, txw, rx, thr, txint, intr, echo, killed>>
  BY DEF WriteFault, cons, tx
<1>2. OpsOK(op') /\ \A q \in Procs : op'[q].at = IF q = p THEN "user" ELSE op[q].at
  BY <1>1, Parts, ToUser DEF Procs
<1>3. InputInOrder' /\ OutputInOrder' /\ TxFull' = TxFull
  BY <1>1, Parts, SameInput, SameOutput
<1>4. /\ \A q \in Procs : op'[q].at = "rsleep" => r' = w' /\ q \notin killed'
      /\ \A q \in Procs : op'[q].at = "wsleep" => TxFull'
  BY <1>1, <1>2, <1>3, Parts
<1> QED
  BY <1>1, <1>2, <1>3, <1>4, Parts, PartsNext, Zenon

LEMMA killInv ==
  ASSUME IInv, NEW p \in Procs, kill(p)
  PROVE  IInv'
<1>1. /\ killed' = IF p \in Readers THEN killed \cup {p} ELSE killed
      /\ op' = [op EXCEPT ![p].at = CASE @ = "rsleep" -> "read" [] @ = "wsleep" -> "write" [] OTHER -> @]
      /\ UNCHANGED <<buf, r, w, e, txbuf, txr, txw, rx, thr, txint, intr, echo>>
  BY DEF kill, cons, tx
<1>2. OpsOK(op) /\ op[p] \in OpType /\ op \in [Procs -> OpType]
  BY Parts DEF OpsOK
<1> DEFINE a == CASE op[p].at = "rsleep" -> "read" [] op[p].at = "wsleep" -> "write" [] OTHER -> op[p].at
           o == [op[p] EXCEPT !.at = a]
<1>3. /\ op[p].at = "rsleep" => a = "read"
      /\ op[p].at = "wsleep" => a = "write"
      /\ op[p].at \notin {"rsleep", "wsleep"} => a = op[p].at
  OBVIOUS
<1>4. op' = [op EXCEPT ![p] = o]
  BY <1>1, <1>2
<1> HIDE DEF a
<1>5. o \in OpType /\ o.at = a /\ o.n = op[p].n /\ o.target = op[p].target /\ o.rest = op[p].rest
  BY <1>2, <1>3 DEF OpType
<1> HIDE DEF o
<1>6. /\ o.at \in {"read", "rsleep"} => 0 < o.n /\ o.n <= o.target
      /\ o.at \in {"write", "wsleep"} => o.rest # <<>>
  BY <1>2, <1>3, <1>5 DEF OpsOK
<1>7. OpsOK(op') /\ \A q \in Procs : op'[q].at = IF q = p THEN a ELSE op[q].at
  BY <1>2, <1>4, <1>5, <1>6, OpsSet
<1>8. a # "rsleep" /\ a # "wsleep"
  BY <1>3
<1>9. InputInOrder' /\ OutputInOrder' /\ TxFull' = TxFull
  BY <1>1, Parts, SameInput, SameOutput
<1>10. /\ \A q \in Procs : op'[q].at = "rsleep" => r' = w' /\ q \notin killed'
       /\ \A q \in Procs : op'[q].at = "wsleep" => TxFull'
  BY <1>1, <1>7, <1>8, <1>9, Parts
<1>11. killed' \subseteq Readers
  BY <1>1, Parts
<1> QED
  BY <1>1, <1>7, <1>9, <1>10, <1>11, Parts, PartsNext, Zenon

LEMMA uartputcInv ==
  ASSUME IInv, NEW p \in Writers, uartputc(p)
  PROVE  IInv'
<1>0. /\ p \in Procs /\ OpsOK(op) /\ op[p].at = "write" /\ intr = "no" /\ op[p].rest # <<>> /\ op[p].rest \in Seq(Out)
      /\ txr \in 0 .. TXUINT - 1 /\ txw \in 0 .. TXUINT - 1 /\ txbuf \in [0 .. TXSIZE - 1 -> Out]
      /\ OutputInOrder /\ InputInOrder
      /\ TXUINT \in Nat \ {0} /\ TXSIZE \in Nat \ {0} /\ TXSIZE < TXUINT
      /\ \A q \in Procs : op[q].at = "rsleep" => r = w /\ q \notin killed
      /\ \A q \in Procs : op[q].at = "wsleep" => TxFull
  <2>1. p \in Procs /\ OpsOK(op) /\ op[p].at = "write" /\ intr = "no"
    BY Parts DEF uartputc, Is, Procs
  <2>2. op[p].rest # <<>> /\ op[p].rest \in Seq(Out)
    BY <2>1, OpTypes DEF OpsOK
  <2> QED
    BY <2>1, <2>2, Parts, ConsoleAssumption
<1>1. UNCHANGED <<buf, r, w, e, rx, intr, echo, killed>>
  BY DEF uartputc, cons
<1>2. InputInOrder'
  BY <1>0, <1>1, SameInput
<1>3. CASE TxFull
  <2>1. op' = Goto(p, "wsleep") /\ UNCHANGED <<txbuf, txr, txw, thr, txint>>
    BY <1>3 DEF uartputc, tx
  <2>2. OpsOK(op') /\ \A q \in Procs : op'[q].at = IF q = p THEN "wsleep" ELSE op[q].at
    BY <1>0, <2>1, GotoIs
  <2>3. OutputInOrder' /\ TxFull' = TxFull
    BY <1>0, <2>1, SameOutput
  <2>4. /\ \A q \in Procs : op'[q].at = "rsleep" => r' = w' /\ q \notin killed'
        /\ \A q \in Procs : op'[q].at = "wsleep" => TxFull'
    BY <1>0, <1>1, <1>3, <2>2, <2>3
  <2> QED
    BY <1>1, <1>2, <2>1, <2>2, <2>3, <2>4, Parts, PartsNext, Zenon
<1>4. CASE ~TxFull
  <2> DEFINE c == Head(op[p].rest)
             tb == [txbuf EXCEPT ![txw % TXSIZE] = c]
             last == Len(op[p].rest) = 1
             o == IF last THEN Idle ELSE [op[p] EXCEPT !.rest = Tail(op[p].rest)]
  <2>1. txbuf' = tb /\ txw' = (txw + 1) % TXUINT /\ uartstart(tb, txr, txw', [op EXCEPT ![p] = o])
    BY <1>4 DEF uartputc
  <2>2. c \in Out
    BY <1>0
  <2>3. tb \in [0 .. TXSIZE - 1 -> Out]
    BY <1>0, <2>2
  <2>4. o \in OpType /\ o.at \in {"user", "write"} /\ (o.at = "write" => o.rest # <<>>)
    <3>1. CASE last
      BY <3>1, IdleType
    <3>2. CASE ~last
      <4>1. Tail(op[p].rest) \in Seq(Out) /\ Tail(op[p].rest) # <<>>
        <5>1. PICK s \in Seq(Out) : s = op[p].rest /\ s # <<>> /\ Len(s) # 1
          BY <1>0, <3>2
        <5>2. Len(s) > 1
          <6>1. Len(s) # 0 /\ Len(s) \in Nat
            BY <5>1, EmptySeq
          <6>2. \A n \in Nat : n # 0 /\ n # 1 => n > 1
            OBVIOUS
          <6>3. Len(s) # 1
            BY <5>1
          <6> QED
            BY <6>1, <6>2, <6>3
        <5>3. Tail(s) \in Seq(Out) /\ Len(Tail(s)) = Len(s) - 1
          BY <5>1
        <5>4. Tail(s) # <<>>
          <6>1. Len(s) \in Nat /\ Len(Tail(s)) # 0
            BY <5>2, <5>3
          <6> QED
            BY <5>3, <6>1, EmptySeq
        <5> QED
          BY <5>1, <5>3, <5>4
      <4>2. op[p] \in OpType
        BY <1>0 DEF OpsOK
      <4>3. o = [op[p] EXCEPT !.rest = Tail(op[p].rest)]
        BY <3>2
      <4> QED
        BY <1>0, <4>1, <4>2, <4>3 DEF OpType
    <3> QED
      BY <3>1, <3>2
  <2> HIDE DEF tb, o, c, last
  <2>5. OpsOK([op EXCEPT ![p] = o])
    BY <1>0, <2>4, OpsSet
  <2>6. \A q \in Procs : [op EXCEPT ![p] = o][q].at = IF q = p THEN o.at ELSE op[q].at
    BY <1>0 DEF OpsOK
  <2>7. PICK d \in 0 .. TXUINT - 1 : d = Distance(txr, txw, TXUINT)
    BY <1>0, DistanceType
  <2>8. d < TXSIZE
    BY <1>0, <1>4, <2>7, TxFullIs DEF OutputInOrder
  <2>9. txw' \in 0 .. TXUINT - 1 /\ Distance(txr, txw', TXUINT) = d + 1
    <3>1. Distance(txr, txw, TXUINT) + 1 < TXUINT
      BY <1>0, <2>7, <2>8
    <3> QED
      BY <1>0, <2>1, <2>7, <3>1, PushDistance
  <2>10. PICK tw \in 0 .. TXUINT - 1 : tw = txw'
    BY <2>9
  <2>11. Distance(txr, tw, TXUINT) <= TXSIZE
    BY <1>0, <2>8, <2>9, <2>10
  <2>12. PICK f : f = [op EXCEPT ![p] = o]
    OBVIOUS
  <2>13. OpsOK(f) /\ \A q \in Procs : f[q].at = IF q = p THEN o.at ELSE op[q].at
    BY <2>5, <2>6, <2>12
  <2>14. uartstart(tb, txr, tw, f)
    BY <2>1, <2>10, <2>12
  <2>15. /\ txr' \in 0 .. TXUINT - 1 /\ OutputInOrder'
         /\ thr' \in Out \cup {Echo, None} /\ txint' \in BOOLEAN
         /\ OpsOK(op')
         /\ \A q \in Procs : op'[q].at = "rsleep" => f[q].at = "rsleep"
         /\ \A q \in Procs : op'[q].at = "wsleep" => f[q].at = "wsleep"
         /\ txr' # txw' => thr' # None
    BY <2>1, <2>3, <2>10, <2>11, <2>13, <2>14, uartstartIs
  <2>16. \A q \in Procs : op'[q].at = "rsleep" => r' = w' /\ q \notin killed'
    BY <1>0, <1>1, <2>4, <2>13, <2>15
  <2>17. \A q \in Procs : op'[q].at # "wsleep"
    BY <1>0, <1>4, <2>4, <2>13, <2>15
  <2>18. txbuf' \in [0 .. TXSIZE - 1 -> Out]
    BY <2>1, <2>3
  <2> QED
    BY <1>1, <1>2, <2>9, <2>15, <2>16, <2>17, <2>18, Parts, PartsNext, Zenon
<1> QED
  BY <1>3, <1>4

LEMMA Least ==
  ASSUME NEW S \in SUBSET Nat, S # {}
  PROVE  Min(S) \in S /\ \A y \in S : Min(S) <= y
<1> DEFINE R == OpToRel(<, Nat)
<1>1. \A x, y \in Nat : <<x, y>> \in R <=> x < y
  BY DEF OpToRel
<1>2. IsWellFoundedOn(R, Nat)
  BY NatLessThanWellFounded
<1> HIDE DEF R
<1>3. PICK x \in S : \A y \in S : ~(<<y, x>> \in R)
  BY <1>2, WFMin
<1>4. \A y \in S : x <= y
  <2> TAKE y \in S
  <2>1. x \in Nat /\ y \in Nat
    OBVIOUS
  <2>2. ~(y < x)
    BY <1>1, <1>3, <2>1
  <2> QED
    BY <2>1, <2>2
<1> QED
  BY <1>4 DEF Min

\* A read takes what is there up to n characters and no further than the end of
\* a line; it takes a character unless it meets a Control-D first.
LEMMA WantedIs ==
  ASSUME IInv, NEW n \in Nat \ {0}
  PROVE  /\ Wanted(n) \in Nat /\ Wanted(n) <= n /\ Wanted(n) <= Count(r, w)
         /\ \A i \in 1 .. Wanted(n) : Char(r + i - 1) \in {"nl", "D"} => Char(r + i - 1) = "nl" /\ i = Wanted(n)
         /\ r # w /\ ~AtEof(n) => Wanted(n) >= 1
<1>0. UINT \in Nat \ {0} /\ r \in 0 .. UINT - 1 /\ w \in 0 .. UINT - 1
  BY Parts, ConsoleAssumption
<1>1. PICK c \in 0 .. UINT - 1 : c = Count(r, w) /\ (c = 0 <=> r = w)
  <2>1. Distance(r, w, UINT) \in 0 .. UINT - 1 /\ (Distance(r, w, UINT) = 0 <=> r = w)
    BY <1>0, DistanceType
  <2> QED
    BY <2>1 DEF Count
<1>2. PICK there \in Nat : there = Min({n, c}) /\ there <= n /\ there <= c /\ (there = n \/ there = c)
  <2>1. {n, c} \in SUBSET Nat /\ {n, c} # {}
    BY <1>0
  <2> QED
    BY <2>1, Least
<1> DEFINE ends == {i \in 1 .. there : Char(r + i - 1) \in {"nl", "D"}}
<1>3. Wanted(n) = IF ends = {} THEN there
                  ELSE IF Char(r + Min(ends) - 1) = "D" THEN Min(ends) - 1 ELSE Min(ends)
  BY <1>1, <1>2 DEF Wanted
<1>4. CASE ends = {}
  <2>1. Wanted(n) = there
    BY <1>3, <1>4
  <2>2. \A i \in 1 .. there : Char(r + i - 1) \notin {"nl", "D"}
    BY <1>4
  <2>3. r # w => there >= 1
    BY <1>0, <1>1, <1>2
  <2> QED
    BY <1>1, <1>2, <2>1, <2>2, <2>3
<1>5. CASE ends # {}
  <2>1. PICK m \in 1 .. there : m = Min(ends) /\ m \in ends /\ \A y \in ends : m <= y
    <3>1. ends \in SUBSET Nat
      OBVIOUS
    <3>2. Min(ends) \in ends /\ \A y \in ends : Min(ends) <= y
      BY <1>5, <3>1, Least
    <3> QED
      BY <3>2
  <2>2. Char(r + m - 1) \in {"nl", "D"} /\ \A i \in 1 .. there : i < m => Char(r + i - 1) \notin {"nl", "D"}
    <3>1. ASSUME NEW i \in 1 .. there, i < m PROVE i \notin ends
      BY <2>1, <3>1
    <3> QED
      BY <2>1, <3>1
  <2> HIDE DEF ends
  <2>3. CASE Char(r + m - 1) = "D"
    <3>1. Wanted(n) = m - 1
      BY <1>3, <1>5, <2>1, <2>3
    <3>2. m - 1 \in Nat /\ m - 1 <= n /\ m - 1 <= c /\ m - 1 < n /\ m - 1 < c
      BY <1>2
    <3>3. \A i \in 1 .. m - 1 : Char(r + i - 1) \notin {"nl", "D"}
      <4> TAKE i \in 1 .. m - 1
      <4>1. i \in 1 .. there /\ i < m
        BY <1>2
      <4> QED
        BY <2>2, <4>1
    <3>4. r + (m - 1) = r + m - 1
      BY <1>0
    <3>5. AtEof(n)
      BY <1>1, <2>3, <3>1, <3>2, <3>4 DEF AtEof
    <3> QED
      BY <1>1, <3>1, <3>2, <3>3, <3>5
  <2>4. CASE Char(r + m - 1) = "nl"
    <3>1. Wanted(n) = m
      BY <1>3, <1>5, <2>1, <2>4
    <3>2. m \in Nat /\ m <= n /\ m <= c /\ m >= 1
      BY <1>2
    <3>3. \A i \in 1 .. m : Char(r + i - 1) \in {"nl", "D"} => Char(r + i - 1) = "nl" /\ i = m
      <4> TAKE i \in 1 .. m
      <4>1. i \in 1 .. there /\ (i < m \/ i = m)
        BY <1>2
      <4> QED
        BY <2>2, <2>4, <4>1
    <3> QED
      BY <1>1, <3>1, <3>2, <3>3
  <2> QED
    BY <2>2, <2>3, <2>4
<1> QED
  BY <1>4, <1>5

\* What consoleread() does: it sleeps, returns, or waits for more of the line.
LEMMA consolereadIs ==
  ASSUME IInv, NEW p \in Readers, consoleread(p)
  PROVE  /\ p \in Procs /\ op[p].at = "read" /\ op[p].n \in Nat \ {0} /\ op[p].n <= op[p].target /\ intr = "no"
         /\ UNCHANGED <<buf, w, e, txbuf, txr, txw, rx, thr, txint, intr, echo>>
         /\ \/ r = w /\ r' = r /\ p \in killed /\ Returns(p)
            \/ r = w /\ r' = r /\ p \notin killed /\ op' = Goto(p, "rsleep") /\ killed' = killed
            \/ /\ r # w /\ AtEof(op[p].n) /\ Returns(p)
               /\ r' = (r + Wanted(op[p].n) + EofTaken(p, Wanted(op[p].n))) % UINT
            \/ /\ r # w /\ ~AtEof(op[p].n) /\ Returns(p)
               /\ r' = (r + Wanted(op[p].n)) % UINT
            \/ /\ r # w /\ ~AtEof(op[p].n) /\ killed' = killed
               /\ r' = (r + Wanted(op[p].n)) % UINT
               /\ Wanted(op[p].n) # op[p].n /\ Char(r + Wanted(op[p].n) - 1) # "nl"
               /\ op' = [op EXCEPT ![p].n = op[p].n - Wanted(op[p].n)]
            \/ \E j \in 1 .. Wanted(op[p].n) : r' = (r + j) % UINT /\ Returns(p)
<1>1. p \in Procs /\ op[p].at = "read" /\ intr = "no" /\ OpsOK(op)
  BY Parts DEF consoleread, Is, Procs
<1>2. op[p].n \in Nat \ {0} /\ op[p].n <= op[p].target
  <2>1. op[p].n \in Nat /\ 0 < op[p].n /\ op[p].n <= op[p].target
    BY <1>1, OpTypes DEF OpsOK
  <2> QED
    BY <2>1
<1> QED
  BY <1>1, <1>2, Zenon DEF consoleread, tx

LEMMA ReturnsIs ==
  ASSUME OpsOK(op), NEW p \in Procs, Returns(p)
  PROVE  /\ OpsOK(op') /\ \A q \in Procs : op'[q].at = IF q = p THEN "user" ELSE op[q].at
         /\ \A q \in Procs : q # p => op'[q] = op[q]
         /\ killed' = killed \ {p}
BY ToUser DEF Returns

\* How far r goes: no further than w.
LEMMA ReadDistance ==
  ASSUME IInv, NEW k \in Nat, k <= Count(r, w), r' = (r + k) % UINT, w' = w
  PROVE  r' \in 0 .. UINT - 1 /\ Count(r, r') = k /\ Count(r', w) = Count(r, w) - k
<1>1. UINT \in Nat \ {0} /\ r \in 0 .. UINT - 1 /\ w \in 0 .. UINT - 1
  BY Parts, ConsoleAssumption
<1>2. k \in 0 .. Distance(r, w, UINT)
  BY <1>1, DistanceType DEF Count
<1> QED
  BY <1>1, <1>2, DropDistance DEF Count

\* The step that a read takes and what it gets in it.
LEMMA ReadTakes ==
  ASSUME IInv, NEW p \in Readers, consoleread(p)
  PROVE  \E k \in Nat :
           /\ k <= Count(r, w) /\ r' = (r + k) % UINT
           /\ r = w => k = 0
           /\ \/ k = Wanted(op[p].n) + 1 /\ Returns(p) /\ k = 1 /\ op[p].n = op[p].target
              \/ k <= Wanted(op[p].n) /\ Returns(p)
              \/ k = 0 /\ r = w /\ p \notin killed /\ op' = Goto(p, "rsleep") /\ killed' = killed
              \/ /\ k = Wanted(op[p].n) /\ k \in 1 .. op[p].n - 1 /\ Char(r + k - 1) # "nl"
                 /\ op' = [op EXCEPT ![p].n = op[p].n - k] /\ killed' = killed
<1>0. /\ UINT \in Nat \ {0} /\ r \in 0 .. UINT - 1 /\ w \in 0 .. UINT - 1
      /\ op[p].n \in Nat \ {0} /\ op[p].n <= op[p].target /\ op[p].target \in Nat
  BY Parts, ConsoleAssumption, consolereadIs, OpTypes
<1>1. PICK c \in 0 .. UINT - 1 : c = Count(r, w) /\ (c = 0 <=> r = w)
  <2>1. Distance(r, w, UINT) \in 0 .. UINT - 1 /\ (Distance(r, w, UINT) = 0 <=> r = w)
    BY <1>0, DistanceType
  <2> QED
    BY <2>1 DEF Count
<1>2. PICK k \in Nat : k = Wanted(op[p].n) /\ k <= op[p].n /\ k <= c
  BY <1>0, <1>1, WantedIs
<1>3. r + 0 = r /\ r % UINT = r
  BY <1>0, ModSmall
<1>4. CASE r = w /\ r' = r /\ p \in killed /\ Returns(p)
  <2>1. 0 \in Nat /\ 0 <= c /\ 0 <= k /\ r' = (r + 0) % UINT
    BY <1>0, <1>2, <1>3, <1>4
  <2> QED
    BY <1>1, <1>2, <1>4, <2>1
<1>5. CASE r = w /\ r' = r /\ p \notin killed /\ op' = Goto(p, "rsleep") /\ killed' = killed
  <2>1. 0 \in Nat /\ 0 <= c /\ r' = (r + 0) % UINT
    BY <1>0, <1>3, <1>5
  <2> QED
    BY <1>1, <1>5, <2>1
<1>6. CASE /\ r # w /\ AtEof(op[p].n) /\ Returns(p)
           /\ r' = (r + Wanted(op[p].n) + EofTaken(p, Wanted(op[p].n))) % UINT
  <2>1. k < op[p].n /\ k < c
    BY <1>1, <1>2, <1>6 DEF AtEof
  <2>2. CASE op[p].n - k < op[p].target
    <3>1. r' = (r + k + 0) % UINT /\ r + k + 0 = r + k
      BY <1>0, <1>2, <1>6, <2>2 DEF EofTaken
    <3> QED
      BY <1>1, <1>2, <1>6, <3>1
  <2>3. CASE ~(op[p].n - k < op[p].target)
    <3>1. k = 0 /\ op[p].n = op[p].target
      BY <1>0, <2>3
    <3>2. r' = (r + k + 1) % UINT /\ r + k + 1 = r + (k + 1) /\ k + 1 \in Nat /\ k + 1 <= c /\ k + 1 = 1
      BY <1>0, <1>2, <1>6, <2>1, <2>3, <3>1 DEF EofTaken
    <3> QED
      BY <1>1, <1>2, <1>6, <3>1, <3>2
  <2> QED
    BY <2>2, <2>3
<1>7. CASE r # w /\ ~AtEof(op[p].n) /\ Returns(p) /\ r' = (r + Wanted(op[p].n)) % UINT
  BY <1>1, <1>2, <1>7
<1>8. CASE /\ r # w /\ ~AtEof(op[p].n) /\ killed' = killed
           /\ r' = (r + Wanted(op[p].n)) % UINT
           /\ Wanted(op[p].n) # op[p].n /\ Char(r + Wanted(op[p].n) - 1) # "nl"
           /\ op' = [op EXCEPT ![p].n = op[p].n - Wanted(op[p].n)]
  <2>1. k >= 1
    BY <1>0, <1>2, <1>8, WantedIs
  <2>2. k \in 1 .. op[p].n - 1
    BY <1>0, <1>2, <1>8, <2>1
  <2> QED
    BY <1>1, <1>2, <1>8, <2>2
<1>9. CASE \E j \in 1 .. Wanted(op[p].n) : r' = (r + j) % UINT /\ Returns(p)
  <2>1. PICK j \in 1 .. k : r' = (r + j) % UINT /\ Returns(p)
    BY <1>2, <1>9
  <2>2. j \in Nat /\ j <= k /\ j <= c /\ r # w
    BY <1>1, <1>2
  <2> QED
    BY <1>1, <1>2, <2>1, <2>2
<1> QED
  BY <1>4, <1>5, <1>6, <1>7, <1>8, <1>9, consolereadIs, Zenon

LEMMA consolereadInv ==
  ASSUME IInv, NEW p \in Readers, consoleread(p)
  PROVE  IInv'
<1>0. /\ p \in Procs /\ op[p].at = "read" /\ op[p].n \in Nat \ {0} /\ op[p].n <= op[p].target /\ OpsOK(op)
      /\ UNCHANGED <<buf, w, e, txbuf, txr, txw, rx, thr, txint, intr, echo>>
  BY consolereadIs, Parts
<1>1. PICK k \in Nat :
           /\ k <= Count(r, w) /\ r' = (r + k) % UINT
           /\ r = w => k = 0
           /\ \/ Returns(p)
              \/ k = 0 /\ r = w /\ p \notin killed /\ op' = Goto(p, "rsleep") /\ killed' = killed
              \/ /\ k \in 1 .. op[p].n - 1
                 /\ op' = [op EXCEPT ![p].n = op[p].n - k] /\ killed' = killed
  BY ReadTakes
<1>2. r' \in 0 .. UINT - 1 /\ Count(r', w) = Count(r, w) - k /\ Count(r, w) \in Nat /\ Count(w, e) \in Nat
  <2>1. r' \in 0 .. UINT - 1 /\ Count(r', w) = Count(r, w) - k
    BY <1>0, <1>1, ReadDistance
  <2>2. r \in 0 .. UINT - 1 /\ w \in 0 .. UINT - 1 /\ e \in 0 .. UINT - 1 /\ UINT \in Nat \ {0}
    BY Parts, ConsoleAssumption
  <2>3. Distance(r, w, UINT) \in 0 .. UINT - 1 /\ Distance(w, e, UINT) \in 0 .. UINT - 1
    BY <2>2, DistanceType
  <2> QED
    BY <2>1, <2>3 DEF Count
<1>3. InputInOrder'
  <2>1. Count(r, w)' = Count(r, w) - k /\ Count(w, e)' = Count(w, e)
    BY <1>0, <1>2 DEF Count
  <2>2. Count(r, w) + Count(w, e) <= SIZE /\ SIZE \in Nat
    BY Parts, ConsoleAssumption DEF InputInOrder
  <2> QED
    BY <1>2, <2>1, <2>2 DEF InputInOrder
<1>4. OutputInOrder' /\ TxFull' = TxFull
  BY <1>0, Parts, SameOutput
<1>5. r = w => r' = w'
  <2>1. SUFFICES ASSUME r = w PROVE r' = w'
    OBVIOUS
  <2>2. r \in 0 .. UINT - 1 /\ UINT \in Nat \ {0}
    BY Parts, ConsoleAssumption
  <2>3. r' = (r + 0) % UINT /\ r + 0 = r
    BY <1>1, <2>1, <2>2
  <2> QED
    BY <1>0, <2>1, <2>2, <2>3, ModSmall
<1>6. /\ OpsOK(op') /\ killed' \subseteq Readers
      /\ \A q \in Procs : q # p => op'[q].at = op[q].at
      /\ \A q \in Procs : q \notin killed => q \notin killed'
      /\ op'[p].at = "rsleep" => r = w /\ p \notin killed
      /\ op'[p].at # "wsleep"
  <2>1. CASE Returns(p)
    BY <1>0, <2>1, ReturnsIs, Parts
  <2>2. CASE r = w /\ p \notin killed /\ op' = Goto(p, "rsleep") /\ killed' = killed
    BY <1>0, <2>2, GotoIs, Parts
  <2>3. CASE k \in 1 .. op[p].n - 1 /\ op' = [op EXCEPT ![p].n = op[p].n - k] /\ killed' = killed
    <3> DEFINE o == [op[p] EXCEPT !.n = op[p].n - k]
    <3>1. op[p] \in OpType /\ op \in [Procs -> OpType]
      BY <1>0 DEF OpsOK
    <3>2. op' = [op EXCEPT ![p] = o]
      BY <2>3, <3>1
    <3>3. op[p].n - k \in Nat /\ 0 < op[p].n - k /\ op[p].target \in Nat /\ op[p].n - k <= op[p].target
      BY <1>0, <2>3, OpTypes
    <3>4. o \in OpType /\ o.at = "read" /\ o.n = op[p].n - k /\ o.target = op[p].target
      BY <1>0, <3>1, <3>3 DEF OpType
    <3> HIDE DEF o
    <3>5. OpsOK([op EXCEPT ![p] = o])
      BY <1>0, <3>3, <3>4, OpsSet
    <3> QED
      BY <1>0, <2>3, <3>1, <3>2, <3>4, <3>5, Parts
  <2> QED
    BY <1>1, <2>1, <2>2, <2>3
<1>7. \A q \in Procs : op'[q].at = "rsleep" => r' = w' /\ q \notin killed'
  BY <1>5, <1>6, Parts
<1>8. \A q \in Procs : op'[q].at = "wsleep" => TxFull'
  BY <1>4, <1>6, Parts
<1> QED
  BY <1>0, <1>2, <1>3, <1>4, <1>6, <1>7, <1>8, Parts, PartsNext, Zenon

-----------------------------------------------------------------------------
(* The invariant holds.                                                    *)

LEMMA IInvInit == Init => IInv
<1> SUFFICES ASSUME Init PROVE IInv
  OBVIOUS
<1>1. PICK c \in Out : txbuf = [i \in 0 .. TXSIZE - 1 |-> c]
  BY DEF Init
<1>2. UINT \in Nat \ {0} /\ TXUINT \in Nat \ {0} /\ SIZE \in Nat /\ TXSIZE \in Nat /\ FIFO \in Nat
  BY ConsoleAssumption, ProgramAssumption
<1>3. /\ r = 0 /\ w = 0 /\ e = 0 /\ txr = 0 /\ txw = 0 /\ rx = <<>> /\ thr = None /\ txint = FALSE
      /\ intr = "no" /\ echo = 0 /\ killed = {} /\ buf = [i \in 0 .. SIZE - 1 |-> "a"]
      /\ op = [p \in Procs |-> Idle]
  BY DEF Init
<1>4. buf \in [0 .. SIZE - 1 -> Chars] /\ txbuf \in [0 .. TXSIZE - 1 -> Out]
  BY <1>1, <1>3 DEF Chars
<1>5. rx \in Seq(Keys) /\ Len(rx) <= FIFO
  BY <1>2, <1>3
<1>6. OpsOK(op) /\ \A p \in Procs : op[p].at = "user"
  BY <1>3, IdleType DEF OpsOK
<1>7. Distance(0, 0, UINT) = 0 /\ Distance(0, 0, TXUINT) = 0
  BY <1>2, DistanceType
<1>8. InputInOrder /\ OutputInOrder
  BY <1>2, <1>3, <1>7 DEF InputInOrder, OutputInOrder, Count
<1>9. 0 \in 0 .. UINT - 1 /\ 0 \in 0 .. TXUINT - 1 /\ 0 \in 0 .. SIZE
  BY <1>2
<1> QED
  BY <1>3, <1>4, <1>5, <1>6, <1>8, <1>9, Parts

LEMMA IInvNext == IInv /\ [Next]_vars => IInv'
<1> SUFFICES ASSUME IInv, [Next]_vars PROVE IInv'
  OBVIOUS
<1>1. ASSUME NEW c \in Keys, DevReceive(c) PROVE IInv'
  BY <1>1, DevReceiveInv
<1>2. CASE DevSend
  BY <1>2, DevSendInv
<1>3. CASE UartInterrupt
  BY <1>3, UartInterruptInv
<1>4. CASE consoleintr
  <2>1. rx' \in Seq(Keys) /\ Len(rx') <= FIFO /\ UNCHANGED <<r, txbuf, txr, txw, thr, txint, intr, killed>>
    BY <1>4, consoleintrIs
  <2>2. CASE KillLine \/ Backspace
    BY <2>1, <2>2, EraseInv
  <2>3. ASSUME NEW c \in Chars, Store(c) PROVE IInv'
    BY <2>1, <2>3, StoreInv
  <2> QED
    BY <1>4, <2>2, <2>3, consoleintrIs
<1>5. CASE uartputc_sync
  BY <1>5, uartputc_syncInv
<1>6. CASE uartintrRest
  BY <1>6, uartintrRestInv
<1>7. CASE uartintrEnd
  BY <1>7, uartintrEndInv
<1>8. ASSUME NEW p \in Readers, sys_read(p) \/ consoleread(p) PROVE IInv'
  BY <1>8, sys_readInv, consolereadInv
<1>9. ASSUME NEW p \in Writers, sys_write(p) \/ uartputc(p) \/ WriteFault(p) PROVE IInv'
  BY <1>9, sys_writeInv, uartputcInv, WriteFaultInv
<1>10. ASSUME NEW p \in Procs, kill(p) PROVE IInv'
  BY <1>10, killInv
<1>11. CASE UNCHANGED vars
  BY <1>11 DEF vars, cons, tx, IInv, TypeOK, OpsOK, InputInOrder, OutputInOrder, NothingStranded, Count, Distance
<1> QED
  BY <1>1, <1>2, <1>3, <1>4, <1>5, <1>6, <1>7, <1>8, <1>9, <1>10, <1>11 DEF Next, Interrupt

\* The rings of console.c and uart.c stay in order: the indices of a ring are
\* never more than its size apart, whatever is typed, read and written.
THEOREM IInvCorrect == Spec => []IInv
<1> QED
  BY IInvInit, IInvNext, PTL DEF Spec

\* Nobody sleeps on &cons.r or &uart_tx_r in vain, and a character in the output
\* ring has a busy transmitter or an interrupt to come, although the echo of
\* consoleintr() takes the transmitter over at any time.
THEOREM ConsoleCorrect == Spec => []ConsoleInv
<1>1. IInv => ConsoleInv
  BY DEF IInv, ConsoleInv
<1> QED
  BY <1>1, IInvCorrect, PTL

-----------------------------------------------------------------------------
(* Reads end at the end of a line.                                         *)

\* A reader in consoleread() moves only by its own step.
LEMMA OthersRead ==
  ASSUME IInv, [Next]_vars, NEW p \in Procs, op[p].at = "read", op'[p] # op[p]
  PROVE  p \in Readers /\ consoleread(p)
<1>0. OpsOK(op) /\ op \in [Procs -> OpType]
  BY Parts DEF OpsOK
<1>1. ASSUME NEW c \in Keys, DevReceive(c) PROVE FALSE
  BY <1>1 DEF DevReceive
<1>2. CASE DevSend
  BY <1>2 DEF DevSend
<1>3. CASE UartInterrupt \/ uartintrRest \/ uartputc_sync
  BY <1>3 DEF UartInterrupt, uartintrRest, uartputc_sync
<1>4. CASE consoleintr
  <2>1. CASE KillLine \/ Backspace
    BY <2>1 DEF KillLine, Backspace
  <2>2. ASSUME NEW c \in Chars, Store(c) PROVE FALSE
    <3>1. op' = op \/ op' = Woken(op, "rsleep", "read")
      BY <2>2 DEF Store
    <3> QED
      BY <1>0, <3>1, WokenIs
  <2> QED
    BY <1>4, <2>1, <2>2, consoleintrIs
<1>5. CASE uartintrEnd
  <2>1. op' = op \/ op' = Woken(op, "wsleep", "write")
    BY <1>5 DEF uartintrEnd, uartstart
  <2> QED
    BY <1>0, <2>1, WokenIs
<1>6. ASSUME NEW q \in Readers, sys_read(q) PROVE FALSE
  <2>1. q \in Procs /\ q # p
    BY <1>6 DEF sys_read, Is, Procs
  <2> QED
    BY <1>0, <1>6, <2>1 DEF sys_read
<1>7. ASSUME NEW q \in Readers, consoleread(q), q # p PROVE FALSE
  <2>1. q \in Procs /\ q # p
    BY <1>7 DEF Procs
  <2> QED
    BY <1>0, <1>7, <2>1, consolereadIs DEF Returns, Goto
<1>8. ASSUME NEW q \in Writers, sys_write(q) \/ WriteFault(q) PROVE FALSE
  <2>1. q \in Procs /\ q # p
    BY <1>8 DEF sys_write, WriteFault, Is, Procs
  <2> QED
    BY <1>0, <1>8, <2>1 DEF sys_write, WriteFault
<1>9. ASSUME NEW q \in Writers, uartputc(q) PROVE FALSE
  <2>1. q \in Procs /\ q # p
    BY <1>9 DEF uartputc, Is, Procs
  <2>2. CASE TxFull
    <3>1. op' = Goto(q, "wsleep")
      BY <1>9, <2>2 DEF uartputc
    <3> QED
      BY <1>0, <2>1, <3>1 DEF Goto
  <2>3. CASE ~TxFull
    <3>1. PICK f, x : f = [op EXCEPT ![q] = x] /\ (op' = f \/ op' = Woken(f, "wsleep", "write"))
      BY <1>9, <2>3 DEF uartputc, uartstart
    <3>2. f[p] = op[p]
      BY <1>0, <2>1, <3>1
    <3> QED
      BY <3>1, <3>2 DEF Woken
  <2> QED
    BY <2>2, <2>3
<1>10. ASSUME NEW q \in Procs, kill(q) PROVE FALSE
  <2>1. op' = [op EXCEPT ![q].at = CASE @ = "rsleep" -> "read" [] @ = "wsleep" -> "write" [] OTHER -> @]
    BY <1>10 DEF kill
  <2>2. CASE q # p
    BY <1>0, <2>1, <2>2
  <2>3. CASE q = p
    <3>1. op'[p] = [op[p] EXCEPT !.at = op[p].at]
      BY <1>0, <2>1, <2>3
    <3>2. op[p] \in OpType
      BY <1>0
    <3> QED
      BY <3>1, <3>2 DEF OpType
  <2> QED
    BY <2>2, <2>3
<1>11. CASE UNCHANGED vars
  BY <1>11 DEF vars
<1> QED
  BY <1>1, <1>2, <1>3, <1>4, <1>5, <1>6, <1>7, <1>8, <1>9, <1>10, <1>11 DEF Next, Interrupt

\* A read of the console gets at most one line, and a Control-D ends exactly one
\* read without a character (consoleread() of console.c).
THEOREM ReadsEndAtLineCorrect == Spec => ReadsEndAtLine
<1> DEFINE Step(p) ==
      LET got == [i \in 1 .. Count(r, r') |-> Char(r + i - 1)] IN
      op[p].at = "read" /\ op'[p] # op[p] =>
        /\ \A i \in DOMAIN got : got[i] \in {"nl", "D"} => i = Len(got) /\ op'[p].at = "user"
        /\ \A i \in DOMAIN got : got[i] = "D" => i = 1 /\ op[p].n = op[p].target
<1>1. ASSUME IInv, [Next]_vars, NEW p \in Procs PROVE Step(p)
  <2> DEFINE got == [i \in 1 .. Count(r, r') |-> Char(r + i - 1)]
  <2>1. SUFFICES ASSUME op[p].at = "read", op'[p] # op[p]
        PROVE  /\ \A i \in DOMAIN got : got[i] \in {"nl", "D"} => i = Len(got) /\ op'[p].at = "user"
               /\ \A i \in DOMAIN got : got[i] = "D" => i = 1 /\ op[p].n = op[p].target
    OBVIOUS
  <2>2. p \in Readers /\ consoleread(p) /\ w' = w /\ op[p].n \in Nat \ {0} /\ OpsOK(op)
    BY <1>1, <2>1, OthersRead, consolereadIs, Parts
  <2>3. PICK k \in Nat :
           /\ k <= Count(r, w) /\ r' = (r + k) % UINT
           /\ \/ k = Wanted(op[p].n) + 1 /\ Returns(p) /\ k = 1 /\ op[p].n = op[p].target
              \/ k <= Wanted(op[p].n) /\ Returns(p)
              \/ k = 0
              \/ k = Wanted(op[p].n) /\ Char(r + k - 1) # "nl"
    BY <1>1, <2>2, ReadTakes
  <2>4. Count(r, r') = k
    BY <1>1, <2>2, <2>3, ReadDistance
  <2>5. DOMAIN got = 1 .. k /\ Len(got) = k /\ \A i \in 1 .. k : got[i] = Char(r + i - 1)
    BY <2>4
  <2> HIDE DEF got
  <2>6. PICK v \in Nat : /\ v = Wanted(op[p].n)
                         /\ \A i \in 1 .. v : Char(r + i - 1) \in {"nl", "D"} => Char(r + i - 1) = "nl" /\ i = v
    BY <1>1, <2>2, WantedIs
  <2>7. CASE k = v + 1 /\ Returns(p) /\ k = 1 /\ op[p].n = op[p].target
    BY <1>1, <2>2, <2>5, <2>7, ReturnsIs
  <2>8. CASE k <= v /\ Returns(p)
    <3>1. op'[p].at = "user"
      BY <1>1, <2>2, <2>8, ReturnsIs
    <3>2. \A i \in 1 .. k : i \in 1 .. v /\ (i = v => i = k)
      BY <2>8
    <3> QED
      BY <2>5, <2>6, <3>1, <3>2
  <2>9. CASE k = 0
    BY <2>5, <2>9
  <2>10. CASE k = v /\ Char(r + k - 1) # "nl"
    BY <2>5, <2>6, <2>10
  <2> QED
    BY <2>3, <2>6, <2>7, <2>8, <2>9, <2>10
<1>2. ASSUME IInv, [Next]_vars PROVE [\A p \in Procs : Step(p)]_vars
  BY <1>1, <1>2
<1>3. IInv /\ [Next]_vars => [\A p \in Procs : Step(p)]_vars
  BY <1>2
<1> QED
  BY <1>3, IInvCorrect, PTL DEF Spec, ReadsEndAtLine

-----------------------------------------------------------------------------
(* What was typed, as LineInput sees it.                                   *)

Line == Between(buf, SIZE, UINT, w, e)
Ready == Between(buf, SIZE, UINT, r, w)

LEMMA BetweenNone ==
  ASSUME NEW b, NEW size, NEW max \in Nat \ {0}, NEW i \in 0 .. max - 1
  PROVE  Between(b, size, max, i, i) = <<>>
<1>1. Distance(i, i, max) = 0
  BY DistanceType
<1> QED
  BY <1>1 DEF Between

LEMMA SameLine ==
  ASSUME UNCHANGED <<buf, r, w, e>>
  PROVE  [Input!Next]_<<Line, Ready>>
BY DEF Line, Ready

LEMMA StoreView ==
  ASSUME IInv, NEW c \in Chars, Store(c), r' = r
  PROVE  [Input!Next]_<<Line, Ready>>
<1>0. /\ buf \in [0 .. SIZE - 1 -> Chars] /\ UINT \in Nat \ {0} /\ SIZE \in Nat \ {0} /\ SIZE < UINT
      /\ r \in 0 .. UINT - 1 /\ w \in 0 .. UINT - 1 /\ e \in 0 .. UINT - 1 /\ Ring(SIZE, UINT) /\ Holds(buf, SIZE, Chars)
  BY Parts, ConsoleAssumption, Rings DEF Holds
<1>1. CASE Count(r, e) < SIZE
  <2>1. buf' = Put(buf, SIZE, e, c) /\ e' = Ahead(e, 1, UINT)
    BY <1>1 DEF Store, Put, Ahead
  <2>2. PICK x \in 0 .. UINT - 1 : x = Distance(r, w, UINT)
    BY <1>0, DistanceType
  <2>3. PICK y \in 0 .. UINT - 1 : y = Distance(w, e, UINT)
    BY <1>0, DistanceType
  <2>4. Distance(r, w, UINT) + Distance(w, e, UINT) <= SIZE
    BY Parts DEF InputInOrder, Count
  <2>5. /\ Distance(r, e, UINT) = x + y
        /\ Between(buf, SIZE, UINT, r, e) = Ready \o Line
    <3>1. Distance(r, w, UINT) + Distance(w, e, UINT) < UINT
      BY <1>0, <2>2, <2>3, <2>4
    <3>2. Distance(r, e, UINT) = Distance(r, w, UINT) + Distance(w, e, UINT)
      BY <1>0, <3>1, JoinDistance
    <3>3. Between(buf, SIZE, UINT, r, e)
            = Between(buf, SIZE, UINT, r, w) \o Between(buf, SIZE, UINT, w, e)
      BY <1>0, <2>4, JoinSeq
    <3> QED
      BY <2>2, <2>3, <3>2, <3>3 DEF Ready, Line
  <2>6. x + y < SIZE /\ x < SIZE /\ y < SIZE
    BY <1>0, <1>1, <2>5 DEF Count
  <2>7. Len(Ready) = x /\ Len(Line) = y
    BY <1>0, <2>2, <2>3, BetweenLen DEF Ready, Line
  <2>8. e' \in 0 .. UINT - 1 /\ Between(buf', SIZE, UINT, r, e') = Append(Ready \o Line, c)
    <3>1. Distance(r, e, UINT) < SIZE
      BY <2>5, <2>6
    <3>2. Between(buf', SIZE, UINT, r, e') = Append(Between(buf, SIZE, UINT, r, e), c)
      BY <1>0, <2>1, <3>1, PushSeq
    <3>3. e' \in 0 .. UINT - 1
      BY <1>0, <2>1, ModRange DEF Ahead
    <3> QED
      BY <2>5, <3>2, <3>3
  <2>9. CASE Ends(c)
    <3>1. w' = e'
      BY <1>1, <2>9 DEF Store
    <3>2. Ready' = Append(Ready \o Line, c)
      BY <2>8, <3>1 DEF Ready
    <3>3. Line' = <<>>
      BY <1>0, <2>8, <3>1, BetweenNone DEF Line
    <3>4. c \in {"nl", "D"} \/ Len(Ready) + Len(Line) + 1 = SIZE
      BY <2>5, <2>7, <2>9 DEF Ends, Count
    <3>5. Len(Ready) + Len(Line) < SIZE
      BY <2>6, <2>7
    <3>6. Input!Type(c)
      BY <3>2, <3>3, <3>4, <3>5 DEF Input!Type, Ready, Line
    <3> QED
      BY <3>6 DEF Input!Next
  <2>10. CASE ~Ends(c)
    <3>1. w' = w
      BY <1>1, <2>10 DEF Store
    <3>2. Between(buf', SIZE, UINT, w, e') = Append(Line, c)
      <4>1. Distance(w, e, UINT) < SIZE
        BY <2>3, <2>6
      <4>2. Between(buf', SIZE, UINT, w, e') = Append(Between(buf, SIZE, UINT, w, e), c)
        BY <1>0, <2>1, <4>1, PushSeq
      <4> QED
        BY <4>2 DEF Line
    <3>3. Between(buf', SIZE, UINT, r, w) = Ready
      <4>1. Distance(r, w, UINT) + Distance(w, e, UINT) < SIZE
        BY <2>2, <2>3, <2>6
      <4>2. Between(buf', SIZE, UINT, r, w) = Between(buf, SIZE, UINT, r, w)
        BY <1>0, <2>1, <4>1, ElsewhereSeq
      <4> QED
        BY <4>2 DEF Ready
    <3>4. Line' = Append(Line, c) /\ Ready' = Ready
      BY <3>1, <3>2, <3>3 DEF Line, Ready
    <3>5. ~(c \in {"nl", "D"} \/ Len(Ready) + Len(Line) + 1 = SIZE)
      BY <2>5, <2>7, <2>10 DEF Ends, Count
    <3>6. Len(Ready) + Len(Line) < SIZE
      BY <2>6, <2>7
    <3>7. Input!Type(c)
      BY <3>4, <3>5, <3>6 DEF Input!Type, Ready, Line
    <3> QED
      BY <3>7 DEF Input!Next
  <2> QED
    BY <2>9, <2>10
<1>2. CASE ~(Count(r, e) < SIZE)
  BY <1>2, SameLine DEF Store
<1> QED
  BY <1>1, <1>2

LEMMA EraseView ==
  ASSUME IInv, KillLine \/ Backspace, r' = r
  PROVE  [Input!Next]_<<Line, Ready>>
<1>0. /\ buf \in [0 .. SIZE - 1 -> Chars] /\ UINT \in Nat \ {0}
      /\ r \in 0 .. UINT - 1 /\ w \in 0 .. UINT - 1 /\ e \in 0 .. UINT - 1 /\ Ring(SIZE, UINT) /\ Holds(buf, SIZE, Chars)
  BY Parts, ConsoleAssumption, Rings DEF Holds
<1>1. UNCHANGED <<buf, w>> /\ Ready' = Ready
  BY DEF KillLine, Backspace, Ready
<1>2. CASE KillLine
  <2>1. Line' = <<>>
    BY <1>0, <1>1, <1>2, BetweenNone DEF Line, KillLine
  <2>2. Input!EraseAll
    BY <1>1, <2>1 DEF Input!EraseAll, Ready, Line
  <2> QED
    BY <2>2 DEF Input!Next
<1>3. CASE Backspace /\ e # w
  <2>1. e' = Behind(e, UINT)
    BY <1>3 DEF Backspace, Behind
  <2>2. Between(buf, SIZE, UINT, w, e') = SubSeq(Line, 1, Distance(w, e, UINT) - 1)
    <3>1. Between(buf, SIZE, UINT, w, e')
            = SubSeq(Between(buf, SIZE, UINT, w, e), 1, Distance(w, e, UINT) - 1)
      BY <1>0, <1>3, <2>1, ChopSeq
    <3> QED
      BY <3>1 DEF Line
  <2>3. Len(Line) = Distance(w, e, UINT)
    BY <1>0, BetweenLen DEF Line
  <2>4. Line' = SubSeq(Line, 1, Len(Line) - 1)
    BY <1>1, <2>2, <2>3 DEF Line
  <2>5. Line # <<>>
    <3>1. Distance(w, e, UINT) # 0
      BY <1>0, <1>3, DistanceType
    <3> QED
      BY <2>3, <3>1
  <2>6. Input!Erase
    BY <1>1, <2>4, <2>5 DEF Input!Erase, Ready, Line
  <2> QED
    BY <2>6 DEF Input!Next
<1>4. CASE Backspace /\ e = w
  <2>1. e' = e
    BY <1>4 DEF Backspace
  <2> QED
    BY <1>1, <2>1 DEF Line
<1> QED
  BY <1>2, <1>3, <1>4

LEMMA ReadView ==
  ASSUME IInv, NEW p \in Readers, consoleread(p)
  PROVE  [Input!Next]_<<Line, Ready>>
<1>0. /\ buf \in [0 .. SIZE - 1 -> Chars] /\ UINT \in Nat \ {0} /\ SIZE \in Nat
      /\ r \in 0 .. UINT - 1 /\ w \in 0 .. UINT - 1 /\ e \in 0 .. UINT - 1 /\ Ring(SIZE, UINT) /\ Holds(buf, SIZE, Chars)
  BY Parts, ConsoleAssumption, Rings DEF Holds
<1>1. UNCHANGED <<buf, w, e>> /\ Line' = Line
  BY consolereadIs DEF Line
<1>2. PICK k \in Nat : k <= Count(r, w) /\ r' = Ahead(r, k, UINT)
  BY ReadTakes DEF Ahead
<1>3. PICK d \in 0 .. UINT - 1 : d = Distance(r, w, UINT)
  BY <1>0, DistanceType
<1>4. PICK y \in 0 .. UINT - 1 : y = Distance(w, e, UINT)
  BY <1>0, DistanceType
<1>5. k <= d /\ d <= SIZE
  <2>1. d + y <= SIZE
    BY <1>3, <1>4, Parts DEF InputInOrder, Count
  <2> QED
    BY <1>0, <1>2, <1>3, <2>1 DEF Count
<1>6. k \in 0 .. Distance(r, w, UINT)
  BY <1>3, <1>5
<1>7. Between(buf, SIZE, UINT, r', w) = SubSeq(Ready, k + 1, d)
  <2>1. Between(buf, SIZE, UINT, r', w)
          = SubSeq(Between(buf, SIZE, UINT, r, w), k + 1, Distance(r, w, UINT))
    BY <1>0, <1>2, <1>6, DropSeq
  <2> QED
    BY <1>3, <2>1 DEF Ready
<1>8. Len(Ready) = d
  BY <1>0, <1>3, BetweenLen DEF Ready
<1>9. Ready' = SubSeq(Ready, k + 1, Len(Ready))
  BY <1>1, <1>7, <1>8 DEF Ready
<1>10. CASE k = 0
  <2>1. r' = r
    BY <1>0, <1>2, <1>10, ModSmall DEF Ahead
  <2> QED
    BY <1>1, <2>1, SameLine
<1>11. CASE k # 0
  <2>1. k \in 1 .. SIZE /\ k <= Len(Ready)
    BY <1>0, <1>5, <1>8, <1>11
  <2>2. Input!Read(k)
    BY <1>1, <1>9, <2>1 DEF Input!Read, Ready, Line
  <2> QED
    BY <2>1, <2>2 DEF Input!Next
<1> QED
  BY <1>10, <1>11

LEMMA NextLine ==
  ASSUME IInv, [Next]_vars
  PROVE  [Input!Next]_<<Line, Ready>>
<1>1. CASE consoleintr
  <2>1. r' = r /\ (KillLine \/ Backspace \/ \E c \in Chars : Store(c))
    BY <1>1, consoleintrIs
  <2> QED
    BY <2>1, StoreView, EraseView
<1>2. ASSUME NEW p \in Readers, consoleread(p) PROVE [Input!Next]_<<Line, Ready>>
  BY <1>2, ReadView
<1>3. ASSUME NEW c \in Keys, DevReceive(c) PROVE UNCHANGED <<buf, r, w, e>>
  BY <1>3 DEF DevReceive, cons
<1>4. CASE DevSend \/ UartInterrupt \/ uartputc_sync \/ uartintrRest \/ uartintrEnd
  <2>1. UNCHANGED <<buf, r, w, e>>
    BY <1>4 DEF DevSend, UartInterrupt, uartputc_sync, uartintrRest, uartintrEnd, cons
  <2> QED
    BY <2>1, SameLine
<1>5. ASSUME NEW p \in Procs, sys_read(p) \/ sys_write(p) \/ uartputc(p) \/ WriteFault(p) \/ kill(p)
      PROVE  UNCHANGED <<buf, r, w, e>>
  BY <1>5 DEF sys_read, sys_write, uartputc, WriteFault, kill, cons
<1>6. CASE UNCHANGED vars
  BY <1>6, SameLine DEF vars, cons
<1> QED
  BY <1>1, <1>2, <1>3, <1>4, <1>5, <1>6, SameLine DEF Next, Interrupt, Procs

LEMMA InitLine == Init => Input!Init
<1> SUFFICES ASSUME Init PROVE Input!Init
  OBVIOUS
<1>1. r = 0 /\ w = 0 /\ e = 0 /\ UINT \in Nat \ {0} /\ 0 \in 0 .. UINT - 1
  BY ConsoleAssumption DEF Init
<1>2. Line = <<>> /\ Ready = <<>>
  BY <1>1, BetweenNone DEF Line, Ready
<1> QED
  BY <1>2 DEF Input!Init, Line, Ready

\* The three indices of console.c are a line that can be edited until it ends,
\* for every size of the ring and of the indices: Backspace and Control-U change
\* nothing that ended, readers get what ended in the order it was typed, and
\* nothing is lost but what does not fit.
THEOREM LineInputCorrect == Spec => ImplementsLineInput
<1>1. IInv /\ [Next]_vars => [Input!Next]_<<Line, Ready>>
  BY NextLine
<1>2. [Input!Next]_<<Line, Ready>> <=>
      [Input!Next]_<<Between(buf, SIZE, UINT, w, e), Between(buf, SIZE, UINT, r, w)>>
  BY DEF Line, Ready
<1> QED
  BY <1>1, <1>2, InitLine, IInvCorrect, PTL DEF Spec, ImplementsLineInput, Input!Spec

-----------------------------------------------------------------------------
(* What was written, as Streams sees it: the character in the transmitter, *)
(* unless that is an echo, and the ring behind it.                         *)

Sent == IF thr \in Out THEN <<thr>> ELSE <<>>
Pending == Between(txbuf, TXSIZE, TXUINT, txr, txw)
Flow == Sent \o Pending
Streaming == [o \in {"out"} |-> Flow]

LEMMA FlowType ==
  ASSUME IInv
  PROVE  /\ Sent \in Seq(Out) /\ Len(Sent) <= 1 /\ Pending \in Seq(Out)
         /\ Len(Pending) = Distance(txr, txw, TXUINT) /\ Len(Pending) <= TXSIZE
<1>1. /\ txr \in 0 .. TXUINT - 1 /\ txw \in 0 .. TXUINT - 1 /\ txbuf \in [0 .. TXSIZE - 1 -> Out]
      /\ TXUINT \in Nat \ {0} /\ OutputInOrder
  BY Parts, ConsoleAssumption
<1>2. Sent \in Seq(Out) /\ Len(Sent) <= 1
  <2>1. CASE thr \in Out
    BY <2>1 DEF Sent
  <2>2. CASE thr \notin Out
    BY <2>2 DEF Sent
  <2> QED
    BY <2>1, <2>2
<1>3. Pending \in Seq(Out)
  BY <1>1, Rings, BetweenSeq DEF Pending
<1>4. Len(Pending) = Distance(txr, txw, TXUINT)
  BY <1>1, BetweenLen DEF Pending
<1> QED
  BY <1>1, <1>2, <1>3, <1>4 DEF OutputInOrder

LEMMA SameFlow ==
  ASSUME Flow' = Flow
  PROVE  [Output!Next]_<<{"out"}, Streaming>>
BY DEF Streaming

LEMMA FlowWrite ==
  ASSUME NEW c \in Out, Flow' = Flow \o <<c>>, Flow \in Seq(Out), Len(Flow) <= TXSIZE
  PROVE  [Output!Next]_<<{"out"}, Streaming>>
<1>1. TXSIZE \in Nat \ {0} /\ 1 \in 1 .. TXSIZE + 1
  BY ConsoleAssumption
<1>2. <<c>> \in [1 .. 1 -> Out] /\ Len(<<c>>) = 1
  OBVIOUS
<1>3. Streaming["out"] = Flow
  BY DEF Streaming
<1>4. Len(Flow) + 1 <= TXSIZE + 1
  <2>1. Len(Flow) \in Nat
    OBVIOUS
  <2> QED
    BY <1>1, <2>1
<1>5. Streaming' = [Streaming EXCEPT !["out"] = Streaming["out"] \o <<c>>]
  BY <1>3 DEF Streaming
<1>6. Output!Write("out", <<c>>)
  BY <1>2, <1>3, <1>4, <1>5 DEF Output!Write, Streaming, Flow, Sent, Pending
<1>7. \E n \in 1 .. TXSIZE + 1 : \E s \in [1 .. n -> Out] : Output!Write("out", s)
  BY <1>1, <1>2, <1>6
<1> QED
  BY <1>7 DEF Output!Next

LEMMA FlowRead ==
  ASSUME NEW c \in Out, Flow = <<c>> \o Flow', Flow' \in Seq(Out)
  PROVE  [Output!Next]_<<{"out"}, Streaming>>
<1>1. TXSIZE \in Nat \ {0} /\ 1 \in 1 .. TXSIZE + 1
  BY ConsoleAssumption
<1>2. PICK s \in Seq(Out) : s = Flow'
  OBVIOUS
<1>3. Flow = <<c>> \o s /\ Len(Flow) = Len(s) + 1 /\ Len(s) \in Nat
  BY <1>2
<1>4. SubSeq(<<c>> \o s, 2, Len(s) + 1) = s
  OBVIOUS
<1>5. 1 <= Len(Flow) /\ SubSeq(Flow, 1 + 1, Len(Flow)) = Flow'
  BY <1>2, <1>3, <1>4
<1>6. Streaming["out"] = Flow
  BY DEF Streaming
<1>7. Streaming' = [Streaming EXCEPT !["out"] = SubSeq(Streaming["out"], 1 + 1, Len(Streaming["out"]))]
  BY <1>5, <1>6 DEF Streaming
<1>8. Output!Read("out", 1)
  BY <1>5, <1>6, <1>7 DEF Output!Read, Streaming, Flow, Sent, Pending
<1> QED
  BY <1>1, <1>8 DEF Output!Next

\* The first entry and the rest.
LEMMA FirstSeq ==
  ASSUME NEW size, NEW max, Ring(size, max), NEW S, NEW b, Holds(b, size, S),
         NEW from \in 0 .. max - 1, NEW to \in 0 .. max - 1, from # to,
         NEW c, c = Slot(b, size, from), NEW fromn, fromn = Ahead(from, 1, max)
  PROVE  Between(b, size, max, from, to) = <<c>> \o Between(b, size, max, fromn, to)
<1>1. max \in Nat \ {0} /\ size \in Nat \ {0} /\ b \in [0 .. size - 1 -> S]
  BY DEF Ring, Holds
<1>2. PICK d \in 1 .. max - 1 : d = Distance(from, to, max)
  <2>1. Distance(from, to, max) \in 0 .. max - 1 /\ Distance(from, to, max) # 0
    BY <1>1, DistanceType
  <2> QED
    BY <2>1
<1>3. 1 \in 0 .. Distance(from, to, max)
  BY <1>1, <1>2
<1>4. PICK s \in Seq(S) : s = Between(b, size, max, from, to)
  BY <1>1, BetweenSeq
<1>5. Between(b, size, max, Ahead(from, 1, max), to) = SubSeq(s, 1 + 1, d)
  BY <1>2, <1>3, <1>4, DropSeq
<1>6. Len(s) = d
  BY <1>1, <1>2, <1>4, BetweenLen
<1>7. s = [i \in 1 .. d |-> b[(from + i - 1) % size]]
  BY <1>2, <1>4 DEF Between
<1>8. s[1] = b[from % size]
  <2>1. 1 \in 1 .. d /\ from + 1 - 1 = from
    BY <1>2
  <2> QED
    BY <1>7, <2>1
<1>9. s = <<s[1]>> \o SubSeq(s, 2, d)
  BY <1>2, <1>6
<1> QED
  BY <1>4, <1>5, <1>8, <1>9 DEF Slot

\* uartstart() moves a character from the ring into the transmitter: the flow is
\* the one of the ring it was given.
LEMMA uartstartFlow ==
  ASSUME IInv, NEW tb, Holds(tb, TXSIZE, Out), NEW tw \in 0 .. TXUINT - 1, NEW o,
         txw' = tw, txbuf' = tb, uartstart(tb, txr, tw, o)
  PROVE  Flow' = Sent \o Between(tb, TXSIZE, TXUINT, txr, tw)
<1>0. /\ txr \in 0 .. TXUINT - 1 /\ TXUINT \in Nat \ {0} /\ TXSIZE \in Nat \ {0} /\ Ring(TXSIZE, TXUINT)
      /\ tb \in [0 .. TXSIZE - 1 -> Out]
  BY Parts, ConsoleAssumption, Rings DEF Holds
<1>1. CASE tw # txr /\ thr = None
  <2>1. thr' = Slot(tb, TXSIZE, txr) /\ txr' = Ahead(txr, 1, TXUINT)
    BY <1>1 DEF uartstart, Slot, Ahead
  <2>2. txr % TXSIZE \in 0 .. TXSIZE - 1
    BY <1>0, ModRange
  <2>3. thr' \in Out /\ None \notin Out
    BY <1>0, <2>1, <2>2, ProgramAssumption DEF Slot
  <2>4. Sent = <<>> /\ Sent' = <<thr'>>
    BY <1>1, <2>1, <2>3 DEF Sent
  <2>5. Pending' = Between(tb, TXSIZE, TXUINT, txr', tw)
    BY DEF Pending
  <2>6. PICK s \in Seq(Out) : s = Between(tb, TXSIZE, TXUINT, txr, tw)
    BY <1>0, BetweenSeq
  <2>7. Between(tb, TXSIZE, TXUINT, txr, tw) = <<thr'>> \o Between(tb, TXSIZE, TXUINT, txr', tw)
    <3>1. txr # tw /\ Ring(TXSIZE, TXUINT) /\ txr \in 0 .. TXUINT - 1
      BY <1>0, <1>1
    <3> QED
      BY <2>1, <3>1, FirstSeq
  <2>8. Flow' = s
    BY <2>4, <2>5, <2>6, <2>7 DEF Flow
  <2>9. <<>> \o s = s
    OBVIOUS
  <2> QED
    BY <2>4, <2>6, <2>8, <2>9
<1>2. CASE ~(tw # txr /\ thr = None)
  <2>1. UNCHANGED <<thr, txr>>
    BY <1>2 DEF uartstart
  <2> QED
    BY <2>1 DEF Flow, Sent, Pending
<1> QED
  BY <1>1, <1>2

LEMMA uartputcFlow ==
  ASSUME IInv, NEW p \in Writers, uartputc(p)
  PROVE  [Output!Next]_<<{"out"}, Streaming>>
<1>0. /\ op[p].rest # <<>> /\ op[p].rest \in Seq(Out)
      /\ txr \in 0 .. TXUINT - 1 /\ txw \in 0 .. TXUINT - 1 /\ txbuf \in [0 .. TXSIZE - 1 -> Out]
      /\ OutputInOrder /\ Ring(TXSIZE, TXUINT) /\ Holds(txbuf, TXSIZE, Out)
      /\ TXUINT \in Nat \ {0} /\ TXSIZE \in Nat \ {0} /\ TXSIZE < TXUINT
  <2>1. p \in Procs /\ OpsOK(op) /\ op[p].at = "write"
    BY Parts DEF uartputc, Is, Procs
  <2>2. op[p].rest # <<>> /\ op[p].rest \in Seq(Out)
    BY <2>1, OpTypes DEF OpsOK
  <2> QED
    BY <2>1, <2>2, Parts, ConsoleAssumption, Rings DEF Holds
<1>1. CASE TxFull
  <2>1. UNCHANGED <<txbuf, txr, txw, thr>>
    BY <1>1 DEF uartputc, tx
  <2> QED
    BY <2>1, SameFlow DEF Flow, Sent, Pending
<1>2. CASE ~TxFull
  <2>1. PICK c \in Out : c = Head(op[p].rest)
    BY <1>0
  <2>2. PICK tb : tb = [txbuf EXCEPT ![txw % TXSIZE] = c]
    OBVIOUS
  <2>3. PICK o : txbuf' = tb /\ txw' = (txw + 1) % TXUINT /\ uartstart(tb, txr, txw', o)
    BY <1>2, <2>1, <2>2 DEF uartputc
  <2>4. tb = Put(txbuf, TXSIZE, txw, c) /\ tb \in [0 .. TXSIZE - 1 -> Out] /\ Holds(tb, TXSIZE, Out)
    BY <1>0, <2>2 DEF Put, Holds
  <2>5. PICK tw \in 0 .. TXUINT - 1 : tw = txw' /\ tw = Ahead(txw, 1, TXUINT)
    BY <1>0, <2>3, ModRange DEF Ahead
  <2>6. Flow' = Sent \o Between(tb, TXSIZE, TXUINT, txr, tw)
    BY <2>3, <2>4, <2>5, uartstartFlow
  <2>7. PICK d \in 0 .. TXUINT - 1 : d = Distance(txr, txw, TXUINT)
    BY <1>0, DistanceType
  <2>8. d < TXSIZE /\ Distance(txr, txw, TXUINT) < TXSIZE
    BY <1>0, <1>2, <2>7, TxFullIs DEF OutputInOrder
  <2>9. Between(tb, TXSIZE, TXUINT, txr, tw) = Append(Pending, c)
    BY <1>0, <2>4, <2>5, <2>8, PushSeq DEF Pending
  <2>10. PICK s \in Seq(Out), t \in Seq(Out) : s = Sent /\ t = Pending /\ Len(s) <= 1 /\ Len(t) = d
    BY <2>7, FlowType
  <2>11. Flow' = s \o Append(t, c) /\ Flow = s \o t
    BY <2>6, <2>9, <2>10 DEF Flow
  <2>12. s \o Append(t, c) = (s \o t) \o <<c>> /\ s \o t \in Seq(Out) /\ Len(s \o t) = Len(s) + Len(t)
    OBVIOUS
  <2>13. Len(Flow) <= TXSIZE
    BY <1>0, <2>8, <2>10, <2>11, <2>12
  <2> QED
    BY <2>11, <2>12, <2>13, FlowWrite
<1> QED
  BY <1>1, <1>2

LEMMA NextFlow ==
  ASSUME IInv, [Next]_vars
  PROVE  [Output!Next]_<<{"out"}, Streaming>>
<1>1. CASE DevSend
  <2>1. thr # None /\ thr' = None /\ UNCHANGED <<txbuf, txr, txw>>
    BY <1>1 DEF DevSend, tx
  <2>2. Sent' = <<>> /\ Pending' = Pending
    BY <2>1, ProgramAssumption DEF Sent, Pending
  <2>3. PICK t \in Seq(Out) : t = Pending
    BY FlowType
  <2>4. Flow' = t
    BY <2>2, <2>3 DEF Flow
  <2>5. CASE thr \in Out
    <3>1. Flow = <<thr>> \o t
      BY <2>3, <2>5 DEF Flow, Sent
    <3> QED
      BY <2>4, <2>5, <3>1, FlowRead
  <2>6. CASE thr \notin Out
    <3>1. Flow = t
      BY <2>3, <2>6 DEF Flow, Sent
    <3> QED
      BY <2>4, <3>1, SameFlow
  <2> QED
    BY <2>5, <2>6
<1>2. CASE uartputc_sync
  <2>1. Sent' = Sent /\ Pending' = Pending
    BY <1>2, ProgramAssumption DEF uartputc_sync, Sent, Pending, tx
  <2> QED
    BY <2>1, SameFlow DEF Flow
<1>3. CASE uartintrEnd
  <2>1. uartstart(txbuf, txr, txw, op) /\ UNCHANGED <<txbuf, txw>>
    BY <1>3 DEF uartintrEnd
  <2>2. Holds(txbuf, TXSIZE, Out) /\ txw \in 0 .. TXUINT - 1
    BY Parts DEF Holds
  <2>3. Flow' = Sent \o Between(txbuf, TXSIZE, TXUINT, txr, txw)
    BY <2>1, <2>2, uartstartFlow
  <2> QED
    BY <2>3, SameFlow DEF Flow, Pending
<1>4. ASSUME NEW p \in Writers, uartputc(p) PROVE [Output!Next]_<<{"out"}, Streaming>>
  BY <1>4, uartputcFlow
<1>5. CASE UNCHANGED <<txbuf, txr, txw, thr>>
  BY <1>5, SameFlow DEF Flow, Sent, Pending
<1>6. ASSUME NEW c \in Keys, DevReceive(c) PROVE UNCHANGED <<txbuf, txr, txw, thr>>
  BY <1>6 DEF DevReceive, tx
<1>7. UartInterrupt \/ consoleintr \/ uartintrRest => UNCHANGED <<txbuf, txr, txw, thr>>
  BY DEF UartInterrupt, consoleintr, uartintrRest, tx
<1>8. ASSUME NEW p \in Procs, sys_read(p) \/ consoleread(p) \/ sys_write(p) \/ WriteFault(p) \/ kill(p)
      PROVE  UNCHANGED <<txbuf, txr, txw, thr>>
  BY <1>8 DEF sys_read, consoleread, sys_write, WriteFault, kill, tx
<1>9. CASE UNCHANGED vars
  BY <1>5, <1>9 DEF vars, tx
<1> QED
  BY <1>1, <1>2, <1>3, <1>4, <1>5, <1>6, <1>7, <1>8, <1>9 DEF Next, Interrupt, Procs

LEMMA InitFlow == Init => Output!Init
<1> SUFFICES ASSUME Init PROVE Output!Init
  OBVIOUS
<1>1. txr = 0 /\ txw = 0 /\ thr = None /\ TXUINT \in Nat \ {0} /\ 0 \in 0 .. TXUINT - 1
  BY ConsoleAssumption DEF Init
<1>2. Pending = <<>>
  BY <1>1, BetweenNone DEF Pending
<1>3. Flow = <<>>
  BY <1>1, <1>2, ProgramAssumption DEF Flow, Sent
<1>4. Streaming = [o \in {"out"} |-> <<>>]
  BY <1>3 DEF Streaming
<1> QED
  BY <1>4 DEF Output!Init, Streaming, Flow, Sent, Pending

\* Characters that programs write leave in the order in which uartputc() accepted
\* them, for every size of the ring of uart.c and of its indices, also when the
\* echo of consoleintr() takes the transmitter in between.
THEOREM OutputCorrect == Spec => ImplementsOutput
<1>1. IInv /\ [Next]_vars => [Output!Next]_<<{"out"}, Streaming>>
  BY NextFlow
<1>2. [Output!Next]_<<{"out"}, Streaming>> <=>
      [Output!Next]_<<{"out"}, [o \in {"out"} |-> (IF thr \in Out THEN <<thr>> ELSE <<>>)
                                                  \o Between(txbuf, TXSIZE, TXUINT, txr, txw)]>>
  BY DEF Streaming, Flow, Sent, Pending
<1> QED
  BY <1>1, <1>2, InitFlow, IInvCorrect, PTL DEF Spec, ImplementsOutput, Output!Spec
=============================================================================
