--------------------------- MODULE SegmentProofs ---------------------------
(***************************************************************************)
(* Facts about the operators of Segment that the proofs about CommitLog    *)
(* rest on: what the encoders of a batch return, and where a segment that  *)
(* is opened again continues.                                              *)
(***************************************************************************)
EXTENDS Segment, SequenceTheorems, WellFoundedInduction, TLAPS

(***************************************************************************)
(* Induction: a set of naturals that is not empty has a least element.     *)
(***************************************************************************)
LEMMA LeastNat ==
  ASSUME NEW T \in SUBSET Nat, T # {}
  PROVE  \E m \in T : \A k \in T : m <= k
<1> DEFINE Less == {ss \in Nat \X Nat : ss[1] < ss[2]}
<1>1. IsWellFoundedOn(Less, Nat)
  BY NatLessThanWellFounded DEF OpToRel
<1> HIDE DEF Less
<1>2. \E m \in T : \A k \in T : ~(<<k, m>> \in Less)
  BY <1>1, WFMin
<1>3. PICK m \in T : \A k \in T : ~(<<k, m>> \in Less)
  BY <1>2
<1>4. ASSUME NEW k \in T PROVE m <= k
  <2>1. k \in Nat /\ m \in Nat
    OBVIOUS
  <2>2. <<k, m>> \in Nat \X Nat /\ <<k, m>>[1] = k /\ <<k, m>>[2] = m
    BY <2>1
  <2>3. k < m => <<k, m>> \in Less
    BY <2>2 DEF Less
  <2> QED BY <1>3, <2>1, <2>3
<1> QED BY <1>4

\* Members of an interval from 0 are natural numbers.
LEMMA NatIntervals == \A n \in Nat : \A i \in 0..n : i \in Nat
OBVIOUS

\* A concatenation is a sequence over the same set.
LEMMA ConcatSeq ==
  ASSUME NEW S, NEW a \in Seq(S), NEW b \in Seq(S)
  PROVE  a \o b \in Seq(S)
OBVIOUS

(***************************************************************************)
(* The recursive functions of Segment exist.                               *)
(***************************************************************************)
\* A running total over G, and a running concatenation of the blocks of B, are
\* functions that satisfy their own definitions.
IsTotal(f, n, G) == f = [i \in 0..n |-> IF i = 0 THEN 0 ELSE f[i-1] + G[i]]

IsConcat(f, n, B) == f = [i \in 0..n |-> IF i = 0 THEN << >> ELSE f[i-1] \o B[i]]

\* Running totals exist.
LEMMA TotalExists ==
  ASSUME NEW n \in Nat, NEW G
  PROVE  \E f : IsTotal(f, n, G)
<1> USE DEF IsTotal
<1> DEFINE Tot(f, m) == f = [i \in 0..m |-> IF i = 0 THEN 0 ELSE f[i-1] + G[i]]
           T == {m \in Nat : ~(\E f : Tot(f, m))}
<1>1. SUFFICES ASSUME T # {} PROVE FALSE
  BY <1>1
<1>2. PICK m \in T : \A k \in T : m <= k
  BY <1>1, LeastNat
<1>3. m # 0
  <2>1. Tot([i \in 0..0 |-> 0], 0)
    OBVIOUS
  <2> QED BY <2>1
<1>4. PICK f : Tot(f, m - 1)
  <2>1. m - 1 \in Nat /\ ~(m <= m - 1)
    BY <1>2, <1>3
  <2>2. m - 1 \notin T
    BY <1>2, <2>1, Zenon
  <2> HIDE DEF Tot
  <2> QED BY <2>1, <2>2, Zenon
<1> DEFINE g == [i \in 0..m |-> IF i = m THEN f[m-1] + G[m] ELSE f[i]]
<1>5. Tot(g, m)
  <2>1. m \in Nat /\ m - 1 \in Nat
    BY <1>2, <1>3
  <2>2. \A i \in 0..(m - 1) : f[i] = IF i = 0 THEN 0 ELSE f[i-1] + G[i]
    BY <1>4
  <2>3. ASSUME NEW i \in 0..m
        PROVE  g[i] = IF i = 0 THEN 0 ELSE g[i-1] + G[i]
    <3>1. CASE i = m
      BY <1>3, <2>1, <3>1
    <3>2. CASE i # m
      BY <2>1, <2>2, <3>2
    <3> QED BY <3>1, <3>2
  <2> QED BY <2>3
<1> QED BY <1>2, <1>5

\* Running concatenations exist.
LEMMA ConcatExists ==
  ASSUME NEW n \in Nat, NEW B
  PROVE  \E f : IsConcat(f, n, B)
<1> USE DEF IsConcat
<1> DEFINE Cat(f, m) == f = [i \in 0..m |-> IF i = 0 THEN << >> ELSE f[i-1] \o B[i]]
           T == {m \in Nat : ~(\E f : Cat(f, m))}
<1>1. SUFFICES ASSUME T # {} PROVE FALSE
  BY <1>1
<1>2. PICK m \in T : \A k \in T : m <= k
  BY <1>1, LeastNat
<1>3. m # 0
  <2>1. Cat([i \in 0..0 |-> << >>], 0)
    OBVIOUS
  <2> QED BY <2>1
<1>4. PICK f : Cat(f, m - 1)
  <2>1. m - 1 \in Nat /\ ~(m <= m - 1)
    BY <1>3
  <2> QED BY <1>2, <2>1, Zenon
<1> DEFINE g == [i \in 0..m |-> IF i = m THEN f[m-1] \o B[m] ELSE f[i]]
<1>5. Cat(g, m)
  <2>1. ASSUME NEW i \in 0..m PROVE g[i] = IF i = 0 THEN << >> ELSE g[i-1] \o B[i]
    <3>1. g[i] = IF i = m THEN f[m-1] \o B[m] ELSE f[i]
      BY Zenon
    <3>2. m \in Nat /\ i \in Nat /\ i <= m
      OBVIOUS
    <3>3. ASSUME i # 0 PROVE g[i-1] = f[i-1]
      <4>1. i - 1 \in 0..m /\ i - 1 # m
        BY <3>2, <3>3
      <4> QED BY <4>1, Zenon
    <3>4. ASSUME i # m PROVE f[i] = IF i = 0 THEN << >> ELSE f[i-1] \o B[i]
      <4>1. i \in 0..(m-1)
        BY <3>2, <3>4
      <4> QED BY <1>4, <4>1, Zenon
    <3>5. CASE i = m
      BY <1>3, <3>1, <3>3, <3>5, Zenon
    <3>6. CASE i # m
      BY <3>1, <3>3, <3>4, <3>6, Zenon
    <3> QED BY <3>5, <3>6
  <2> QED BY <2>1, Zenon
<1> QED BY <1>2, <1>5

(***************************************************************************)
(* A running total of naturals is a natural, and a running concatenation   *)
(* of sequences over S is a sequence over S.                               *)
(***************************************************************************)
LEMMA TotalType ==
  ASSUME NEW n \in Nat, NEW G, \A i \in 1..n : G[i] \in Nat,
         NEW f, IsTotal(f, n, G)
  PROVE  \A i \in 0..n : f[i] \in Nat
<1> USE DEF IsTotal
<1> DEFINE T == {i \in Nat : i \in 0..n /\ f[i] \notin Nat}
<1>1. SUFFICES ASSUME T # {} PROVE FALSE
  BY <1>1, NatIntervals, Zenon
<1>2. PICK m \in T : \A k \in T : m <= k
  <2>1. T \in SUBSET Nat
    BY Zenon
  <2> QED BY <1>1, <2>1, LeastNat, Zenon
<1>3. f[0] = 0 /\ m # 0
  OBVIOUS
<1>4. m - 1 \in 0..n /\ m - 1 \notin T
  BY <1>2, <1>3
<1>5. f[m-1] \in Nat /\ f[m] = f[m-1] + G[m] /\ G[m] \in Nat
  BY <1>3, <1>4
<1> QED BY <1>5

\* A running concatenation is made of sequences over the same set.
LEMMA ConcatType ==
  ASSUME NEW n \in Nat, NEW S, NEW B, \A i \in 1..n : B[i] \in Seq(S),
         NEW f, IsConcat(f, n, B)
  PROVE  \A i \in 0..n : f[i] \in Seq(S)
<1> USE DEF IsConcat
<1> DEFINE T == {i \in Nat : i \in 0..n /\ f[i] \notin Seq(S)}
<1>1. SUFFICES ASSUME T # {} PROVE FALSE
  BY <1>1, NatIntervals, Zenon
<1>2. PICK m \in T : \A k \in T : m <= k
  <2>1. T \in SUBSET Nat
    BY Zenon
  <2> QED BY <1>1, <2>1, LeastNat, Zenon
<1>3. \A i \in 0..n : f[i] = IF i = 0 THEN << >> ELSE f[i-1] \o B[i]
  BY Zenon
<1>4. m \in 0..n /\ m # 0
  <2>1. 0 \in 0..n
    OBVIOUS
  <2>2. f[0] = << >>
    BY <1>3, <2>1
  <2>3. << >> \in Seq(S)
    OBVIOUS
  <2> QED BY <2>2, <2>3, Zenon
<1>5. m - 1 \in 0..n /\ ~(m <= m - 1) /\ m \in 1..n
  BY <1>4
<1>6. f[m-1] \in Seq(S)
  BY <1>2, <1>5, NatIntervals, Zenon
<1>7. f[m] = f[m-1] \o B[m] /\ B[m] \in Seq(S)
  BY <1>3, <1>4, <1>5, Zenon
<1>8. f[m] \in Seq(S)
  BY <1>6, <1>7, ConcatSeq, Zenon
<1> QED BY <1>8, Zenon

(***************************************************************************)
(* What a write puts into the files.                                       *)
(***************************************************************************)
\* The payload of a record is a sequence of cells.
LEMMA PayloadType ==
  ASSUME NEW r \in Records, NEW zip \in BOOLEAN
  PROVE  /\ Payload(r, zip) \in Seq(Cell)
         /\ Len(Payload(r, zip)) \in Nat
<1> DEFINE n == IF zip THEN ZipLen[r] ELSE RawLen[r]
<1>1. n \in Nat
  BY LengthAssumption
<1>2. \A i \in 1..n : [kind |-> "payload", rec |-> r, zip |-> zip, cell |-> i] \in Cell
  BY <1>1 DEF Cell
<1>3. Payload(r, zip) = [i \in 1..n |->
         [kind |-> "payload", rec |-> r, zip |-> zip, cell |-> i]]
  BY DEF Payload
<1> HIDE DEF n
<1>4. Payload(r, zip) \in [1..n -> Cell]
  BY <1>2, <1>3
<1> QED BY <1>1, <1>4

\* Lengths of batches and of their parts are naturals.
LEMMA SizeOfFirstType ==
  ASSUME NEW recs \in Seq(Records), NEW zip \in BOOLEAN, NEW k \in 0..Len(recs)
  PROVE  SizeOfFirst(k, recs, zip) \in Nat
<1> DEFINE G == [i \in 1..k |-> RecordSize(recs[i], zip)]
           Size(f) == f = [i \in 0..k |-> IF i = 0 THEN 0
                                          ELSE f[i-1] + RecordSize(recs[i], zip)]
<1>1. \A i \in 1..k : G[i] \in Nat
  <2>1. ASSUME NEW i \in 1..k PROVE G[i] \in Nat
    <3>1. recs[i] \in Records
      OBVIOUS
    <3>2. RecordSize(recs[i], zip) \in Nat
      BY <3>1, PayloadType DEF RecordSize, messageHeaderSize
    <3> QED BY <3>2
  <2> QED BY <2>1
<1>2. ASSUME NEW f PROVE IsTotal(f, k, G) <=> Size(f)
  <2>1. \A i \in 0..k : (IF i = 0 THEN 0 ELSE f[i-1] + G[i])
                        = (IF i = 0 THEN 0 ELSE f[i-1] + RecordSize(recs[i], zip))
    OBVIOUS
  <2>2. [i \in 0..k |-> IF i = 0 THEN 0 ELSE f[i-1] + G[i]]
          = [i \in 0..k |-> IF i = 0 THEN 0 ELSE f[i-1] + RecordSize(recs[i], zip)]
    BY <2>1, Zenon
  <2> QED BY <2>2, Zenon DEF IsTotal
<1>3. k \in Nat
  OBVIOUS
<1> HIDE DEF Size, G
<1>4. \E f : IsTotal(f, k, G)
  BY <1>3, TotalExists, Zenon
<1>5. Size(CHOOSE f : Size(f))
  BY <1>2, <1>4, Zenon
<1>6. IsTotal(CHOOSE f : Size(f), k, G)
  BY <1>2, <1>5, Zenon
<1>7. \A i \in 0..k : (CHOOSE f : Size(f))[i] \in Nat
  BY <1>1, <1>3, <1>6, TotalType, Zenon
<1> USE DEF Size
<1>8. SizeOfFirst(k, recs, zip) = (CHOOSE f : Size(f))[k]
  BY DEF SizeOfFirst
<1> QED BY <1>3, <1>7, <1>8

\* The bytes AppendBatch writes to the .log file are a sequence of cells.
LEMMA LogBlockType ==
  ASSUME NEW seg \in SegmentType, NEW recs \in Seq(Records), NEW ts \in Nat,
         NEW zip \in BOOLEAN
  PROVE  LogBlock(seg, recs, ts, zip) \in Seq(Cell)
<1> DEFINE n == Len(recs)
           B == [i \in 1..n |-> RecordCells(seg.nextOffset + i - 1, ts, recs[i], zip)]
           Image(f) == f = [i \in 0..n |-> IF i = 0 THEN << >>
             ELSE f[i-1] \o RecordCells(seg.nextOffset + i - 1, ts, recs[i], zip)]
<1>1. \A i \in 1..n : B[i] \in Seq(Cell)
  <2>1. ASSUME NEW i \in 1..n PROVE B[i] \in Seq(Cell)
    <3>1. recs[i] \in Records
      OBVIOUS
    <3>2. seg.nextOffset + i - 1 \in Nat
      BY DEF SegmentType
    <3>3. RawLen[recs[i]] \in Nat
      BY <3>1, LengthAssumption
    <3>4. Header(seg.nextOffset + i - 1, ts, recs[i]) \in Cell
      BY <3>2, <3>3 DEF Header, Cell
    <3>5. Payload(recs[i], zip) \in Seq(Cell)
      BY <3>1, PayloadType
    <3>6. RecordCells(seg.nextOffset + i - 1, ts, recs[i], zip) \in Seq(Cell)
      BY <3>4, <3>5 DEF RecordCells
    <3> QED BY <3>6
  <2> QED BY <2>1
<1>2. ASSUME NEW f PROVE IsConcat(f, n, B) <=> Image(f)
  <2> DEFINE RC(i) == RecordCells(seg.nextOffset + i - 1, ts, recs[i], zip)
  <2>1. \A i \in 0..n : i # 0 => B[i] = RC(i)
    <3>1. \A i \in 0..n : i # 0 => i \in 1..n
      OBVIOUS
    <3> QED BY <3>1, Zenon
  <2>2. \A i \in 0..n : (IF i = 0 THEN << >> ELSE f[i-1] \o B[i])
                        = (IF i = 0 THEN << >> ELSE f[i-1] \o RC(i))
    <3>1. ASSUME NEW i \in 0..n
          PROVE  (IF i = 0 THEN << >> ELSE f[i-1] \o B[i])
                   = (IF i = 0 THEN << >> ELSE f[i-1] \o RC(i))
      <4> HIDE DEF B, RC
      <4>1. CASE i = 0
        BY <4>1, Zenon
      <4>2. CASE i # 0
        BY <2>1, <4>2, Zenon
      <4> QED BY <4>1, <4>2, Zenon
    <3> QED BY <3>1, Zenon
  <2>3. [i \in 0..n |-> IF i = 0 THEN << >> ELSE f[i-1] \o B[i]]
          = [i \in 0..n |-> IF i = 0 THEN << >> ELSE f[i-1] \o RC(i)]
    BY <2>2, Zenon
  <2> QED BY <2>3, Zenon DEF IsConcat
<1>3. n \in Nat
  OBVIOUS
<1> HIDE DEF Image, B, n
<1>4. \E f : IsConcat(f, n, B)
  BY <1>3, ConcatExists, Zenon
<1>5. Image(CHOOSE f : Image(f))
  BY <1>2, <1>4, Zenon
<1>6. IsConcat(CHOOSE f : Image(f), n, B)
  BY <1>2, <1>5, Zenon
<1>7. \A i \in 0..n : (CHOOSE f : Image(f))[i] \in Seq(Cell)
  BY <1>1, <1>3, <1>6, ConcatType, Zenon
<1> USE DEF Image, n
<1>8. LogBlock(seg, recs, ts, zip) = (CHOOSE f : Image(f))[n]
  BY DEF LogBlock
<1>9. n \in 0..n
  BY <1>3
<1> QED BY <1>7, <1>8, <1>9, Zenon

\* The index entries of a batch carry the consecutive offsets from nextOffset.
LEMMA IndexBlockType ==
  ASSUME NEW seg \in SegmentType, NEW recs \in Seq(Records), NEW zip \in BOOLEAN
  PROVE  /\ IndexBlock(seg, recs, zip) \in Seq(IndexEntry)
         /\ Len(IndexBlock(seg, recs, zip)) = Len(recs)
         /\ \A i \in 1..Len(recs) :
              IndexBlock(seg, recs, zip)[i].offset = seg.nextOffset + i - 1
<1> DEFINE n == Len(recs)
           E(i) == [ offset   |-> seg.nextOffset + i - 1,
                     position |-> seg.size + SizeOfFirst(i - 1, recs, zip) ]
<1>1. ASSUME NEW i \in 1..n PROVE E(i) \in IndexEntry
  <2>1. SizeOfFirst(i - 1, recs, zip) \in Nat
    BY SizeOfFirstType
  <2> QED BY <2>1 DEF IndexEntry, SegmentType
<1>2. IndexBlock(seg, recs, zip) = [i \in 1..n |-> E(i)]
  BY DEF IndexBlock
<1>3. IndexBlock(seg, recs, zip) \in [1..n -> IndexEntry]
  BY <1>1, <1>2
<1>4. n \in Nat
  OBVIOUS
<1>5. \A i \in 1..n : IndexBlock(seg, recs, zip)[i].offset = seg.nextOffset + i - 1
  BY <1>2
<1> HIDE DEF n
<1>6. IndexBlock(seg, recs, zip) \in Seq(IndexEntry) /\ Len(IndexBlock(seg, recs, zip)) = n
  BY <1>3, <1>4
<1> QED BY <1>5, <1>6 DEF n

\* A segment that was written to.
LEMMA WrittenType ==
  ASSUME NEW seg \in SegmentType, NEW recs \in Seq(Records), NEW zip \in BOOLEAN
  PROVE  /\ Written(seg, recs, zip) \in SegmentType
         /\ Written(seg, recs, zip).baseOffset = seg.baseOffset
         /\ Written(seg, recs, zip).nextOffset = seg.nextOffset + Len(recs)
         /\ Written(seg, recs, zip).open = seg.open
<1>1. SizeOfFirst(Len(recs), recs, zip) \in Nat
  BY SizeOfFirstType
<1> QED BY <1>1 DEF Written, SegmentType

(***************************************************************************)
(* A segment that NewSegment opens continues after the last index entry.   *)
(***************************************************************************)
DiskNext(base, index) == IF index = << >> THEN base ELSE index[Len(index)].offset + 1

\* The offset after the last index entry is an offset.
LEMMA DiskNextNat ==
  ASSUME NEW base \in Nat, NEW index \in Seq(IndexEntry)
  PROVE  DiskNext(base, index) \in Nat
<1>1. CASE index = << >>
  BY <1>1 DEF DiskNext
<1>2. CASE index # << >>
  <2>1. index[Len(index)] \in IndexEntry
    BY <1>2
  <2>2. index[Len(index)].offset \in Nat
    BY <2>1 DEF IndexEntry
  <2> QED BY <1>2, <2>2 DEF DiskNext
<1> QED BY <1>1, <1>2

\* NewSegment makes a segment of any pair of files.
LEMMA OpenedType ==
  ASSUME NEW base \in Nat, NEW log \in Seq(Cell), NEW index \in Seq(IndexEntry)
  PROVE  Opened(base, log, index) \in SegmentType
<1>1. Len(log) \in Nat /\ Len(index) \in Nat
  OBVIOUS
<1>2. DiskNext(base, index) \in Nat
  BY DiskNextNat
<1>3. Opened(base, log, index) =
        [baseOffset |-> base, nextOffset |-> DiskNext(base, index), size |-> Len(log),
         indexEntries |-> Len(index), open |-> TRUE]
  BY DEF Opened, DiskNext
<1> QED BY <1>1, <1>2, <1>3 DEF SegmentType

\* The offsets of an index lie in base..(hi - 1).
InRange(base, index, hi) ==
  \A e \in 1..Len(index) : base <= index[e].offset /\ index[e].offset < hi

\* After n entries were added at "from" the segment continues there or above.
Continues(base, index, from, n) ==
  /\ from <= DiskNext(base, index)
  /\ n > 0 => DiskNext(base, index) = from + n

Consecutive(tail, from) == \A i \in 1..Len(tail) : tail[i].offset = from + i - 1

\* Entries for the consecutive offsets from "from" on, none included, never take
\* the place where a restart continues below "from".
LEMMA ExtendedIndex ==
  ASSUME NEW base \in Nat, NEW from \in Nat, NEW hi \in Nat,
         NEW index \in Seq(IndexEntry), NEW tail \in Seq(IndexEntry),
         base <= from,
         from <= DiskNext(base, index),
         from + Len(tail) <= hi,
         InRange(base, index, hi),
         Consecutive(tail, from)
  PROVE  /\ index \o tail \in Seq(IndexEntry)
         /\ InRange(base, index \o tail, hi)
         /\ Continues(base, index \o tail, from, Len(tail))
<1> DEFINE new == index \o tail
           n == Len(index)
           k == Len(tail)
<1>1. /\ new \in Seq(IndexEntry)
      /\ Len(new) = n + k
      /\ \A i \in 1..(n + k) : new[i] = IF i <= n THEN index[i] ELSE tail[i - n]
  BY ConcatProperties
<1>2. n \in Nat /\ k \in Nat
  OBVIOUS
<1>3. k = 0 => new = index
  OBVIOUS
<1>4. k > 0 => new # << >>
  BY <1>1, <1>2
<1> HIDE DEF new, k, n
<1>5. ASSUME NEW e \in 1..Len(new)
      PROVE  base <= new[e].offset /\ new[e].offset < hi
  <2>1. CASE e <= n
    BY <1>1, <1>2, <2>1 DEF n, InRange
  <2>2. CASE e > n
    <3>1. e - n \in 1..k /\ new[e] = tail[e - n]
      BY <1>1, <1>2, <2>2
    <3>2. e - n \in 1..Len(tail)
      BY <3>1 DEF k
    <3>3. new[e].offset = from + (e - n) - 1
      BY <3>1, <3>2 DEF Consecutive
    <3>4. from + k <= hi
      BY DEF k
    <3> QED BY <1>2, <3>1, <3>3, <3>4
  <2> QED BY <1>1, <1>2, <2>1, <2>2
<1>6. InRange(base, new, hi)
  BY <1>5 DEF InRange
<1>7. CASE k = 0
  <2>1. Continues(base, new, from, k)
    BY <1>3, <1>7 DEF Continues
  <2> QED BY <1>1, <1>6, <2>1, Zenon DEF new, k
<1>8. CASE k > 0
  <2>1. n + k \in 1..(n + k) /\ ~(n + k <= n) /\ k \in 1..k /\ (n + k) - n = k
    BY <1>2, <1>8
  <2>2. new[n + k] = tail[k] /\ tail[k].offset = from + k - 1
    BY <1>1, <2>1 DEF k, Consecutive
  <2>3. DiskNext(base, new) = from + k
    BY <1>1, <1>2, <1>4, <1>8, <2>2 DEF DiskNext
  <2>4. from <= from + k
    BY <1>2
  <2>5. Continues(base, new, from, k)
    BY <2>3, <2>4 DEF Continues
  <2> QED BY <1>1, <1>6, <2>5, Zenon DEF new, k
<1> QED BY <1>2, <1>7, <1>8

\* Writing the first j index entries of a batch is such an extension.
LEMMA AppendedIndex ==
  ASSUME NEW base \in Nat, NEW index \in Seq(IndexEntry), NEW hi \in Nat,
         NEW seg \in SegmentType, NEW recs \in Seq(Records), NEW zip \in BOOLEAN,
         NEW j \in 0..Len(recs),
         base <= seg.nextOffset,
         seg.nextOffset <= DiskNext(base, index),
         seg.nextOffset + Len(recs) <= hi,
         InRange(base, index, hi)
  PROVE  LET new == index \o SubSeq(IndexBlock(seg, recs, zip), 1, j)
         IN  /\ new \in Seq(IndexEntry)
             /\ InRange(base, new, hi)
             /\ Continues(base, new, seg.nextOffset, j)
<1> DEFINE block == IndexBlock(seg, recs, zip)
           added == SubSeq(block, 1, j)
<1>1. block \in Seq(IndexEntry) /\ Len(block) = Len(recs)
  BY IndexBlockType
<1>2. \A i \in 1..Len(recs) : block[i].offset = seg.nextOffset + i - 1
  BY IndexBlockType
<1>3. Len(recs) \in Nat /\ j \in Nat /\ j <= Len(recs) /\ seg.nextOffset \in Nat
  BY DEF SegmentType
<1> HIDE DEF block
<1>4. \A i \in 1..j : block[i] \in IndexEntry
  BY <1>1, <1>3
<1>5. /\ added \in Seq(IndexEntry)
      /\ Len(added) = j
      /\ \A i \in 1..j : added[i] = block[i]
  BY <1>3, <1>4, SubSeqProperties
<1> HIDE DEF added
<1>6. Consecutive(added, seg.nextOffset)
  BY <1>2, <1>3, <1>5 DEF Consecutive
<1>7. seg.nextOffset + Len(added) <= hi
  BY <1>3, <1>5
<1>8. /\ index \o added \in Seq(IndexEntry)
      /\ InRange(base, index \o added, hi)
      /\ Continues(base, index \o added, seg.nextOffset, Len(added))
  <2>1. added \in Seq(IndexEntry) /\ seg.nextOffset \in Nat /\ seg.nextOffset + Len(added) <= hi
    BY <1>3, <1>5, <1>7
  <2> QED BY <1>6, <2>1, ExtendedIndex, Zenon
<1> QED BY <1>5, <1>7, <1>8, Zenon DEF added, block

(***************************************************************************)
(* Running totals and concatenations.                                      *)
(***************************************************************************)
\* What a concatenation is made of.
Joined(w, u, v) ==
  /\ Len(w) = Len(u) + Len(v)
  /\ Len(u) \in Nat /\ Len(v) \in Nat
  /\ \A x \in 1..(Len(u) + Len(v)) : w[x] = IF x <= Len(u) THEN u[x] ELSE v[x - Len(u)]

LEMMA ConcatJoined ==
  ASSUME NEW S, NEW u \in Seq(S), NEW v \in Seq(S)
  PROVE  Joined(u \o v, u, v)
BY DEF Joined

\* Two running totals over the same numbers agree.
LEMMA TotalsAgree ==
  ASSUME NEW n \in Nat, NEW m \in Nat, NEW G, NEW f, NEW g, IsTotal(f, n, G), IsTotal(g, m, G),
         NEW k \in Nat, k <= n, k <= m
  PROVE  f[k] = g[k]
<1> DEFINE T == {i \in Nat : i <= k /\ f[i] # g[i]}
<1>1. SUFFICES ASSUME T # {} PROVE FALSE
  OBVIOUS
<1>2. PICK i \in T : \A j \in T : i <= j
  <2>1. T \in SUBSET Nat
    BY Zenon
  <2> QED BY <1>1, <2>1, LeastNat, Zenon
<1>3. /\ \A j \in 0..n : f[j] = IF j = 0 THEN 0 ELSE f[j-1] + G[j]
      /\ \A j \in 0..m : g[j] = IF j = 0 THEN 0 ELSE g[j-1] + G[j]
  BY DEF IsTotal
<1>4. i \in Nat /\ i <= k /\ f[i] # g[i]
  OBVIOUS
<1> HIDE DEF T
<1>5. i # 0
  BY <1>3, <1>4
<1>6. i - 1 \in Nat /\ i - 1 <= k /\ ~(i <= i - 1)
  BY <1>4, <1>5
<1>7. f[i-1] = g[i-1]
  BY <1>2, <1>6 DEF T
<1> QED BY <1>3, <1>4, <1>5, <1>7

\* A running concatenation holds its blocks one after the other: block i starts
\* where the running total of the lengths says.
LaidOut(whole, n, B, g) ==
  /\ Len(whole) = g[n]
  /\ \A i \in 1..n : /\ g[i] <= g[n]
                     /\ \A j \in 1..Len(B[i]) : whole[g[i-1] + j] = B[i][j]

SeqsOfLength(B, G, n, S) == \A i \in 1..n : B[i] \in Seq(S) /\ G[i] = Len(B[i])

LEMMA ConcatLayout ==
  ASSUME NEW n \in Nat, NEW S, NEW B, NEW f, IsConcat(f, n, B),
         NEW G, SeqsOfLength(B, G, n, S), NEW g, IsTotal(g, n, G)
  PROVE  LaidOut(f[n], n, B, g)
<1> DEFINE Placed(k) == /\ Len(f[k]) = g[k]
                        /\ \A i \in 1..k : /\ g[i] <= g[k]
                                           /\ \A j \in 1..Len(B[i]) : f[k][g[i-1] + j] = B[i][j]
           T == {k \in Nat : k <= n /\ ~Placed(k)}
<1>0. /\ \A i \in 1..n : B[i] \in Seq(S)
      /\ \A i \in 1..n : G[i] = Len(B[i])
  BY DEF SeqsOfLength
<1>1. /\ \A k \in 0..n : f[k] = IF k = 0 THEN << >> ELSE f[k-1] \o B[k]
      /\ \A k \in 0..n : g[k] = IF k = 0 THEN 0 ELSE g[k-1] + G[k]
  BY DEF IsTotal, IsConcat
<1>2. \A k \in 0..n : f[k] \in Seq(S)
  BY <1>0, ConcatType, Zenon
<1>3. \A k \in 0..n : g[k] \in Nat
  <2>1. \A i \in 1..n : G[i] \in Nat
    BY <1>0
  <2> QED BY <2>1, TotalType
<1>4. SUFFICES ASSUME T # {} PROVE FALSE
  <2>1. n \in Nat /\ n <= n
    OBVIOUS
  <2> HIDE DEF Placed
  <2>2. T = {} => Placed(n)
    BY <2>1, Zenon
  <2> QED BY <2>2, Zenon DEF Placed, LaidOut
<1>5. PICK k \in T : \A j \in T : k <= j
  <2>1. T \in SUBSET Nat
    BY Zenon
  <2> QED BY <1>4, <2>1, LeastNat, Zenon
<1>6. k \in Nat /\ k <= n /\ ~Placed(k)
  OBVIOUS
<1>7. k # 0
  <2>1. Placed(0)
    <3>1. f[0] = << >> /\ g[0] = 0 /\ 1..0 = {}
      BY <1>1
    <3> QED BY <3>1
  <2> QED BY <1>6, <2>1
<1>8. k - 1 \in Nat /\ k - 1 <= n /\ ~(k <= k - 1) /\ k \in 1..n
  BY <1>6, <1>7
<1>9. Placed(k - 1)
  <2>1. k - 1 \notin T
    BY <1>5, <1>8, Zenon
  <2> HIDE DEF Placed
  <2> QED BY <1>8, <2>1
<1> HIDE DEF T
<1>10. /\ f[k] = f[k-1] \o B[k] /\ g[k] = g[k-1] + Len(B[k])
       /\ f[k-1] \in Seq(S) /\ B[k] \in Seq(S) /\ g[k-1] \in Nat /\ g[k] \in Nat
  <2>1. k \in 0..n /\ k - 1 \in 0..n
    BY <1>8
  <2> QED BY <1>0, <1>1, <1>2, <1>3, <1>7, <1>8, <2>1, Zenon
<1>11. /\ Len(f[k-1]) = g[k-1]
       /\ \A i \in 1..(k-1) : /\ g[i] <= g[k-1]
                             /\ \A j \in 1..Len(B[i]) : f[k-1][g[i-1] + j] = B[i][j]
  BY <1>9, Zenon
<1>12. /\ Len(f[k]) = g[k] /\ Len(B[k]) \in Nat
       /\ \A x \in 1..g[k] : f[k][x] = IF x <= g[k-1] THEN f[k-1][x] ELSE B[k][x - g[k-1]]
  <2> DEFINE u == f[k-1]
             v == B[k]
  <2>1. u \in Seq(S) /\ v \in Seq(S) /\ f[k] = u \o v /\ Len(u) = g[k-1] /\ g[k] = g[k-1] + Len(v)
    BY <1>10, <1>11, Zenon
  <2> HIDE DEF u, v
  <2>2. Joined(f[k], u, v)
    BY <2>1, ConcatJoined, Zenon
  <2> QED BY <2>1, <2>2, Zenon DEF u, v, Joined
<1> HIDE DEF Placed
<1>13. g[k-1] \in Nat /\ g[k] = g[k-1] + Len(B[k]) /\ Len(B[k]) \in Nat
  BY <1>10, <1>12
<1>14. /\ \A x \in 1..g[k] : x <= g[k-1] => f[k][x] = f[k-1][x]
       /\ \A x \in 1..g[k] : ~(x <= g[k-1]) => f[k][x] = B[k][x - g[k-1]]
  BY <1>12, Zenon
<1>15. ASSUME NEW i \in 1..k, NEW j \in 1..Len(B[i])
       PROVE  f[k][g[i-1] + j] = B[i][j]
  <2>1. g[i-1] \in Nat /\ g[i] \in Nat /\ g[i] = g[i-1] + Len(B[i]) /\ Len(B[i]) \in Nat
    BY <1>0, <1>1, <1>3, <1>8
  <2>2. CASE i = k
    <3> DEFINE x == g[k-1] + j
    <3>1. x \in 1..g[k] /\ ~(x <= g[k-1]) /\ x - g[k-1] = j
      BY <1>13, <2>2
    <3>2. x = g[i-1] + j
      BY <2>2
    <3> HIDE DEF x
    <3>3. f[k][x] = B[k][x - g[k-1]]
      BY <1>14, <3>1, Zenon
    <3> QED BY <2>2, <3>1, <3>2, <3>3, Zenon
  <2>3. CASE i # k
    <3>1. i \in 1..(k - 1)
      BY <1>8, <2>3
    <3>2. g[i] <= g[k-1] /\ f[k-1][g[i-1] + j] = B[i][j]
      BY <1>11, <3>1
    <3>3. g[i-1] + j <= g[k-1] /\ g[i-1] + j \in 1..g[k]
      BY <1>13, <2>1, <3>2
    <3> QED BY <1>14, <3>2, <3>3, Zenon
  <2> QED BY <2>2, <2>3
<1>16. ASSUME NEW i \in 1..k PROVE g[i] <= g[k]
  <2>1. CASE i = k
    BY <1>10, <2>1
  <2>2. CASE i # k
    <3>1. i \in 1..(k - 1) /\ g[i] \in Nat
      BY <1>3, <1>8, <2>2
    <3>2. g[i] <= g[k-1]
      BY <1>11, <3>1
    <3> QED BY <1>10, <3>1, <3>2
  <2> QED BY <2>1, <2>2
<1> QED BY <1>6, <1>12, <1>15, <1>16, Zenon DEF Placed

(***************************************************************************)
(* What stands where in the block of a batch.                              *)
(***************************************************************************)
Sizes(recs, zip) == [i \in 1..Len(recs) |-> RecordSize(recs[i], zip)]

Blocks(from, recs, ts, zip) ==
  [i \in 1..Len(recs) |-> RecordCells(from + i - 1, ts, recs[i], zip)]

\* The recursive functions of SizeOfFirst and LogBlock are a running total and
\* a running concatenation.
LEMMA SizeOfFirstIs ==
  ASSUME NEW recs \in Seq(Records), NEW zip \in BOOLEAN, NEW k \in 0..Len(recs)
  PROVE  \E f : IsTotal(f, k, Sizes(recs, zip)) /\ SizeOfFirst(k, recs, zip) = f[k]
<1> DEFINE G == Sizes(recs, zip)
           Size(f) == f = [i \in 0..k |-> IF i = 0 THEN 0
                                          ELSE f[i-1] + RecordSize(recs[i], zip)]
<1>1. ASSUME NEW f PROVE IsTotal(f, k, G) <=> Size(f)
  <2>1. \A i \in 0..k : (IF i = 0 THEN 0 ELSE f[i-1] + G[i])
                        = (IF i = 0 THEN 0 ELSE f[i-1] + RecordSize(recs[i], zip))
    <3>1. \A i \in 0..k : i # 0 => G[i] = RecordSize(recs[i], zip)
      BY DEF Sizes
    <3> QED BY <3>1, Zenon
  <2>2. [i \in 0..k |-> IF i = 0 THEN 0 ELSE f[i-1] + G[i]]
          = [i \in 0..k |-> IF i = 0 THEN 0 ELSE f[i-1] + RecordSize(recs[i], zip)]
    BY <2>1, Zenon
  <2> QED BY <2>2, Zenon DEF IsTotal
<1>2. k \in Nat
  OBVIOUS
<1> HIDE DEF Size, G
<1>3. \E f : IsTotal(f, k, G)
  BY <1>2, TotalExists, Zenon
<1>4. Size(CHOOSE f : Size(f))
  BY <1>1, <1>3, Zenon
<1>5. IsTotal(CHOOSE f : Size(f), k, G)
  BY <1>1, <1>4, Zenon
<1>6. SizeOfFirst(k, recs, zip) = (CHOOSE f : Size(f))[k]
  BY DEF SizeOfFirst, Size
<1> QED BY <1>5, <1>6, Zenon DEF G

LEMMA LogBlockIs ==
  ASSUME NEW seg, NEW recs \in Seq(Records), NEW ts, NEW zip
  PROVE  \E f : /\ IsConcat(f, Len(recs), Blocks(seg.nextOffset, recs, ts, zip))
               /\ LogBlock(seg, recs, ts, zip) = f[Len(recs)]
<1> DEFINE n == Len(recs)
           B == Blocks(seg.nextOffset, recs, ts, zip)
           Image(f) == f = [i \in 0..n |-> IF i = 0 THEN << >>
             ELSE f[i-1] \o RecordCells(seg.nextOffset + i - 1, ts, recs[i], zip)]
<1>1. n \in Nat
  OBVIOUS
<1>2. ASSUME NEW f PROVE IsConcat(f, n, B) <=> Image(f)
  <2> DEFINE RC(i) == RecordCells(seg.nextOffset + i - 1, ts, recs[i], zip)
  <2>1. \A i \in 0..n : i # 0 => B[i] = RC(i)
    <3>1. \A i \in 0..n : i # 0 => i \in 1..n
      OBVIOUS
    <3> QED BY <3>1, Zenon DEF Blocks
  <2>2. ASSUME NEW i \in 0..n
        PROVE  (IF i = 0 THEN << >> ELSE f[i-1] \o B[i])
                 = (IF i = 0 THEN << >> ELSE f[i-1] \o RC(i))
    <3> HIDE DEF B, RC
    <3>1. CASE i = 0
      BY <3>1, Zenon
    <3>2. CASE i # 0
      BY <2>1, <3>2, Zenon
    <3> QED BY <3>1, <3>2, Zenon
  <2>3. [i \in 0..n |-> IF i = 0 THEN << >> ELSE f[i-1] \o B[i]]
          = [i \in 0..n |-> IF i = 0 THEN << >> ELSE f[i-1] \o RC(i)]
    BY <2>2, Zenon
  <2> QED BY <2>3, Zenon DEF IsConcat
<1> HIDE DEF Image, B, n
<1>3. \E f : IsConcat(f, n, B)
  BY <1>1, ConcatExists, Zenon
<1>4. Image(CHOOSE f : Image(f))
  BY <1>2, <1>3, Zenon
<1>5. IsConcat(CHOOSE f : Image(f), n, B)
  BY <1>2, <1>4, Zenon
<1>6. LogBlock(seg, recs, ts, zip) = (CHOOSE f : Image(f))[n]
  BY DEF LogBlock, Image, n
<1> QED BY <1>5, <1>6, Zenon DEF n, B

\* Lengths of records, and of blocks of records.
CellsOf(cells, off, ts, r, zip) ==
  /\ cells \in Seq(Cell)
  /\ RecordSize(r, zip) \in Nat
  /\ RecordSize(r, zip) = 1 + Len(Payload(r, zip))
  /\ Len(cells) = RecordSize(r, zip)
  /\ cells[1] = Header(off, ts, r)
  /\ \A i \in 1..Len(Payload(r, zip)) : cells[1 + i] = Payload(r, zip)[i]

LEMMA RecordCellsAre ==
  ASSUME NEW off \in Nat, NEW ts \in Nat, NEW r \in Records, NEW zip \in BOOLEAN
  PROVE  CellsOf(RecordCells(off, ts, r, zip), off, ts, r, zip)
<1> DEFINE p == Payload(r, zip)
           h == Header(off, ts, r)
<1>1. p \in Seq(Cell) /\ Len(p) \in Nat
  BY PayloadType
<1>2. h \in Cell
  <2>1. RawLen[r] \in Nat
    BY LengthAssumption
  <2> QED BY <2>1 DEF Header, Cell
<1>3. RecordCells(off, ts, r, zip) = <<h>> \o p /\ RecordSize(r, zip) = 1 + Len(p)
  BY DEF RecordCells, RecordSize, messageHeaderSize
<1> HIDE DEF p, h
<1>4. /\ <<h>> \o p \in Seq(Cell) /\ Len(<<h>> \o p) = 1 + Len(p)
      /\ (<<h>> \o p)[1] = h
      /\ \A i \in 1..Len(p) : (<<h>> \o p)[1 + i] = p[i]
  BY <1>1, <1>2
<1> QED BY <1>1, <1>3, <1>4 DEF p, h, CellsOf

\* Record i of a batch in its block: a header and a payload, between the sizes
\* of the first i - 1 and the first i records.
RecordInBlock(block, from, recs, ts, zip, i) ==
  LET p == SizeOfFirst(i - 1, recs, zip)
      n == Len(Payload(recs[i], zip))
  IN  /\ p \in Nat /\ n \in Nat
      /\ SizeOfFirst(i, recs, zip) = p + 1 + n
      /\ p + 1 + n <= Len(block)
      /\ block[p + 1] = Header(from + i - 1, ts, recs[i])
      /\ \A m \in 1..n : block[p + 1 + m] = Payload(recs[i], zip)[m]

\* The block of a batch holds its records one after the other.
LEMMA BlockCells ==
  ASSUME NEW seg \in SegmentType, NEW recs \in Seq(Records), NEW ts \in Nat, NEW zip \in BOOLEAN
  PROVE  /\ SizeOfFirst(0, recs, zip) = 0
         /\ Len(LogBlock(seg, recs, ts, zip)) = SizeOfFirst(Len(recs), recs, zip)
         /\ \A i \in 1..Len(recs) :
              RecordInBlock(LogBlock(seg, recs, ts, zip), seg.nextOffset, recs, ts, zip, i)
<1> DEFINE len == Len(recs)
           G == Sizes(recs, zip)
           B == Blocks(seg.nextOffset, recs, ts, zip)
           block == LogBlock(seg, recs, ts, zip)
           Off(i) == seg.nextOffset + i - 1
<1>1. len \in Nat /\ 0 \in 0..len /\ len \in 0..len /\ seg.nextOffset \in Nat
  BY DEF SegmentType
<1>2. PICK f : IsConcat(f, len, B) /\ block = f[len]
  BY LogBlockIs, Zenon
<1>3. PICK g : IsTotal(g, len, G)
  BY <1>1, TotalExists, Zenon
<1>4. ASSUME NEW k \in 0..len PROVE SizeOfFirst(k, recs, zip) = g[k]
  <2>1. PICK h : IsTotal(h, k, G) /\ SizeOfFirst(k, recs, zip) = h[k]
    BY SizeOfFirstIs, Zenon
  <2>2. k \in Nat /\ k <= len /\ k <= k
    BY <1>1
  <2>3. h[k] = g[k]
    <3>1. IsTotal(g, len, G) /\ IsTotal(h, k, G) /\ len \in Nat
      BY <1>1, <1>3, <2>1
    <3> HIDE DEF len, G
    <3> QED BY <2>2, <3>1, TotalsAgree
  <2> QED BY <2>1, <2>3, Zenon
<1>5. ASSUME NEW i \in 1..len
      PROVE  /\ recs[i] \in Records /\ Off(i) \in Nat
             /\ B[i] = RecordCells(Off(i), ts, recs[i], zip)
             /\ G[i] = RecordSize(recs[i], zip)
  BY <1>1 DEF Sizes, Blocks
<1>6. ASSUME NEW i \in 1..len
      PROVE  /\ B[i] \in Seq(Cell) /\ G[i] = Len(B[i]) /\ G[i] \in Nat
             /\ G[i] = 1 + Len(Payload(recs[i], zip)) /\ Len(Payload(recs[i], zip)) \in Nat
             /\ B[i][1] = Header(Off(i), ts, recs[i])
             /\ \A m \in 1..Len(Payload(recs[i], zip)) : B[i][1 + m] = Payload(recs[i], zip)[m]
  <2>1. recs[i] \in Records /\ Off(i) \in Nat
    BY <1>5
  <2>2. Len(Payload(recs[i], zip)) \in Nat
    BY <2>1, PayloadType, Zenon
  <2> HIDE DEF Off, G, B
  <2>3. CellsOf(B[i], Off(i), ts, recs[i], zip)
    BY <1>5, <2>1, RecordCellsAre, Zenon
  <2> QED BY <1>5, <2>2, <2>3, Zenon DEF CellsOf
<1> HIDE DEF G, B, len, block
<1>7. LaidOut(block, len, B, g)
  <2>1. SeqsOfLength(B, G, len, Cell)
    BY <1>6, Zenon DEF SeqsOfLength
  <2>2. LaidOut(f[len], len, B, g)
    BY <1>1, <1>2, <1>3, <2>1, ConcatLayout, Zenon
  <2> QED BY <1>2, <2>2, Zenon
<1>8. \A k \in 0..len : g[k] \in Nat
  BY <1>1, <1>3, <1>6, TotalType, Zenon
<1>9. \A k \in 0..len : g[k] = IF k = 0 THEN 0 ELSE g[k-1] + G[k]
  BY <1>3 DEF IsTotal
<1>10. SizeOfFirst(0, recs, zip) = 0
  BY <1>1, <1>4, <1>9
<1>11. Len(block) = SizeOfFirst(len, recs, zip) /\ Len(block) = g[len]
  BY <1>1, <1>4, <1>7, Zenon DEF LaidOut
<1>12. ASSUME NEW i \in 1..len
       PROVE  RecordInBlock(block, seg.nextOffset, recs, ts, zip, i)
  <2> DEFINE p == SizeOfFirst(i - 1, recs, zip)
             pay == Payload(recs[i], zip)
             n == Len(pay)
             b == B[i]
  <2>1. i - 1 \in 0..len /\ i \in 0..len /\ i # 0
    BY <1>1
  <2>2. p = g[i-1] /\ SizeOfFirst(i, recs, zip) = g[i]
    BY <1>4, <2>1, Zenon
  <2>3. n \in Nat /\ Len(b) = 1 + n /\ G[i] = 1 + n /\ b[1] = Header(Off(i), ts, recs[i])
        /\ \A m \in 1..n : b[1 + m] = pay[m]
    BY <1>6, Zenon
  <2> HIDE DEF p, pay, n, b, Off
  <2>4. p \in Nat /\ g[i] = p + (1 + n) /\ g[i] \in Nat
    BY <1>8, <1>9, <2>1, <2>2, <2>3
  <2>5. g[i] <= Len(block) /\ \A j \in 1..Len(b) : block[p + j] = b[j]
    BY <1>7, <1>11, <2>2, Zenon DEF b, LaidOut
  <2>6. g[i] = p + 1 + n /\ p + 1 + n <= Len(block)
    <3>1. g[i] <= Len(block) /\ n \in Nat
      BY <2>3, <2>5, Zenon
    <3> QED BY <2>4, <3>1
  <2>7. block[p + 1] = Header(Off(i), ts, recs[i])
    <3>1. 1 \in 1..Len(b)
      BY <2>3
    <3> QED BY <2>3, <2>5, <3>1, Zenon
  <2>8. ASSUME NEW m \in 1..n PROVE block[p + 1 + m] = pay[m]
    <3>1. 1 + m \in 1..Len(b) /\ p + (1 + m) = p + 1 + m
      BY <2>3, <2>4
    <3>2. block[p + (1 + m)] = b[1 + m]
      BY <2>5, <3>1, Zenon
    <3> QED BY <2>3, <3>1, <3>2, Zenon
  <2>9. p \in Nat /\ n \in Nat /\ SizeOfFirst(i, recs, zip) = p + 1 + n
    BY <2>2, <2>3, <2>4, <2>6, Zenon
  <2> QED BY <2>6, <2>7, <2>8, <2>9, Zenon DEF p, n, pay, Off, RecordInBlock
<1> QED BY <1>10, <1>11, <1>12, Zenon DEF len, block

(***************************************************************************)
(* Files that hold what was acknowledged.                                  *)
(***************************************************************************)
HeaderOf(cell, off, r) ==
  cell.kind = "header" /\ cell.offset = off /\ cell.size = RawLen[r]

\* Record r, encoded as zip says, stands at pos, before end, or exactly up to it.
StoredAt(log, pos, end, off, r, zip, exact) ==
  LET n == Len(Payload(r, zip))
  IN  /\ end <= Len(log)
      /\ pos + 1 + n <= end
      /\ exact => pos + 1 + n = end
      /\ HeaderOf(log[pos + 1], off, r)
      /\ \A i \in 1..n : log[pos + 1 + i] = Payload(r, zip)[i]

\* Where a reader takes the record of index entry e to end.
EndOf(log, index, e) == IF e < Len(index) THEN index[e + 1].position ELSE Len(log)

Slot(log, index, e, off, r, zip, exact) ==
  /\ index[e].offset = off
  /\ StoredAt(log, index[e].position, EndOf(log, index, e), off, r, zip, exact)

Agrees(acks, off, r) == \A a \in acks : a.offset = off => a.rec = r

\* Entry e is about offset base + e - 1 and finds the record acknowledged for it.
SegmentFile(base, log, index, acks, exact, encodings) ==
  /\ \A e \in 1..Len(index) : \E r \in Records, zip \in encodings :
       Slot(log, index, e, base + e - 1, r, zip, exact) /\ Agrees(acks, base + e - 1, r)
  /\ exact /\ index = << >> => log = << >>

\* A file that grows keeps its records.
LEMMA StoredGrows ==
  ASSUME NEW log, NEW part, NEW new, Joined(new, log, part),
         NEW pos \in Nat, NEW end \in Nat, NEW newEnd \in Nat,
         NEW off, NEW r \in Records, NEW zip \in BOOLEAN, NEW exact,
         StoredAt(log, pos, end, off, r, zip, exact),
         end <= newEnd, newEnd <= Len(new), exact => newEnd = end
  PROVE  StoredAt(new, pos, newEnd, off, r, zip, exact)
<1> DEFINE p == Payload(r, zip)
           n == Len(p)
<1>1. n \in Nat
  BY PayloadType
<1>2. /\ end <= Len(log) /\ pos + 1 + n <= end
      /\ exact => pos + 1 + n = end
      /\ HeaderOf(log[pos + 1], off, r)
      /\ \A i \in 1..n : log[pos + 1 + i] = p[i]
  BY DEF StoredAt
<1>3. Len(new) = Len(log) + Len(part) /\ Len(log) \in Nat /\ Len(part) \in Nat
  BY DEF Joined
<1>4. \A x \in 1..(Len(log) + Len(part)) : x <= Len(log) => new[x] = log[x]
  BY Zenon DEF Joined
<1> HIDE DEF n, p
<1>5. \A i \in 0..n : pos + 1 + i \in 1..(Len(log) + Len(part)) /\ pos + 1 + i <= Len(log)
  <2>1. end <= Len(log) /\ pos + 1 + n <= end
    BY <1>2
  <2> QED BY <1>1, <1>3, <2>1
<1>6. \A i \in 0..n : new[pos + 1 + i] = log[pos + 1 + i]
  BY <1>4, <1>5, Zenon
<1>7. new[pos + 1] = log[pos + 1]
  <2>1. 0 \in 0..n /\ pos + 1 + 0 = pos + 1
    BY <1>1
  <2> QED BY <1>6, <2>1, Zenon
<1>8. \A i \in 1..n : new[pos + 1 + i] = p[i]
  <2>1. \A i \in 1..n : i \in 0..n
    BY <1>1
  <2> QED BY <1>2, <1>6, <2>1, Zenon
<1>9. pos + 1 + n <= newEnd /\ (exact => pos + 1 + n = newEnd)
  <2>1. pos + 1 + n <= end /\ (exact => pos + 1 + n = end)
    BY <1>2
  <2> QED BY <1>1, <2>1
<1> QED BY <1>2, <1>7, <1>8, <1>9, Zenon DEF StoredAt, n, p

\* A block that was written out puts its records behind what was there.
LEMMA StoredBlock ==
  ASSUME NEW seg \in SegmentType, NEW recs \in Seq(Records), NEW ts \in Nat, NEW zip \in BOOLEAN,
         NEW log, NEW new, Joined(new, log, LogBlock(seg, recs, ts, zip)),
         NEW i \in 1..Len(recs), NEW end \in Nat, NEW exact,
         Len(log) + SizeOfFirst(i, recs, zip) <= end, end <= Len(new),
         exact => end = Len(log) + SizeOfFirst(i, recs, zip)
  PROVE  StoredAt(new, Len(log) + SizeOfFirst(i - 1, recs, zip), end,
                  seg.nextOffset + i - 1, recs[i], zip, exact)
<1> DEFINE block == LogBlock(seg, recs, ts, zip)
           s == SizeOfFirst(i - 1, recs, zip)
           p == Payload(recs[i], zip)
           n == Len(p)
           off == seg.nextOffset + i - 1
           h == Header(off, ts, recs[i])
           l == Len(log)
           len == Len(block)
<1>1. /\ s \in Nat /\ n \in Nat /\ SizeOfFirst(i, recs, zip) = s + 1 + n
      /\ s + 1 + n <= len
      /\ block[s + 1] = h
      /\ \A m \in 1..n : block[s + 1 + m] = p[m]
  <2>1. RecordInBlock(block, seg.nextOffset, recs, ts, zip, i)
    BY BlockCells, Zenon
  <2> QED BY <2>1, Zenon DEF RecordInBlock
<1>2. Joined(new, log, block)
  OBVIOUS
<1>3. l \in Nat /\ len \in Nat /\ Len(new) = l + len
  BY <1>2 DEF Joined
<1>4. \A x \in 1..(l + len) : ~(x <= l) => new[x] = block[x - l]
  BY <1>2, Zenon DEF Joined
<1>5. HeaderOf(h, off, recs[i])
  BY DEF HeaderOf, Header
<1>6. /\ l + (s + 1 + n) <= end /\ end <= Len(new)
      /\ exact => end = l + (s + 1 + n)
  BY <1>1, Zenon
<1> HIDE DEF s, n, p, off, h, l, len, block
<1>7. s \in Nat /\ n \in Nat /\ s + 1 + n <= len
  BY <1>1
<1>8. ASSUME NEW m \in 0..n PROVE new[(l + s) + 1 + m] = block[s + 1 + m]
  <2> DEFINE x == (l + s) + 1 + m
  <2>1. x \in 1..(l + len) /\ ~(x <= l) /\ x - l = s + 1 + m
    BY <1>3, <1>7
  <2> HIDE DEF x
  <2>2. new[x] = block[x - l]
    BY <1>4, <2>1, Zenon
  <2> QED BY <2>1, <2>2, Zenon DEF x
<1>9. new[(l + s) + 1] = h
  <2>1. 0 \in 0..n /\ (l + s) + 1 + 0 = (l + s) + 1 /\ s + 1 + 0 = s + 1
    BY <1>3, <1>7
  <2>2. new[(l + s) + 1 + 0] = block[s + 1 + 0]
    BY <1>8, <2>1, Zenon
  <2> QED BY <1>1, <2>1, <2>2, Zenon
<1>10. \A m \in 1..n : new[(l + s) + 1 + m] = p[m]
  <2>1. \A m \in 1..n : m \in 0..n
    BY <1>1
  <2> QED BY <1>1, <1>8, <2>1, Zenon
<1>11. /\ (l + s) + 1 + n <= end
       /\ exact => (l + s) + 1 + n = end
  <2>1. s \in Nat /\ n \in Nat
    BY <1>1
  <2> QED BY <1>3, <1>6, <2>1
<1>12. StoredAt(new, l + s, end, off, recs[i], zip, exact)
  BY <1>5, <1>6, <1>9, <1>10, <1>11, Zenon DEF StoredAt, n, p
<1> QED BY <1>12, Zenon DEF l, s, off

\* What a write adds to the acknowledgements.
NewAcks(newAcks, acks, from, recs) ==
  \A a \in newAcks : \/ a \in acks
                     \/ \E i \in 1..Len(recs) : a.offset = from + i - 1 /\ a.rec = recs[i]

\* The files of a segment before a write, and the write.
BeforeWrite(base, seg, log, index, acks, newAcks, recs) ==
  /\ seg.size = Len(log) /\ seg.nextOffset = base + Len(index)
  /\ \A a \in acks : a.offset \in Nat /\ a.offset < seg.nextOffset
  /\ NewAcks(newAcks, acks, seg.nextOffset, recs)

\* What a write puts into the files: all of a batch, or part of its cells without
\* index entries, or all of its cells with part of the entries.
WritesPart(seg, recs, ts, zip, cells, entries, exact) ==
  /\ Len(entries) <= Len(recs)
  /\ \A i \in 1..Len(entries) : entries[i] = IndexBlock(seg, recs, zip)[i]
  /\ Len(entries) = 0 \/ cells = LogBlock(seg, recs, ts, zip)
  /\ exact => Len(entries) = Len(recs) /\ Len(recs) # 0

\* A write to a segment's files, which hold what was acknowledged before it.
WriteTo(base, log, index, acks, exact, encodings, seg, recs, ts, zip, cells, entries, newAcks) ==
  /\ base \in Nat /\ log \in Seq(Cell) /\ index \in Seq(IndexEntry)
  /\ exact \in BOOLEAN /\ encodings \in SUBSET BOOLEAN
  /\ seg \in SegmentType /\ recs \in Seq(Records) /\ ts \in Nat /\ zip \in encodings
  /\ SegmentFile(base, log, index, acks, exact, encodings)
  /\ BeforeWrite(base, seg, log, index, acks, newAcks, recs)
  /\ WritesPart(seg, recs, ts, zip, cells, entries, exact)

\* After a write the records before it stay, and the entries written find the
\* records of the batch.
LEMMA GrownFile ==
  ASSUME NEW base, NEW log, NEW index, NEW acks, NEW exact, NEW encodings, NEW seg, NEW recs,
         NEW ts, NEW zip, NEW cells, NEW entries, NEW newAcks, NEW newLog, NEW newIndex,
         WriteTo(base, log, index, acks, exact, encodings, seg, recs, ts, zip, cells, entries, newAcks),
         Joined(newLog, log, cells), Joined(newIndex, index, entries)
  PROVE  SegmentFile(base, newLog, newIndex, newAcks, exact, encodings)
<1>0. /\ base \in Nat /\ log \in Seq(Cell) /\ index \in Seq(IndexEntry)
      /\ exact \in BOOLEAN /\ encodings \in SUBSET BOOLEAN
      /\ seg \in SegmentType /\ recs \in Seq(Records) /\ ts \in Nat /\ zip \in encodings
      /\ SegmentFile(base, log, index, acks, exact, encodings)
      /\ BeforeWrite(base, seg, log, index, acks, newAcks, recs)
      /\ WritesPart(seg, recs, ts, zip, cells, entries, exact)
  BY DEF WriteTo
<1> USE <1>0
<1> DEFINE l == Len(log)
           c == Len(cells)
           n == Len(index)
           j == Len(entries)
           len == Len(recs)
           from == seg.nextOffset
           P(i) == l + SizeOfFirst(i, recs, zip)
           block == LogBlock(seg, recs, ts, zip)
<1>1. /\ l \in Nat /\ c \in Nat /\ n \in Nat /\ j \in Nat /\ len \in Nat
      /\ Len(newLog) = l + c /\ Len(newIndex) = n + j /\ j <= len
      /\ zip \in BOOLEAN /\ from = base + n /\ from \in Nat
      /\ exact => j = len /\ len # 0
  BY DEF Joined, BeforeWrite, WritesPart
<1>2. /\ \A e \in 1..(n + j) : e <= n => newIndex[e] = index[e]
      /\ \A e \in 1..(n + j) : ~(e <= n) => newIndex[e] = entries[e - n]
  BY Zenon DEF Joined
<1>3. \A i \in 1..j : entries[i] = [offset |-> from + i - 1, position |-> P(i - 1)]
  <2>1. seg.size = l
    BY DEF BeforeWrite
  <2>2. \A i \in 1..len : IndexBlock(seg, recs, zip)[i] = [offset |-> from + i - 1, position |-> P(i - 1)]
    BY <2>1, Zenon DEF IndexBlock
  <2>3. \A i \in 1..j : i \in 1..len
    BY <1>1
  <2>4. \A i \in 1..j : entries[i] = IndexBlock(seg, recs, zip)[i]
    BY Zenon DEF WritesPart
  <2> QED BY <2>2, <2>3, <2>4, Zenon
<1>4. /\ SizeOfFirst(0, recs, zip) = 0 /\ Len(block) = SizeOfFirst(len, recs, zip)
      /\ \A i \in 1..len : RecordInBlock(block, from, recs, ts, zip, i)
  BY <1>1, BlockCells, Zenon
<1>5. ASSUME NEW i \in 1..len
      PROVE  /\ P(i - 1) \in Nat /\ P(i) \in Nat /\ P(i) <= l + Len(block) /\ P(i - 1) <= P(i)
             /\ l <= P(i - 1)
  <2> DEFINE p == SizeOfFirst(i - 1, recs, zip)
             q == Len(Payload(recs[i], zip))
             s == SizeOfFirst(i, recs, zip)
             t == Len(block)
  <2>1. p \in Nat /\ q \in Nat /\ s = p + 1 + q /\ p + 1 + q <= t
    BY <1>4, Zenon DEF RecordInBlock
  <2>2. t \in Nat
    <3>1. block \in Seq(Cell)
      BY <1>1, LogBlockType
    <3> QED BY <3>1
  <2> HIDE DEF p, q, s, t
  <2>3. l + p \in Nat /\ l + s \in Nat /\ l + s <= l + t /\ l + p <= l + s /\ l <= l + p
    BY <1>1, <2>1, <2>2
  <2> QED BY <2>3, Zenon DEF p, s, t
<1>6. ASSUME NEW i \in 1..j
      PROVE  newIndex[n + i] = [offset |-> base + (n + i) - 1, position |-> P(i - 1)]
  <2> DEFINE x == n + i
  <2>1. x \in 1..(n + j) /\ ~(x <= n) /\ x - n = i /\ from + i - 1 = base + x - 1
    BY <1>1
  <2> HIDE DEF x, from
  <2>2. newIndex[x] = entries[i]
    BY <1>2, <2>1, Zenon
  <2> HIDE DEF P
  <2>3. entries[i] = [offset |-> from + i - 1, position |-> P(i - 1)]
    BY <1>3, Zenon
  <2>4. newIndex[x] = [offset |-> base + x - 1, position |-> P(i - 1)]
    BY <2>1, <2>2, <2>3, Zenon
  <2> QED BY <2>4, Zenon DEF x
<1> HIDE DEF P, l, c, n, j, len, from, block
<1>7. P(0) = l
  <2>1. P(0) = l + 0
    BY <1>4, Zenon DEF P
  <2> QED BY <1>1, <2>1
<1>8. ASSUME NEW e \in 1..n
      PROVE  \E r \in Records, z \in encodings :
               Slot(newLog, newIndex, e, base + e - 1, r, z, exact) /\ Agrees(newAcks, base + e - 1, r)
  <2>1. PICK r \in Records, z \in encodings :
          Slot(log, index, e, base + e - 1, r, z, exact) /\ Agrees(acks, base + e - 1, r)
    BY Zenon DEF SegmentFile, n
  <2>2. index[e].position \in Nat
    <3>1. index[e] \in IndexEntry
      BY DEF n
    <3> QED BY <3>1 DEF IndexEntry
  <2>3. e \in 1..(n + j) /\ e <= n
    BY <1>1
  <2>4. newIndex[e] = index[e]
    BY <1>2, <2>3, Zenon
  <2> DEFINE old == EndOf(log, index, e)
             new == EndOf(newLog, newIndex, e)
  <2>5. /\ old \in Nat /\ new \in Nat /\ old <= new /\ new <= Len(newLog) /\ (exact => new = old)
    <3>1. old <= l
      BY <2>1, Zenon DEF Slot, StoredAt, l
    <3>2. CASE e < n
      <4>1. e + 1 \in 1..(n + j) /\ e + 1 <= n /\ e < n + j
        BY <1>1, <3>2
      <4>2. newIndex[e + 1] = index[e + 1]
        BY <1>2, <4>1, Zenon
      <4>3. index[e + 1] \in IndexEntry
        BY <3>2 DEF n
      <4>4. index[e + 1].position \in Nat
        BY <4>3 DEF IndexEntry
      <4>5. old = index[e + 1].position /\ new = index[e + 1].position
        BY <1>1, <3>2, <4>1, <4>2, Zenon DEF EndOf, n
      <4> QED BY <1>1, <3>1, <4>4, <4>5
    <3>3. CASE e = n /\ j = 0
      <4>1. old = l /\ new = l + c
        BY <1>1, <3>3 DEF EndOf, n, l
      <4>2. ~exact
        BY <1>1, <3>3
      <4> QED BY <1>1, <4>1, <4>2
    <3>4. CASE e = n /\ j # 0
      <4>1. 1 \in 1..j /\ 1 - 1 = 0 /\ e < n + j /\ ~(e < n)
        BY <1>1, <3>4
      <4>2. newIndex[n + 1].position = P(0)
        <5>1. newIndex[n + 1] = [offset |-> base + (n + 1) - 1, position |-> P(1 - 1)]
          BY <1>6, <4>1, Zenon
        <5>2. newIndex[n + 1].position = P(1 - 1)
          BY <5>1
        <5> QED BY <4>1, <5>2, Zenon
      <4>3. old = l /\ new = P(0)
        BY <1>1, <3>4, <4>1, <4>2, Zenon DEF EndOf, n, l
      <4> QED BY <1>1, <1>7, <4>3
    <3>5. e < n \/ e = n
      BY <1>1
    <3> QED BY <3>2, <3>3, <3>4, <3>5
  <2> HIDE DEF old, new
  <2>6. StoredAt(log, index[e].position, old, base + e - 1, r, z, exact)
    BY <2>1, Zenon DEF Slot, old
  <2>7. StoredAt(newLog, index[e].position, new, base + e - 1, r, z, exact)
    <3> DEFINE pos == index[e].position
               off == base + e - 1
    <3>1. z \in BOOLEAN /\ pos \in Nat /\ Joined(newLog, log, cells)
      BY <2>2
    <3>2. StoredAt(log, pos, old, off, r, z, exact)
      BY <2>6
    <3> HIDE DEF pos, off
    <3>3. StoredAt(newLog, pos, new, off, r, z, exact)
      BY <2>5, <3>1, <3>2, StoredGrows
    <3> QED BY <3>3, Zenon DEF pos, off
  <2>8. Slot(newLog, newIndex, e, base + e - 1, r, z, exact)
    BY <2>1, <2>4, <2>7, Zenon DEF Slot, new
  <2>9. Agrees(newAcks, base + e - 1, r)
    <3>1. SUFFICES ASSUME NEW a \in newAcks, a.offset = base + e - 1 PROVE a.rec = r
      BY Zenon DEF Agrees
    <3>2. \A i \in 1..len : base + e - 1 # from + i - 1
      BY <1>1
    <3>3. a \in acks
      BY <3>1, <3>2, Zenon DEF BeforeWrite, NewAcks, from, len
    <3> QED BY <2>1, <3>1, <3>3, Zenon DEF Agrees
  <2> QED BY <2>8, <2>9, Zenon
<1>9. ASSUME NEW i \in 1..j
      PROVE  \E r \in Records, z \in encodings :
               /\ Slot(newLog, newIndex, n + i, base + (n + i) - 1, r, z, exact)
               /\ Agrees(newAcks, base + (n + i) - 1, r)
  <2> DEFINE e == n + i
             new == EndOf(newLog, newIndex, e)
  <2>1. i \in 1..len /\ j # 0 /\ base + e - 1 = from + i - 1 /\ i - 1 \in Nat
    BY <1>1
  <2>2. recs[i] \in Records
    BY <2>1 DEF len
  <2>3. cells = block
    BY <2>1, Zenon DEF j, block, WritesPart
  <2>4. Joined(newLog, log, block)
    BY <2>3, Zenon
  <2>5. c = Len(block) /\ P(len) = l + c
    BY <1>4, <2>3, Zenon DEF c, P
  <2>6. /\ new \in Nat /\ P(i) <= new /\ new <= Len(newLog) /\ (exact => new = P(i))
    <3>1. CASE i < j
      <4>1. i + 1 \in 1..j /\ i + 1 \in 1..len /\ (i + 1) - 1 = i /\ e < n + j /\ n + (i + 1) = e + 1
        BY <1>1, <3>1
      <4>2. newIndex[e + 1].position = P(i)
        <5>1. newIndex[n + (i + 1)] = [offset |-> base + (n + (i + 1)) - 1, position |-> P((i + 1) - 1)]
          BY <1>6, <4>1, Zenon
        <5>2. newIndex[n + (i + 1)].position = P((i + 1) - 1)
          BY <5>1
        <5> QED BY <4>1, <5>2, Zenon
      <4>3. new = P(i)
        BY <1>1, <4>1, <4>2, Zenon DEF EndOf
      <4>4. P(i) \in Nat /\ P(i) <= l + Len(block)
        BY <1>5, <2>1, Zenon
      <4> HIDE DEF new
      <4> QED BY <1>1, <2>5, <4>3, <4>4
    <3>2. CASE i = j
      <4>1. ~(e < n + j)
        BY <1>1, <3>2
      <4>2. new = l + c
        BY <1>1, <4>1, Zenon DEF EndOf
      <4>3. P(i) \in Nat /\ P(i) <= l + Len(block)
        BY <1>5, <2>1, Zenon
      <4>4. exact => P(i) = l + c
        BY <1>1, <2>5, <3>2, Zenon
      <4> HIDE DEF new
      <4> QED BY <1>1, <2>5, <4>2, <4>3, <4>4
    <3>3. i < j \/ i = j
      BY <1>1
    <3> QED BY <3>1, <3>2, <3>3
  <2>7. newIndex[e].offset = base + e - 1 /\ newIndex[e].position = P(i - 1)
    <3> DEFINE o == base + (n + i) - 1
    <3>1. newIndex[e] = [offset |-> o, position |-> P(i - 1)]
      BY <1>6, Zenon
    <3> HIDE DEF o
    <3>2. newIndex[e].offset = o /\ newIndex[e].position = P(i - 1)
      BY <3>1
    <3> QED BY <3>2, Zenon DEF o
  <2> HIDE DEF e, new
  <2>8. StoredAt(newLog, P(i - 1), new, from + i - 1, recs[i], zip, exact)
    <3>1. i \in 1..Len(recs) /\ P(i) = Len(log) + SizeOfFirst(i, recs, zip)
      BY <2>1, Zenon DEF len, P, l
    <3>2. /\ Len(log) + SizeOfFirst(i, recs, zip) <= new /\ new <= Len(newLog) /\ new \in Nat
          /\ exact => new = Len(log) + SizeOfFirst(i, recs, zip)
      BY <2>6, <3>1, Zenon
    <3>3. Joined(newLog, log, LogBlock(seg, recs, ts, zip)) /\ zip \in BOOLEAN
      BY <1>1, <2>4, Zenon DEF block
    <3>4. StoredAt(newLog, Len(log) + SizeOfFirst(i - 1, recs, zip), new,
                   seg.nextOffset + i - 1, recs[i], zip, exact)
      BY <3>1, <3>2, <3>3, StoredBlock, Zenon
    <3> QED BY <3>4, Zenon DEF P, l, from
  <2>9. Slot(newLog, newIndex, e, base + e - 1, recs[i], zip, exact)
    BY <2>1, <2>7, <2>8, Zenon DEF Slot, new
  <2>10. Agrees(newAcks, base + e - 1, recs[i])
    <3>1. SUFFICES ASSUME NEW a \in newAcks, a.offset = base + e - 1 PROVE a.rec = recs[i]
      BY Zenon DEF Agrees
    <3>2. a \notin acks
      <4>1. \A b \in acks : b.offset \in Nat /\ b.offset < from
        BY Zenon DEF BeforeWrite, from
      <4>2. ~(base + e - 1 < from)
        BY <1>1, <2>1
      <4> QED BY <3>1, <4>1, <4>2, Zenon
    <3>3. PICK m \in 1..len : a.offset = from + m - 1 /\ a.rec = recs[m]
      BY <3>2, Zenon DEF BeforeWrite, NewAcks, from, len
    <3>4. from + m - 1 = from + i - 1
      BY <2>1, <3>1, <3>3, Zenon
    <3>5. m = i
      BY <1>1, <3>4
    <3> QED BY <3>3, <3>5, Zenon
  <2> QED BY <2>2, <2>9, <2>10, Zenon DEF e
<1>10. ASSUME NEW e \in 1..Len(newIndex)
       PROVE  \E r \in Records, z \in encodings :
                Slot(newLog, newIndex, e, base + e - 1, r, z, exact) /\ Agrees(newAcks, base + e - 1, r)
  <2>1. CASE e <= n
    <3>1. e \in 1..n
      BY <1>1, <2>1
    <3> QED BY <1>8, <3>1, Zenon
  <2>2. CASE ~(e <= n)
    <3>1. e - n \in 1..j /\ n + (e - n) = e
      BY <1>1, <2>2
    <3> QED BY <1>9, <3>1, Zenon
  <2> QED BY <2>1, <2>2
<1>11. exact => newIndex # << >>
  <2>1. exact => Len(newIndex) # 0
    BY <1>1
  <2>2. Len(<< >>) = 0
    OBVIOUS
  <2> QED BY <2>1, <2>2, Zenon
<1> QED BY <1>10, <1>11, Zenon DEF SegmentFile

(***************************************************************************)
(* Reading a record back.                                                  *)
(***************************************************************************)
\* A slot that is where findMessageBounds looks first.
LEMMA DirectHit ==
  ASSUME NEW seg \in SegmentType, NEW index, NEW e \in Nat, e \in 1..Len(index), Len(index) \in Nat,
         seg.indexEntries = Len(index), index[e].offset = seg.baseOffset + e - 1
  PROVE  FindSlot(seg, index, seg.baseOffset + e - 1) = e - 1
<1> DEFINE off == seg.baseOffset + e - 1
           d == off - seg.baseOffset
<1>1. seg.baseOffset \in Nat
  BY DEF SegmentType
<1>2. d = e - 1 /\ d + 1 = e /\ d < Len(index)
  BY <1>1
<1>3. d < seg.indexEntries /\ index[d+1].offset = off
  BY <1>2, Zenon
<1> HIDE DEF off
<1>4. FindSlot(seg, index, off) = d
  BY <1>3, Zenon DEF FindSlot
<1> QED BY <1>2, <1>4, Zenon DEF off

\* The bytes Read takes for the payload of a slot.
RawOf(log, index, e) == SubSeq(log, index[e].position + 2, EndOf(log, index, e))

\* What Read returns for a slot: the bytes up to the next entry, decoded, if
\* their length is the one in the header.
SlotRead(seg, log, index, e, r, zip) ==
  LET raw     == RawOf(log, index, e)
      payload == IF zip THEN Decode(raw) ELSE raw
      off     == seg.baseOffset + e - 1
  IN  IF off >= seg.nextOffset \/ ~seg.open \/ (zip /\ ~Decodes(raw)) \/ Len(payload) # RawLen[r]
      THEN ReadError
      ELSE Message(log[index[e].position + 1], payload)

\* A cached view of the files.
Mirrors(seg, log, index) == seg.size = Len(log) /\ seg.indexEntries = Len(index)

LEMMA ReadSlot ==
  ASSUME NEW seg \in SegmentType, NEW log \in Seq(Cell), NEW index \in Seq(IndexEntry),
         Mirrors(seg, log, index), NEW e \in 1..Len(index),
         NEW r \in Records, NEW z \in BOOLEAN, NEW exact, NEW zip \in BOOLEAN,
         Slot(log, index, e, seg.baseOffset + e - 1, r, z, exact)
  PROVE  ReadSegment(seg, log, index, zip, seg.baseOffset + e - 1) = SlotRead(seg, log, index, e, r, zip)
<1> DEFINE off == seg.baseOffset + e - 1
           pos == index[e].position
           end == EndOf(log, index, e)
           n == Len(Payload(r, z))
           hdr == log[pos + 1]
           raw == RawOf(log, index, e)
<1>1. /\ seg.baseOffset \in Nat /\ seg.nextOffset \in Nat /\ e \in Nat /\ Len(index) \in Nat
      /\ Len(log) \in Nat
  BY DEF SegmentType
<1>2. index[e] \in IndexEntry
  OBVIOUS
<1>3. pos \in Nat /\ n \in Nat
  BY <1>2, PayloadType DEF IndexEntry
<1>4. index[e].offset = off /\ end <= Len(log) /\ pos + 1 + n <= end /\ HeaderOf(hdr, off, r)
  BY Zenon DEF Slot, StoredAt
<1>5. hdr.kind = "header" /\ hdr.offset = off /\ hdr.size = RawLen[r]
  BY <1>4, Zenon DEF HeaderOf
<1>6. FindSlot(seg, index, off) = e - 1
  BY <1>1, <1>4, DirectHit DEF Mirrors
<1>7. EndPosition(seg, index, e - 1) = end
  <2>1. (e - 1) + 1 = e /\ (e - 1) + 2 = e + 1
    BY <1>1
  <2>2. EndPosition(seg, index, e - 1)
          = IF (e - 1) + 1 < seg.indexEntries THEN index[(e - 1) + 2].position ELSE seg.size
    BY DEF EndPosition
  <2> QED BY <2>1, <2>2, Zenon DEF Mirrors, EndOf
<1>8. end \in Nat
  <2>1. CASE e < Len(index)
    <3>1. index[e + 1] \in IndexEntry
      BY <1>1, <2>1
    <3> QED BY <2>1, <3>1 DEF EndOf, IndexEntry
  <2>2. CASE ~(e < Len(index))
    BY <1>1, <2>2 DEF EndOf
  <2> QED BY <2>1, <2>2
<1> HIDE DEF end, n, pos, hdr
<1>9. /\ ~(off < seg.baseOffset) /\ (e - 1) + 1 = e /\ e - 1 # NotFound
      /\ ~(pos >= Len(log)) /\ ~(end - pos < messageHeaderSize)
      /\ pos + messageHeaderSize + 1 = pos + 2
  BY <1>1, <1>3, <1>4, <1>8 DEF NotFound, messageHeaderSize
<1> DEFINE payload == IF zip THEN Decode(raw) ELSE raw
           bad == off >= seg.nextOffset \/ ~seg.open
<1>10. raw = SubSeq(log, pos + messageHeaderSize + 1, end)
  BY <1>9, Zenon DEF RawOf, pos, end
<1> HIDE DEF off, raw
<1>11. ReadSegment(seg, log, index, zip, off)
         = IF bad THEN ReadError
           ELSE IF zip /\ ~Decodes(raw) THEN ReadError
           ELSE IF SizeMatches(hdr, payload) THEN Message(hdr, payload) ELSE ReadError
  <2>1. CASE bad
    BY <2>1, Zenon DEF ReadSegment
  <2>2. CASE ~bad
    <3> DEFINE slot == FindSlot(seg, index, off)
    <3>1. slot # NotFound /\ index[slot+1].position = pos /\ EndPosition(seg, index, slot) = end
      BY <1>6, <1>7, <1>9, Zenon DEF pos
    <3> HIDE DEF slot
    <3>2. ReadSegment(seg, log, index, zip, off)
            = LET p  == index[slot+1].position
                  ed == EndPosition(seg, index, slot)
                  h  == log[p+1]
                  ra == SubSeq(log, p + messageHeaderSize + 1, ed)
              IN  IF \/ p >= Len(log) \/ h.kind # "header" \/ h.offset # off
                  THEN ReadError
                  ELSE IF ed - p < messageHeaderSize THEN ReadPanic
                  ELSE IF zip /\ ~Decodes(ra) THEN ReadError
                  ELSE LET pl == IF zip THEN Decode(ra) ELSE ra
                       IN  IF SizeMatches(h, pl) THEN Message(h, pl) ELSE ReadError
      BY <1>9, <2>2, <3>1, Zenon DEF ReadSegment, slot
    <3>3. log[pos + 1] = hdr
      BY DEF hdr
    <3> QED BY <1>5, <1>9, <1>10, <2>2, <3>1, <3>2, <3>3, Zenon
  <2> QED BY <2>1, <2>2, Zenon
<1>12. SizeMatches(hdr, payload) <=> Len(payload) = RawLen[r]
  BY <1>5, Zenon DEF SizeMatches
<1> HIDE DEF payload
<1>13. SlotRead(seg, log, index, e, r, zip)
         = IF bad \/ (zip /\ ~Decodes(raw)) \/ Len(payload) # RawLen[r]
           THEN ReadError ELSE Message(hdr, payload)
  BY Zenon DEF SlotRead, payload, raw, off, hdr, pos
<1>14. ReadSegment(seg, log, index, zip, off) = SlotRead(seg, log, index, e, r, zip)
  <2> HIDE DEF bad
  <2> DEFINE garbled == zip /\ ~Decodes(raw)
  <2>0. (bad \/ garbled) \/ SizeMatches(hdr, payload) \/ ~SizeMatches(hdr, payload)
    OBVIOUS
  <2> HIDE DEF garbled
  <2>1. ASSUME bad \/ garbled
        PROVE  /\ ReadSegment(seg, log, index, zip, off) = ReadError
               /\ SlotRead(seg, log, index, e, r, zip) = ReadError
    <3>1. CASE bad
      BY <1>11, <1>13, <3>1, Zenon
    <3>2. CASE ~bad /\ garbled
      BY <1>11, <1>13, <3>2, Zenon DEF garbled
    <3> QED BY <2>1, <3>1, <3>2, Zenon
  <2>2. ASSUME ~bad, ~garbled, SizeMatches(hdr, payload)
        PROVE  /\ ReadSegment(seg, log, index, zip, off) = Message(hdr, payload)
               /\ SlotRead(seg, log, index, e, r, zip) = Message(hdr, payload)
    BY <1>11, <1>12, <1>13, <2>2, Zenon DEF garbled
  <2>3. ASSUME ~bad, ~garbled, ~SizeMatches(hdr, payload)
        PROVE  /\ ReadSegment(seg, log, index, zip, off) = ReadError
               /\ SlotRead(seg, log, index, e, r, zip) = ReadError
    BY <1>11, <1>12, <1>13, <2>3, Zenon DEF garbled
  <2> QED BY <2>1, <2>2, <2>3, Zenon
<1> QED BY <1>14, Zenon DEF off

\* Payloads by their cells.
PayloadOf(p, r, zip) ==
  /\ p \in Seq(Cell) /\ Len(p) \in Nat
  /\ zip => Len(p) # 0
  /\ ~zip => Len(p) = RawLen[r]
  /\ \A i \in 1..Len(p) : p[i].kind = "payload" /\ p[i].rec = r /\ p[i].zip = zip

LEMMA PayloadCells ==
  ASSUME NEW r \in Records, NEW zip \in BOOLEAN
  PROVE  PayloadOf(Payload(r, zip), r, zip)
<1> DEFINE n == IF zip THEN ZipLen[r] ELSE RawLen[r]
<1>1. n \in Nat /\ (zip => n # 0)
  BY LengthAssumption
<1>2. Payload(r, zip) = [i \in 1..n |-> [kind |-> "payload", rec |-> r, zip |-> zip, cell |-> i]]
  BY Zenon DEF Payload
<1> HIDE DEF n
<1>3. Len(Payload(r, zip)) = n
  BY <1>1, <1>2
<1>4. \A i \in 1..n : Payload(r, zip)[i] = [kind |-> "payload", rec |-> r, zip |-> zip, cell |-> i]
  BY <1>2, Zenon
<1>5. \A i \in 1..n : /\ Payload(r, zip)[i].kind = "payload" /\ Payload(r, zip)[i].rec = r
                      /\ Payload(r, zip)[i].zip = zip
  <2>1. ASSUME NEW i \in 1..n, NEW c, c = [kind |-> "payload", rec |-> r, zip |-> zip, cell |-> i]
        PROVE  c.kind = "payload" /\ c.rec = r /\ c.zip = zip
    BY <2>1
  <2> QED BY <1>4, <2>1, Zenon
<1>6. Payload(r, zip) \in Seq(Cell)
  BY PayloadType
<1>7. ~zip => n = RawLen[r]
  BY DEF n
<1> QED BY <1>1, <1>3, <1>5, <1>6, <1>7, Zenon DEF PayloadOf

LEMMA SamePayload ==
  ASSUME NEW S, NEW raw \in Seq(S), NEW r \in Records, NEW zip \in BOOLEAN,
         Len(raw) = Len(Payload(r, zip)), \A i \in 1..Len(raw) : raw[i] = Payload(r, zip)[i]
  PROVE  raw = Payload(r, zip)
<1>1. Payload(r, zip) \in Seq(Cell)
  BY PayloadType
<1> DEFINE p == Payload(r, zip)
<1> HIDE DEF p
<1>2. p \in Seq(Cell) /\ Len(raw) = Len(p) /\ \A i \in 1..Len(raw) : raw[i] = p[i]
  BY <1>1 DEF p
<1>3. raw = p
  BY <1>2
<1> QED BY <1>3 DEF p

\* A read that finds the record or fails.
RecordOrError(got, off, r) ==
  \/ got.outcome = "error"
  \/ got.outcome = "ok" /\ got.offset = off /\ got.payload = Payload(r, FALSE)

\* Everything in the file is encoded as the reader expects.
Uniform(log, zip) == \A i \in 1..Len(log) : log[i].kind = "payload" => log[i].zip = zip

\* The bytes of a slot.
RawHolds(raw, log, r, z, exact) ==
  LET n == Len(Payload(r, z))
  IN  /\ raw \in Seq(Cell) /\ n \in Nat /\ n <= Len(raw) /\ (exact => n = Len(raw))
      /\ \A i \in 1..n : raw[i] = Payload(r, z)[i]
      /\ \A i \in 1..n : \E x \in 1..Len(log) : raw[i] = log[x]

LEMMA RawCells ==
  ASSUME NEW log \in Seq(Cell), NEW index \in Seq(IndexEntry), NEW e \in 1..Len(index), NEW off,
         NEW r \in Records, NEW z \in BOOLEAN, NEW exact, Slot(log, index, e, off, r, z, exact)
  PROVE  RawHolds(RawOf(log, index, e), log, r, z, exact)
<1> DEFINE pos == index[e].position
           end == EndOf(log, index, e)
           p == Payload(r, z)
           n == Len(p)
           raw == RawOf(log, index, e)
<1>1. Len(index) \in Nat /\ Len(log) \in Nat /\ index[e] \in IndexEntry
  OBVIOUS
<1>2. pos \in Nat /\ n \in Nat
  BY <1>1, PayloadType DEF IndexEntry
<1>3. end \in Nat
  <2>1. CASE e < Len(index)
    <3>1. index[e + 1] \in IndexEntry
      BY <1>1, <2>1
    <3> QED BY <2>1, <3>1 DEF EndOf, IndexEntry
  <2>2. CASE ~(e < Len(index))
    BY <1>1, <2>2 DEF EndOf
  <2> QED BY <2>1, <2>2
<1>4. /\ end <= Len(log) /\ pos + 1 + n <= end /\ (exact => pos + 1 + n = end)
  BY Zenon DEF Slot, StoredAt
<1>5. \A i \in 1..n : log[pos + 1 + i] = p[i]
  BY Zenon DEF Slot, StoredAt
<1>6. raw = SubSeq(log, pos + 2, end)
  BY DEF RawOf
<1> HIDE DEF pos, end, p, n, raw
<1>7. /\ raw \in Seq(Cell) /\ Len(raw) = end - pos - 1
      /\ \A i \in 1..(end - pos - 1) : raw[i] = log[pos + 1 + i]
  <2>1. pos + 2 \in 1..(Len(log) + 1) /\ end \in (pos + 1)..Len(log)
    BY <1>1, <1>2, <1>3, <1>4
  <2>2. raw \in Seq(Cell)
    BY <1>1, <1>6, <2>1
  <2>3. Len(raw) = end - pos - 1
    BY <1>1, <1>2, <1>3, <1>6, <2>1
  <2>4. \A i \in 1..(end - pos - 1) : raw[i] = log[(pos + 2) + i - 1]
    BY <1>1, <1>2, <1>3, <1>6, <2>1
  <2>5. \A i \in 1..(end - pos - 1) : (pos + 2) + i - 1 = pos + 1 + i
    BY <1>2
  <2> QED BY <2>2, <2>3, <2>4, <2>5, Zenon
<1>8. ASSUME NEW i \in 1..n PROVE raw[i] = p[i] /\ \E x \in 1..Len(log) : raw[i] = log[x]
  <2>1. i \in 1..(end - pos - 1) /\ pos + 1 + i \in 1..Len(log)
    BY <1>1, <1>2, <1>3, <1>4
  <2> QED BY <1>5, <1>7, <2>1, Zenon
<1>9. n <= Len(raw) /\ (exact => n = Len(raw))
  <2>1. Len(raw) = end - pos - 1
    BY <1>7
  <2> QED BY <1>2, <1>3, <1>4, <2>1
<1>10. raw \in Seq(Cell)
  BY <1>7
<1> QED BY <1>2, <1>8, <1>9, <1>10, Zenon DEF n, p, raw, RawHolds

\* Reading a slot finds its record or fails, if the file is uniformly encoded.
LEMMA ReadStored ==
  ASSUME NEW seg \in SegmentType, NEW log \in Seq(Cell), NEW index \in Seq(IndexEntry),
         Mirrors(seg, log, index), NEW e \in 1..Len(index),
         NEW r \in Records, NEW z \in BOOLEAN, NEW exact, NEW zip \in BOOLEAN,
         Slot(log, index, e, seg.baseOffset + e - 1, r, z, exact), Uniform(log, zip)
  PROVE  RecordOrError(ReadSegment(seg, log, index, zip, seg.baseOffset + e - 1),
                       seg.baseOffset + e - 1, r)
<1> DEFINE off == seg.baseOffset + e - 1
           got == ReadSegment(seg, log, index, zip, off)
           raw == RawOf(log, index, e)
           n == Len(Payload(r, z))
           payload == IF zip THEN Decode(raw) ELSE raw
           hdr == log[index[e].position + 1]
<1>1. got = SlotRead(seg, log, index, e, r, zip)
  BY ReadSlot, Zenon
<1>2. /\ raw \in Seq(Cell) /\ n \in Nat /\ n <= Len(raw)
      /\ \A i \in 1..n : raw[i] = Payload(r, z)[i]
      /\ \A i \in 1..n : \E x \in 1..Len(log) : raw[i] = log[x]
  <2>1. RawHolds(raw, log, r, z, exact)
    BY RawCells, Zenon
  <2> QED BY <2>1, Zenon DEF RawHolds
<1>3. hdr.offset = off
  BY Zenon DEF Slot, StoredAt, HeaderOf
<1>6. PayloadOf(Payload(r, z), r, z)
  BY PayloadCells, Zenon
<1>4. CASE got = ReadError
  <2>1. ReadError.outcome = "error"
    BY DEF ReadError
  <2>2. got.outcome = "error"
    BY <1>4, <2>1, Zenon
  <2> QED BY <2>2, Zenon DEF RecordOrError
<1>5. CASE got # ReadError
  <2>1. (zip => Decodes(raw)) /\ Len(payload) = RawLen[r] /\ got = Message(hdr, payload)
    BY <1>1, <1>5, Zenon DEF SlotRead
  <2>2. n # 0 => z = zip
    <3>1. HAVE n # 0
    <3>2. 1 \in 1..n
      BY <1>2, <3>1
    <3>3. PICK x \in 1..Len(log) : raw[1] = log[x]
      BY <1>2, <3>2, Zenon
    <3>4. raw[1].kind = "payload" /\ raw[1].zip = z
      BY <1>2, <1>6, <3>2, Zenon DEF PayloadOf
    <3> QED BY <3>3, <3>4, Zenon DEF Uniform
  <2>3. payload = Payload(r, FALSE)
    <3>1. CASE zip = FALSE
      <4>1. payload = raw /\ z = FALSE
        <5>1. n # 0 \/ z = FALSE
          BY <1>6 DEF PayloadOf
        <5> QED BY <2>2, <3>1, <5>1
      <4>2. Len(raw) = RawLen[r] /\ n = RawLen[r]
        BY <1>6, <2>1, <4>1, Zenon DEF PayloadOf
      <4> QED BY <1>2, <4>1, <4>2, SamePayload, Zenon
    <3>2. CASE zip = TRUE
      <4>1. PICK q \in Records : raw = Payload(q, TRUE) /\ payload = Payload(q, FALSE)
        <5>1. Decodes(raw)
          BY <2>1, <3>2
        <5> DEFINE q == CHOOSE q \in Records : raw = Payload(q, TRUE)
        <5>2. q \in Records /\ raw = Payload(q, TRUE)
          BY <5>1, Zenon DEF Decodes
        <5>3. payload = Payload(q, FALSE)
          BY <3>2, Zenon DEF Decode
        <5> QED BY <5>2, <5>3, Zenon
      <4>2. /\ PayloadOf(Payload(q, FALSE), q, FALSE) /\ PayloadOf(Payload(r, FALSE), r, FALSE)
            /\ PayloadOf(Payload(q, TRUE), q, TRUE)
        BY PayloadCells, Zenon
      <4>3. CASE n # 0
        <5>1. 1 \in 1..n /\ 1 \in 1..Len(raw)
          BY <1>2, <4>3
        <5>2. raw[1].rec = r
          BY <1>2, <1>6, <5>1, Zenon DEF PayloadOf
        <5>3. raw[1].rec = q
          BY <4>1, <4>2, <5>1, Zenon DEF PayloadOf
        <5> QED BY <4>1, <5>2, <5>3, Zenon
      <4>4. CASE n = 0
        <5>1. RawLen[r] = 0
          <6>1. z = FALSE
            BY <1>6, <4>4, Zenon DEF PayloadOf
          <6> QED BY <1>6, <4>4, <6>1, Zenon DEF PayloadOf
        <5>2. Payload(q, FALSE) = Payload(r, FALSE)
          <6>1. /\ Len(Payload(q, FALSE)) = 0 /\ Len(Payload(r, FALSE)) = 0
                /\ Payload(q, FALSE) \in Seq(Cell) /\ Payload(r, FALSE) \in Seq(Cell)
            <7>1. Len(Payload(q, FALSE)) = RawLen[r]
              BY <2>1, <4>1, Zenon
            <7> QED BY <4>2, <5>1, <7>1, Zenon DEF PayloadOf
          <6> DEFINE u == Payload(q, FALSE)
                     v == Payload(r, FALSE)
          <6> HIDE DEF u, v
          <6>2. Len(u) = 0 /\ Len(v) = 0 /\ u \in Seq(Cell) /\ v \in Seq(Cell)
            BY <6>1 DEF u, v
          <6>3. u = v
            BY <6>2
          <6> QED BY <6>3 DEF u, v
        <5> QED BY <4>1, <5>2, Zenon
      <4> QED BY <4>3, <4>4
    <3> QED BY <3>1, <3>2
  <2> HIDE DEF payload, hdr, got
  <2>4. got.outcome = "ok" /\ got.offset = off /\ got.payload = Payload(r, FALSE)
    <3>1. got = [outcome |-> "ok", offset |-> off, timestamp |-> hdr.timestamp,
                 payload |-> Payload(r, FALSE)]
      BY <1>3, <2>1, <2>3, Zenon DEF Message
    <3> QED BY <3>1
  <2> QED BY <2>4, Zenon DEF RecordOrError, got
<1> QED BY <1>4, <1>5

\* In a file written without a fault and without compression every slot is read.
LEMMA ReadExact ==
  ASSUME NEW seg \in SegmentType, NEW log \in Seq(Cell), NEW index \in Seq(IndexEntry),
         Mirrors(seg, log, index), NEW e \in 1..Len(index), NEW r \in Records,
         Slot(log, index, e, seg.baseOffset + e - 1, r, FALSE, TRUE),
         seg.open, seg.baseOffset + e - 1 < seg.nextOffset
  PROVE  LET got == ReadSegment(seg, log, index, FALSE, seg.baseOffset + e - 1)
         IN  got.outcome = "ok" /\ got.offset = seg.baseOffset + e - 1 /\ got.payload = Payload(r, FALSE)
<1> DEFINE off == seg.baseOffset + e - 1
           got == ReadSegment(seg, log, index, FALSE, off)
           raw == RawOf(log, index, e)
           n == Len(Payload(r, FALSE))
           hdr == log[index[e].position + 1]
<1>1. got = SlotRead(seg, log, index, e, r, FALSE)
  BY ReadSlot, Zenon
<1>2. /\ raw \in Seq(Cell) /\ n = Len(raw)
      /\ \A i \in 1..n : raw[i] = Payload(r, FALSE)[i]
  <2>1. RawHolds(raw, log, r, FALSE, TRUE)
    BY RawCells, Zenon
  <2> QED BY <2>1, Zenon DEF RawHolds
<1>3. raw = Payload(r, FALSE)
  BY <1>2, SamePayload, Zenon
<1>4. hdr.offset = off
  BY Zenon DEF Slot, StoredAt, HeaderOf
<1>5. Len(raw) = RawLen[r]
  <2>1. PayloadOf(Payload(r, FALSE), r, FALSE)
    BY PayloadCells, Zenon
  <2> QED BY <1>2, <2>1, Zenon DEF PayloadOf
<1>6. ~(off >= seg.nextOffset)
  <2>1. seg.baseOffset \in Nat /\ seg.nextOffset \in Nat
    BY DEF SegmentType
  <2> QED BY <2>1
<1>7. got = Message(hdr, raw)
  BY <1>1, <1>5, <1>6, Zenon DEF SlotRead
<1> HIDE DEF got, hdr, raw
<1>8. got = [outcome |-> "ok", offset |-> off, timestamp |-> hdr.timestamp,
             payload |-> Payload(r, FALSE)]
  BY <1>3, <1>4, <1>7, Zenon DEF Message
<1>9. got.outcome = "ok" /\ got.offset = off /\ got.payload = Payload(r, FALSE)
  BY <1>8
<1> QED BY <1>9, Zenon DEF got

=============================================================================
